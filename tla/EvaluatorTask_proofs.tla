------------------------ MODULE EvaluatorTask_proofs ------------------------
(***************************************************************************)
(* Theorems about EvaluatorTask for any features, any amount of work and   *)
(* any number of lives: what may be submitted is true, and no resource is  *)
(* taken from a task that uses it.                                         *)
(***************************************************************************)
EXTENDS EvaluatorTask, TLAPS

-----------------------------------------------------------------------------
(* The inductive invariant.                                                *)

Setup == {"entered", "acquire"}
Executing == {"to_prepare", "to_restore", "restore", "to_inject", "inject", "to_map", "map",
              "to_session", "session"}
Closing == {"extract", "remove", "diff", "manifest", "writing", "release"}
Past == {"cleanup", "abort_failed", "ended", "extracted", "unproven"}
Released == {"abort_env", "defer"} \cup Past

(* The environment is handed over once, undisturbed, or disposed of.       *)
OwnerDelivers ==
    /\ pc \in Setup => has = {} /\ ~owner.disposes /\ ~owner.nudged
    /\ pc \in Setup /\ owner.delivery = "set" => owner.at = "deciding"
    /\ owner.at = "deciding" => env = "up"
    /\ owner.at = "factory" => owner.delivery # "set"

(* Stages and captures come after the hand-over; up to the release the     *)
(* environment of the evaluation exists.                                   *)
Holding ==
    /\ pc \in Executing => held
    /\ HasCheckpoint => held
    /\ held => owner.at = "done"
    /\ held /\ pc \notin Past => env \in {"up", "revoked"}
    /\ ~held => saver = NoSavers /\ \A s \in Stages : stage[s] = "none"
    /\ \A c \in Captures : SaverLive(c) => HasCheckpoint
    /\ pc \in Executing \ {"to_prepare"} /\ "checkpoint" \in features => HasCheckpoint

(* No stage is ahead of the main coroutine.                                *)
InTurn ==
    /\ pc \in Setup \cup {"to_prepare", "to_restore"} => stage["restore"] = "none"
    /\ pc \in Setup \cup {"to_prepare", "to_restore", "restore", "to_inject"} =>
          stage["inject"] = "none"
    /\ pc \in Setup \cup {"to_prepare", "to_restore", "restore", "to_inject", "inject", "to_map"} =>
          stage["map"] = "none"

(* stop() makes its capture once the periodic task has ended.              *)
Savings ==
    /\ saver.final # "none" => pc \notin Setup \cup Executing
    /\ saver.final \in {"reading", "done", "failed"} => ~SaverLive("periodic")

(* The deferred cleanup waits for whatever was live at the release; only a  *)
(* command left behind by one of those may join.                           *)
Releasing ==
    /\ pc \notin Released => late = NoCleanup /\ tracer = "open" /\ ~aborted
    /\ pc \notin Past => late.at = "none"
    /\ pc \in Released => Dependencies \subseteq late.tasks \cup {"leftover"}
    /\ pc = "cleanup" => aborted \/ late.tasks = {}
    /\ manifest = "live" => pc \in Released \cup {"writing", "release"}
    /\ aborted \/ late.env \/ pc \in {"abort_env", "cleanup", "abort_failed"} => held

(* As long as nothing speaks against the result, every task has ended      *)
(* before the main coroutine went on, and what it did to the worktree is   *)
(* known.                                                                  *)
Sound == flaws \subseteq {"extraction"}

Harmless ==
    /\ pc \notin {"abort", "abort_env", "defer", "abort_failed"}
    /\ pc \notin Setup => held
    /\ pc \in Setup \cup Executing => asked = {}
    /\ \A s \in Stages : StageLive(s) => pc = s
    /\ "partial" \in tree => pc = "restore" /\ stage["restore"] = "unproven"
    /\ strays # {} => pc = "inject" /\ stage["inject"] = "isolation"
    /\ "tests" \in tree => known \/ (pc = "inject" /\ stage["inject"] \in {"ok", "isolation"})
    /\ pc \in Closing \cup Past => \A c \in Captures : ~SaverLive(c)
    /\ pc \in Past => Dependencies = {}
    /\ capture = {}

Unspoilt ==
    /\ OwnerDelivers
    /\ Holding
    /\ InTurn
    /\ Savings
    /\ Releasing
    /\ ResourcesOutliveUsers
    /\ cancelled => "error" \in flaws
    /\ Sound => Harmless

IInv == TypeOK /\ Unspoilt

-----------------------------------------------------------------------------
(* Types.                                                                  *)

LEMMA Places ==
    /\ Stages = {"restore", "inject", "map"}
    /\ To["restore"] = "to_restore" /\ To["inject"] = "to_inject" /\ To["map"] = "to_map"
    /\ Following["restore"] = "to_inject" /\ Following["inject"] = "to_map"
    /\ Following["map"] = "to_session"
    /\ {To[s] : s \in Stages} = {"to_restore", "to_inject", "to_map"}
<1>1. Stages = {"restore", "inject", "map"}
  BY DEF Stages
<1>2. /\ To["restore"] = "to_restore" /\ To["inject"] = "to_inject" /\ To["map"] = "to_map"
      /\ Following["restore"] = "to_inject" /\ Following["inject"] = "to_map"
      /\ Following["map"] = "to_session"
  BY DEF To, Following
<1>3. {To[s] : s \in Stages} = {"to_restore", "to_inject", "to_map"}
  BY <1>1, <1>2
<1> QED
  BY <1>1, <1>2, <1>3

LEMMA InitTyped == Init => TypeOK
<1> SUFFICES ASSUME Init PROVE TypeOK
  OBVIOUS
<1>1. NewOwner \in SetupOwner
  BY DEF NewOwner, SetupOwner
<1>2. NoCleanup \in Cleanup
  BY DEF NoCleanup, Cleanup
<1>3. 0 \in 0..MaxWork
  BY MaxWorkAssumption
<1>4. NoMeta \in [of : 0..MaxWork, eligible : BOOLEAN]
  BY <1>3 DEF NoMeta, Meta
<1>5. NoStages \in [Stages -> {"none", "running", "applying", "ok", "nothing", "failed",
                              "unproven", "isolation", "cancelled"}]
  BY DEF NoStages
<1>6. MainTypeOK
  <2>1. round \in 1..3
    BY DEF Init
  <2> QED
    BY <2>1 DEF Init, MainTypeOK
<1>7. OthersTypeOK
  BY <1>1, <1>2, <1>5 DEF Init, CheckpointInit, OthersTypeOK
<1>8. CheckpointTypeOK
  BY <1>3, <1>4 DEF Init, CheckpointInit, CheckpointTypeOK, NoSavers
<1> QED
  BY <1>6, <1>7, <1>8, MaxAttemptsAssumption DEF Init, TypeOK

LEMMA OwnerTyped ==
    ASSUME NEW o \in SetupOwner
    PROVE  /\ Relinquished(o) \in SetupOwner
           /\ Relinquished(o).at = o.at /\ Relinquished(o).delivery = o.delivery
           /\ Abandoned(o) \in SetupOwner
           /\ Abandoned(o).at = o.at
           /\ \A at \in {"factory", "deciding", "abort", "cleanup", "done"} :
                 [o EXCEPT !.at = at] \in SetupOwner
           /\ \A at \in {"factory", "deciding", "abort", "cleanup", "done"} :
                 [o EXCEPT !.at = at, !.nudged = FALSE] \in SetupOwner
           /\ [o EXCEPT !.delivery = "set", !.at = "deciding"] \in SetupOwner
           /\ [o EXCEPT !.at = "done", !.delivery = IF @ = "pending" THEN "failed" ELSE @]
                 \in SetupOwner
           /\ \A b \in BOOLEAN : [o EXCEPT !.nudged = b] \in SetupOwner
<1>1. Relinquished(o) \in SetupOwner
  BY DEF Relinquished, SetupOwner
<1> QED
  BY <1>1 DEF Relinquished, Abandoned, SetupOwner

LEMMA FactoryTyped ==
    ASSUME TypeOK, FactoryBuilds \/ FactoryFails \/ FactoryNudged \/ OwnerStep
    PROVE  TypeOK'
<1>1. UNCHANGED <<main, expired, stage, asked, work, aborted, tree, strays, manifest, late,
                  tracer, capture, setting, checkpoint>>
  BY DEF FactoryBuilds, FactoryFails, FactoryNudged, OwnerStep, OwnerDisposes, OwnerTearsDown,
         OwnerOnly
<1>2. MainTypeOK' /\ CheckpointTypeOK' /\ features' \in FeatureSets /\ attempt' \in 1..MaxAttempts
  BY <1>1 DEF TypeOK, MainTypeOK, CheckpointTypeOK, main, setting, checkpoint, files
<1>3. owner \in SetupOwner /\ env \in {"none", "up", "revoked", "gone"}
      /\ failures \subseteq {"disposal", "cleanup", "late"}
  BY DEF TypeOK, OthersTypeOK
<1>4. owner' \in SetupOwner
  <2>1. CASE FactoryBuilds \/ FactoryFails
    BY <2>1, <1>3, OwnerTyped DEF FactoryBuilds, FactoryFails
  <2>2. CASE FactoryNudged \/ OwnerDisposes
    BY <2>2, <1>3, OwnerTyped DEF FactoryNudged, OwnerDisposes
  <2>3. CASE OwnerTearsDown
    <3>1. PICK at \in {"cleanup", "done"} : owner' = [owner EXCEPT !.at = at]
      BY <2>3 DEF OwnerTearsDown
    <3> QED
      BY <3>1, <1>3, OwnerTyped
  <2> QED
    BY <2>1, <2>2, <2>3 DEF OwnerStep
<1>5. env' \in {"none", "up", "revoked", "gone"} /\ failures' \subseteq {"disposal", "cleanup", "late"}
  BY <1>3 DEF FactoryBuilds, FactoryFails, FactoryNudged, OwnerStep, OwnerDisposes, OwnerTearsDown
<1>6. OthersTypeOK'
  BY <1>1, <1>4, <1>5 DEF TypeOK, OthersTypeOK
<1> QED
  BY <1>2, <1>6 DEF TypeOK

LEMMA AcquireTyped ==
    ASSUME TypeOK, Enters \/ Acquires \/ AcquireEnds \/ Prepares
    PROVE  TypeOK'
<1>1. UNCHANGED <<expired, round, cancelled, known, record, observed, stage, asked, world, ending,
                  setting, checkpoint>>
  BY DEF Enters, Acquires, AcquireEnds, Prepares, AcquireOnly
<1>2. CheckpointTypeOK' /\ features' \in FeatureSets /\ attempt' \in 1..MaxAttempts
  BY <1>1 DEF TypeOK, CheckpointTypeOK, world, setting, checkpoint, files
<1>3. MainTypeOK'
  BY <1>1, Places DEF Enters, Acquires, AcquireEnds, Prepares, Flawed, TypeOK, MainTypeOK
<1>4. owner' \in SetupOwner
  <2>1. owner \in SetupOwner
    BY DEF TypeOK, OthersTypeOK
  <2> QED
    BY <2>1, OwnerTyped DEF Enters, Acquires, AcquireEnds, Prepares
<1>5. OthersTypeOK'
  BY <1>1, <1>4 DEF TypeOK, OthersTypeOK, world, ending
<1> QED
  BY <1>2, <1>3, <1>5 DEF TypeOK

LEMMA StageStepsTyped ==
    ASSUME TypeOK,
           \/ StartsCheckpoint
           \/ \E s \in Stages : SkipsStage(s) \/ EntersStage(s) \/ StageReturns(s) \/ StageTimesOut(s)
    PROVE  TypeOK'
<1>1. UNCHANGED <<expired, round, cancelled, has, record, owner, world, ending, setting>>
  BY DEF StartsCheckpoint, SkipsStage, EntersStage, StageReturns, StageTimesOut, StageOnly
<1>2. CheckpointTypeOK'
  BY <1>1 DEF StartsCheckpoint, SkipsStage, EntersStage, StageReturns, StageTimesOut, StartSaving,
              TypeOK, CheckpointTypeOK, world, checkpoint, files, Savers
<1>3. MainTypeOK'
  <2>1. CASE StartsCheckpoint
    BY <1>1, <2>1, Places DEF StartsCheckpoint, Flawed, TypeOK, MainTypeOK
  <2>2. ASSUME NEW s \in Stages, SkipsStage(s) \/ EntersStage(s) \/ StageReturns(s) \/ StageTimesOut(s)
        PROVE  MainTypeOK'
    <3>1. Following[s] \in {"to_inject", "to_map", "to_session"}
      BY Places
    <3>2. StageFlaws(s) \subseteq {"error", "restore", "isolation"}
      BY DEF StageFlaws
    <3>3. known' \in BOOLEAN /\ observed' \subseteq Stages
      BY <1>1, <2>2 DEF SkipsStage, EntersStage, StageReturns, StageTimesOut, TypeOK, MainTypeOK
    <3> QED
      BY <1>1, <2>2, <3>1, <3>2, <3>3, Places
         DEF SkipsStage, EntersStage, StageReturns, StageTimesOut, Flawed, TypeOK, MainTypeOK
  <2> QED
    BY <2>1, <2>2
<1>4. OthersTypeOK'
  BY <1>1 DEF StartsCheckpoint, SkipsStage, EntersStage, StageReturns, StageTimesOut, TypeOK,
              OthersTypeOK, world, ending
<1> QED
  BY <1>1, <1>2, <1>3, <1>4 DEF TypeOK, setting

LEMMA StageTasksTyped ==
    ASSUME TypeOK, StageStep
    PROVE  TypeOK'
<1>1. UNCHANGED <<main, expired, owner, asked, aborted, ending, setting, files, stop>>
  BY DEF StageStep, StageEndsEarly, StageApplies, RestoreEnds, InjectionEnds, TaskOnly, checkpoint
<1>2. MainTypeOK'
  BY <1>1 DEF TypeOK, MainTypeOK, main
<1>3. CheckpointTypeOK'
  BY <1>1 DEF StageStep, StageEndsEarly, StageApplies, RestoreEnds, InjectionEnds, TaskOnly,
              TypeOK, CheckpointTypeOK, checkpoint, files, Lingering, Savers
<1>4. stage' \in [Stages -> {"none", "running", "applying", "ok", "nothing", "failed",
                            "unproven", "isolation", "cancelled"}]
  <2>1. stage \in [Stages -> {"none", "running", "applying", "ok", "nothing", "failed",
                            "unproven", "isolation", "cancelled"}]
    BY DEF TypeOK, OthersTypeOK
  <2> QED
    BY <2>1 DEF StageStep, StageEndsEarly, StageApplies, RestoreEnds, InjectionEnds, StageBecomes
<1>5. /\ env' \in {"none", "up", "revoked", "gone"}
      /\ tree' \subseteq {"partial", "tests"} /\ strays' \subseteq {"session", "rollback"}
  BY DEF StageStep, StageEndsEarly, StageApplies, RestoreEnds, InjectionEnds, TypeOK, OthersTypeOK
<1> QED
  BY <1>1, <1>2, <1>3, <1>4, <1>5 DEF TypeOK, OthersTypeOK, ending, setting

LEMMA SessionTyped ==
    ASSUME TypeOK, EntersSession \/ SessionWorks \/ SessionEnds
    PROVE  TypeOK'
<1>1. UNCHANGED <<expired, round, cancelled, has, known, observed, tasks, env, aborted,
                  tree, ending, setting, checkpoint>>
  BY DEF EntersSession, SessionWorks, SessionEnds, SessionOnly
<1>2. work' \in 0..MaxWork
  BY MaxWorkAssumption DEF EntersSession, SessionWorks, SessionEnds, TypeOK, CheckpointTypeOK
<1>3. CheckpointTypeOK'
  BY <1>1, <1>2 DEF TypeOK, CheckpointTypeOK, checkpoint, files
<1>4. MainTypeOK'
  BY <1>1, Places DEF EntersSession, SessionWorks, SessionEnds, Flawed, TypeOK, MainTypeOK
<1>5. OthersTypeOK'
  BY <1>1 DEF EntersSession, SessionWorks, SessionEnds, TypeOK, OthersTypeOK, tasks, ending
<1> QED
  BY <1>1, <1>3, <1>4, <1>5 DEF TypeOK, setting

LEMMA TimeTyped ==
    ASSUME TypeOK, DeadlinePasses \/ CancelsRun \/ CancelsTeardown
    PROVE  TypeOK'
<1>1. UNCHANGED <<stage, world, ending, setting, checkpoint>>
  BY DEF DeadlinePasses, CancelsRun, CancelsTeardown, tasks
<1>2. CheckpointTypeOK'
  BY <1>1 DEF TypeOK, CheckpointTypeOK, world, checkpoint, files
<1>3. MainTypeOK'
  <2>1. CASE DeadlinePasses
    BY <2>1 DEF DeadlinePasses, TypeOK, MainTypeOK, main
  <2>2. CASE CancelsRun \/ CancelsTeardown
    <3>1. observed' \subseteq Stages
      BY <2>2 DEF CancelsRun, CancelsTeardown, TypeOK, MainTypeOK
    <3> QED
      BY <2>2, <3>1 DEF CancelsRun, CancelsTeardown, Flawed, TypeOK, MainTypeOK
  <2> QED
    BY <2>1, <2>2
<1>4. owner' \in SetupOwner
  <2>1. owner \in SetupOwner
    BY DEF TypeOK, OthersTypeOK
  <2> QED
    BY <2>1, OwnerTyped DEF DeadlinePasses, CancelsRun, CancelsTeardown, tasks
<1>5. asked' \subseteq Stages \cup Captures
  BY DEF DeadlinePasses, CancelsRun, CancelsTeardown, tasks, TypeOK, OthersTypeOK
<1>6. OthersTypeOK'
  BY <1>1, <1>4, <1>5 DEF TypeOK, OthersTypeOK, world, ending
<1> QED
  BY <1>1, <1>2, <1>3, <1>6 DEF TypeOK, setting

LEMMA SettleTyped ==
    ASSUME TypeOK, Settles \/ SettleTimesOut \/ SettleGivesUp
    PROVE  TypeOK'
<1>1. UNCHANGED <<cancelled, has, record, expired, stage, world, ending, setting, checkpoint>>
  BY DEF Settles, SettleTimesOut, SettleGivesUp, SettleOnly
<1>2. CheckpointTypeOK'
  BY <1>1 DEF TypeOK, CheckpointTypeOK, world, checkpoint, files
<1>3. LateFlaws \subseteq {"restore", "isolation", "error"}
  BY DEF LateFlaws
<1>4. known' \in BOOLEAN /\ observed' \subseteq Stages /\ round' \in 1..3
  <2>1. known' \in BOOLEAN /\ observed' \subseteq Stages
    <3>1. known \in BOOLEAN /\ observed \subseteq Stages
      BY DEF TypeOK, MainTypeOK
    <3>2. known' = known \/ known' = (known \/ LateKnown)
      BY DEF Settles, SettleTimesOut, SettleGivesUp
    <3>3. observed' = observed \/ observed' = Stages
      BY DEF Settles, SettleTimesOut, SettleGivesUp
    <3> QED
      BY <3>1, <3>2, <3>3
  <2>2. round' \in 1..3
    BY DEF Settles, SettleTimesOut, SettleGivesUp, TypeOK, MainTypeOK
  <2> QED
    BY <2>1, <2>2
<1>5. pc' \in {"settle", "finalize"}
  BY DEF Settles, SettleTimesOut, SettleGivesUp
<1>6. \/ flaws' = flaws \cup LateFlaws
      \/ flaws' = flaws \cup {"error", "not_quiesced"}
      \/ flaws' = flaws
  <2>1. CASE Settles
    BY <2>1 DEF Settles, Flawed
  <2>2. CASE SettleTimesOut \/ SettleGivesUp
    BY <2>2 DEF SettleTimesOut, SettleGivesUp, Flawed
  <2> QED
    BY <2>1, <2>2
<1>7. MainTypeOK'
  BY <1>1, <1>3, <1>4, <1>5, <1>6 DEF TypeOK, MainTypeOK
<1>8. owner' \in SetupOwner
  <2>1. owner \in SetupOwner
    BY DEF TypeOK, OthersTypeOK
  <2> QED
    BY <2>1, OwnerTyped DEF Settles, SettleTimesOut, SettleGivesUp
<1>9. asked' \subseteq Stages \cup Captures
  BY DEF Settles, SettleTimesOut, SettleGivesUp, TypeOK, OthersTypeOK, LiveStages
<1>10. OthersTypeOK'
  BY <1>1, <1>8, <1>9 DEF TypeOK, OthersTypeOK, world, ending
<1> QED
  BY <1>1, <1>2, <1>7, <1>10 DEF TypeOK, setting

LEMMA FinalTyped ==
    ASSUME TypeOK,
           HandlesCheckpoint \/ AbortEnds \/ StopReturns \/ StopTimesOut \/ StopGivesUp
             \/ Extracts \/ RemovesTests \/ TakesDiff
    PROVE  TypeOK'
<1>1. UNCHANGED <<cancelled, has, known, record, observed, expired, owner, stage, work,
                  aborted, strays, manifest, late, tracer, failures, setting, files>>
  BY DEF HandlesCheckpoint, AbortEnds, StopReturns, StopTimesOut, StopGivesUp, Extracts,
         RemovesTests, TakesDiff, FinalOnly
<1>2. saver' \in {saver, [saver EXCEPT !.final = "waits"]} /\ stop' \in {stop, TRUE}
  BY DEF HandlesCheckpoint, AbortEnds, StopReturns, StopTimesOut, StopGivesUp, Extracts,
         RemovesTests, TakesDiff
<1>3. CheckpointTypeOK'
  BY <1>1, <1>2 DEF TypeOK, CheckpointTypeOK, files
<1>4. MainTypeOK'
  <2>1. CASE HandlesCheckpoint
    <3>1. pc' \in {"extract", "stop", "abort"} /\ UNCHANGED <<round, flaws>>
      BY <2>1 DEF HandlesCheckpoint
    <3> QED
      BY <1>1, <3>1 DEF TypeOK, MainTypeOK
  <2>2. CASE AbortEnds \/ StopReturns \/ StopTimesOut \/ StopGivesUp
    <3>1. round' \in 1..3 /\ pc' \in {"extract", "stop", "abort"}
      BY <2>2 DEF AbortEnds, StopReturns, StopTimesOut, StopGivesUp, TypeOK, MainTypeOK
    <3>2. flaws' \subseteq {"error", "stage", "restore", "isolation", "not_quiesced",
                           "extraction", "injected"}
      BY <2>2 DEF AbortEnds, StopReturns, StopTimesOut, StopGivesUp, Flawed, TypeOK, MainTypeOK
    <3> QED
      BY <1>1, <3>1, <3>2 DEF TypeOK, MainTypeOK
  <2>3. CASE Extracts \/ RemovesTests \/ TakesDiff
    <3>1. UNCHANGED round /\ pc' \in {"remove", "diff", "manifest"}
      BY <2>3 DEF Extracts, RemovesTests, TakesDiff
    <3>2. flaws' \subseteq {"error", "stage", "restore", "isolation", "not_quiesced",
                           "extraction", "injected"}
      BY <2>3 DEF Extracts, RemovesTests, TakesDiff, Flawed, TypeOK, MainTypeOK
    <3> QED
      BY <1>1, <3>1, <3>2 DEF TypeOK, MainTypeOK
  <2> QED
    BY <2>1, <2>2, <2>3
<1>5. asked' \subseteq Stages \cup Captures
  BY DEF HandlesCheckpoint, AbortEnds, StopReturns, StopTimesOut, StopGivesUp, Extracts,
         RemovesTests, TakesDiff, TypeOK, OthersTypeOK, LiveSavers, Captures
<1>6. env' \in {"none", "up", "revoked", "gone"}
  BY DEF HandlesCheckpoint, AbortEnds, StopReturns, StopTimesOut, StopGivesUp, Extracts,
         RemovesTests, TakesDiff, TypeOK, OthersTypeOK, Revoked
<1>7. tree' \subseteq {"partial", "tests"} /\ capture' \subseteq {"unquiet", "partial", "tests"}
  <2>1. Wrong \subseteq {"unquiet", "partial", "tests"}
    BY DEF Wrong, TypeOK, OthersTypeOK
  <2> QED
    BY <2>1 DEF HandlesCheckpoint, AbortEnds, StopReturns, StopTimesOut, StopGivesUp, Extracts,
                RemovesTests, TakesDiff, TypeOK, OthersTypeOK
<1>8. OthersTypeOK'
  BY <1>1, <1>5, <1>6, <1>7 DEF TypeOK, OthersTypeOK
<1> QED
  BY <1>1, <1>3, <1>4, <1>8 DEF TypeOK, setting

LEMMA ManifestTyped ==
    ASSUME TypeOK, EntersManifest \/ ManifestReturns \/ ManifestEnds
    PROVE  TypeOK'
<1>1. UNCHANGED <<round, cancelled, has, known, record, observed, expired, tasks,
                  world, late, tracer, failures, capture, setting, checkpoint>>
  BY DEF EntersManifest, ManifestReturns, ManifestEnds, ManifestOnly
<1>2. CheckpointTypeOK'
  BY <1>1 DEF TypeOK, CheckpointTypeOK, world, checkpoint, files
<1>3. MainTypeOK'
  BY <1>1 DEF EntersManifest, ManifestReturns, ManifestEnds, Flawed, TypeOK, MainTypeOK
<1>4. OthersTypeOK'
  BY <1>1 DEF EntersManifest, ManifestReturns, ManifestEnds, TypeOK, OthersTypeOK, tasks, world
<1> QED
  BY <1>1, <1>2, <1>3, <1>4 DEF TypeOK, setting

LEMMA LiveTasksTyped ==
    /\ Dependencies \subseteq Stages \cup Savers \cup {"owner", "manifest"}
    /\ LateTasks \subseteq Stages \cup Savers \cup {"owner", "manifest"}
BY DEF Dependencies, LateTasks, LiveStages, LiveOwner, LiveManifest, LiveLeftover, LiveSavers,
       Captures, Savers

LEMMA ReleaseTyped ==
    ASSUME TypeOK,
           EntersRelease \/ AbortsEnvironment \/ Defers \/ Cleans \/ AbortsAfterFailure
    PROVE  TypeOK'
<1>1. UNCHANGED <<round, cancelled, has, known, record, observed, expired, owner, stage,
                  asked, work, tree, strays, manifest, capture, setting, checkpoint>>
  BY DEF EntersRelease, AbortsEnvironment, Defers, Cleans, AbortsAfterFailure, ReleaseOnly
<1>2. CheckpointTypeOK'
  BY <1>1 DEF TypeOK, CheckpointTypeOK, checkpoint, files
<1>3. MainTypeOK'
  BY <1>1 DEF EntersRelease, AbortsEnvironment, Defers, Cleans, AbortsAfterFailure, Flawed,
              TypeOK, MainTypeOK
<1>4. late' \in Cleanup
  <2>1. late \in Cleanup
    BY DEF TypeOK, OthersTypeOK
  <2>2. [late EXCEPT !.tasks = Dependencies] \in Cleanup
    BY <2>1, LiveTasksTyped DEF Cleanup
  <2>3. [late EXCEPT !.at = "waiting", !.env = (held /\ ~aborted)] \in Cleanup
    BY <2>1 DEF Cleanup
  <2> QED
    BY <2>1, <2>2, <2>3 DEF EntersRelease, AbortsEnvironment, Defers, Cleans, AbortsAfterFailure
<1>5. /\ env' \in {"none", "up", "revoked", "gone"} /\ aborted' \in BOOLEAN
      /\ tracer' \in {"open", "closed"} /\ failures' \subseteq {"disposal", "cleanup", "late"}
  BY DEF EntersRelease, AbortsEnvironment, Defers, Cleans, AbortsAfterFailure, Revoked, TypeOK,
         OthersTypeOK
<1>6. OthersTypeOK'
  BY <1>1, <1>4, <1>5 DEF TypeOK, OthersTypeOK
<1> QED
  BY <1>1, <1>2, <1>3, <1>6 DEF TypeOK, setting

LEMMA AfterwardsTyped ==
    ASSUME TypeOK, ExtractsAfterwards
    PROVE  TypeOK'
<1>1. Wrong \subseteq {"unquiet", "partial", "tests"}
  BY DEF Wrong, TypeOK, OthersTypeOK
<1> QED
  BY <1>1 DEF ExtractsAfterwards, TypeOK, MainTypeOK, OthersTypeOK, CheckpointTypeOK, tasks, world,
              setting, checkpoint, files

LEMMA LateTyped ==
    ASSUME TypeOK, LateCleans \/ LateRetains
    PROVE  TypeOK'
<1>1. UNCHANGED <<main, expired, stage, work, aborted, tree, strays, manifest, capture,
                  setting, checkpoint>>
  BY DEF LateCleans, LateRetains, LateOnly
<1>2. CheckpointTypeOK' /\ MainTypeOK'
  BY <1>1 DEF TypeOK, CheckpointTypeOK, MainTypeOK, main, checkpoint, files
<1>3. late' \in Cleanup
  <2>1. late \in Cleanup
    BY DEF TypeOK, OthersTypeOK
  <2>2. \A at \in {"done", "retained"} : [late EXCEPT !.at = at] \in Cleanup
    BY <2>1 DEF Cleanup
  <2> QED
    BY <2>2 DEF LateCleans, LateRetains
<1>4. owner' \in SetupOwner
  <2>1. owner \in SetupOwner
    BY DEF TypeOK, OthersTypeOK
  <2> QED
    BY <2>1, OwnerTyped DEF LateCleans, LateRetains
<1>5. /\ asked' \subseteq Stages \cup Captures
      /\ env' \in {"none", "up", "revoked", "gone"}
      /\ tracer' \in {"open", "closed"} /\ failures' \subseteq {"disposal", "cleanup", "late"}
  BY DEF LateCleans, LateRetains, TypeOK, OthersTypeOK
<1>6. OthersTypeOK'
  BY <1>1, <1>3, <1>4, <1>5 DEF TypeOK, OthersTypeOK
<1> QED
  BY <1>1, <1>2, <1>6 DEF TypeOK, setting

LEMMA WrittenTyped ==
    ASSUME CheckpointTypeOK
    PROVE  /\ Written.patch \in 0..MaxWork
           /\ Written.meta \in [of : 0..MaxWork, eligible : BOOLEAN]
           /\ \A end \in Failures :
                 end.patch \in 0..MaxWork /\ end.meta \in [of : 0..MaxWork, eligible : BOOLEAN]
           /\ {Preserved, [patch |-> patch, meta |-> meta]} \subseteq Failures
<1>1. 0 \in 0..MaxWork
  BY MaxWorkAssumption
<1>2. NoMeta \in [of : 0..MaxWork, eligible : BOOLEAN]
  BY <1>1 DEF NoMeta, Meta
<1>3. \A n \in 0..MaxWork, b \in BOOLEAN : Meta(n, b) \in [of : 0..MaxWork, eligible : BOOLEAN]
  BY DEF Meta
<1>4. Restorable \in BOOLEAN
  BY DEF Restorable, Intact, CheckpointTypeOK
<1>5. Meta(patch, Restorable) \in [of : 0..MaxWork, eligible : BOOLEAN]
  BY <1>3, <1>4 DEF CheckpointTypeOK
<1>6. Written.patch = work /\ Written.meta \in {Meta(work, TRUE), NoMeta}
  BY DEF Written
<1>7. Preserved.patch = patch /\ Preserved.meta = Meta(patch, Restorable)
  BY DEF Preserved
<1>8. \A end \in Failures :
         end.patch \in {patch, work} /\ end.meta \in {meta, Meta(patch, Restorable)}
  BY <1>7 DEF Failures
<1>9. {Preserved, [patch |-> patch, meta |-> meta]} \subseteq Failures
  BY DEF Failures
<1> QED
  BY <1>2, <1>3, <1>5, <1>6, <1>8, <1>9 DEF CheckpointTypeOK

LEMMA CheckpointTyped ==
    ASSUME TypeOK, CheckpointStep
    PROVE  TypeOK'
<1>1. UNCHANGED <<main, expired, owner, stage, env, aborted, tree, strays, ending, setting>>
  BY DEF CheckpointStep
<1>2. UNCHANGED <<work, stop, asked>>
  BY DEF CheckpointStep, SaverStep, IntervalPasses, PeriodicReturns, StopAwaits, LeftoverEnds,
         CaptureEnds, CaptureRaises, SaverCancelled
<1>3. CheckpointTypeOK
  BY DEF TypeOK
<1>4. saver' \in [Savers -> {"none", "idle", "waits", "reading", "lingers",
                            "done", "failed", "cancelled"}]
  BY <1>3 DEF CheckpointStep, SaverStep, IntervalPasses, PeriodicReturns, StopAwaits, LeftoverEnds,
              CaptureEnds, CaptureRaises, SaverCancelled, CheckpointTypeOK, Savers, Captures
<1>5. \/ UNCHANGED files
      \/ patch' = Written.patch /\ meta' = Written.meta /\ saved' = work
      \/ /\ \E end \in Failures : patch' = end.patch /\ meta' = end.meta
         /\ UNCHANGED saved
  <2>1. CASE \E c \in Captures : CaptureEnds(c, Usable)
    BY <2>1, <1>3, WrittenTyped DEF CaptureEnds
  <2>2. CASE UNCHANGED files
    BY <2>2
  <2> QED
    BY <2>1, <2>2 DEF CheckpointStep, SaverStep, IntervalPasses, PeriodicReturns, StopAwaits,
                      LeftoverEnds, CaptureRaises, SaverCancelled
<1>6. /\ patch' \in 0..MaxWork /\ saved' \in 0..MaxWork
      /\ meta' \in [of : 0..MaxWork, eligible : BOOLEAN]
  BY <1>3, <1>5, WrittenTyped DEF CheckpointTypeOK, files
<1>7. CheckpointTypeOK'
  BY <1>2, <1>3, <1>4, <1>6 DEF CheckpointTypeOK
<1>8. MainTypeOK'
  BY <1>1 DEF TypeOK, MainTypeOK, main
<1>9. OthersTypeOK'
  BY <1>1, <1>2 DEF TypeOK, OthersTypeOK, ending
<1> QED
  BY <1>1, <1>7, <1>8, <1>9 DEF TypeOK, setting

LEMMA CrashTyped ==
    ASSUME TypeOK, Crashes
    PROVE  TypeOK'
<1>1. NewOwner \in SetupOwner
  BY DEF NewOwner, SetupOwner
<1>2. NoCleanup \in Cleanup
  BY DEF NoCleanup, Cleanup
<1>3. 0 \in 0..MaxWork
  BY MaxWorkAssumption
<1>4. NoStages \in [Stages -> {"none", "running", "applying", "ok", "nothing", "failed",
                              "unproven", "isolation", "cancelled"}]
  BY DEF NoStages
<1>5. MainTypeOK'
  <2>1. round' \in 1..3
    BY DEF Crashes
  <2> QED
    BY <2>1 DEF Crashes, MainTypeOK
<1>6. OthersTypeOK'
  BY <1>1, <1>2, <1>4 DEF Crashes, OthersTypeOK
<1>7. patch' \in 0..MaxWork
  BY DEF Crashes, FilesAfterCrash, TypeOK, CheckpointTypeOK
<1>8. CheckpointTypeOK'
  BY <1>3, <1>7 DEF Crashes, TypeOK, CheckpointTypeOK, NoSavers
<1>9. features' \in FeatureSets /\ attempt' \in 1..MaxAttempts
  BY MaxAttemptsAssumption DEF Crashes, TypeOK
<1> QED
  BY <1>5, <1>6, <1>8, <1>9 DEF TypeOK

LEMMA StepTyped == TypeOK /\ [Next]_vars => TypeOK'
<1> SUFFICES ASSUME TypeOK, [Next]_vars PROVE TypeOK'
  OBVIOUS
<1>1. CASE MainStep
  BY <1>1, AcquireTyped, StageStepsTyped, SessionTyped, SettleTyped, FinalTyped, ManifestTyped,
     ReleaseTyped, AfterwardsTyped DEF MainStep
<1>2. CASE FactoryBuilds \/ FactoryFails \/ FactoryNudged \/ OwnerStep
  BY <1>2, FactoryTyped
<1>3. CASE StageStep \/ CheckpointStep \/ SessionWorks \/ ManifestEnds
  BY <1>3, StageTasksTyped, CheckpointTyped, SessionTyped, ManifestTyped
<1>4. CASE LateCleans \/ LateRetains
  BY <1>4, LateTyped
<1>5. CASE DeadlinePasses \/ CancelsRun \/ CancelsTeardown
  BY <1>5, TimeTyped
<1>6. CASE Crashes
  BY <1>6, CrashTyped
<1>7. CASE UNCHANGED vars
  BY <1>7 DEF vars, main, tasks, world, ending, setting, checkpoint, files, TypeOK, MainTypeOK,
              OthersTypeOK, CheckpointTypeOK
<1> QED
  BY <1>1, <1>2, <1>3, <1>4, <1>5, <1>6, <1>7 DEF Next

(* Every variable of an evaluation keeps to its values in every state.     *)
THEOREM TypeCorrect == Spec => []TypeOK
<1> QED
  BY InitTyped, StepTyped, PTL DEF Spec

-----------------------------------------------------------------------------
(* Names of live tasks.                                                    *)

LEMMA Names ==
    /\ Stages = {"restore", "inject", "map"} /\ Captures = {"periodic", "final"}
    /\ Savers = {"periodic", "final", "leftover"}
BY DEF Stages, Captures, Savers

LEMMA LiveNames ==
    \A x : x \in Dependencies <=>
            \/ x \in Stages /\ StageLive(x)
            \/ x = "owner" /\ owner.at # "done"
            \/ x = "manifest" /\ manifest = "live"
            \/ x \in Savers /\ SaverLive(x)
BY Names DEF Dependencies, LiveStages, LiveOwner, LiveManifest, LiveLeftover, LiveSavers

LEMMA LiveNamesNext ==
    \A x : x \in Dependencies' <=>
            \/ x \in Stages /\ StageLive(x)'
            \/ x = "owner" /\ owner'.at # "done"
            \/ x = "manifest" /\ manifest' = "live"
            \/ x \in Savers /\ SaverLive(x)'
BY Names DEF Dependencies, LiveStages, LiveOwner, LiveManifest, LiveLeftover, LiveSavers

LEMMA SameTasks ==
    ASSUME UNCHANGED <<stage, owner, manifest, saver>>
    PROVE  /\ \A s \in Stages : StageLive(s)' <=> StageLive(s)
           /\ \A c \in Savers : SaverLive(c)' <=> SaverLive(c)
           /\ Dependencies' = Dependencies /\ LiveLeftover' = LiveLeftover
           /\ LiveStages' = LiveStages /\ LiveSavers' = LiveSavers
<1>1. /\ \A s \in Stages : StageLive(s)' <=> StageLive(s)
      /\ \A c \in Savers : SaverLive(c)' <=> SaverLive(c)
  BY DEF StageLive, SaverLive
<1>2. /\ LiveStages' = LiveStages /\ LiveSavers' = LiveSavers /\ LiveLeftover' = LiveLeftover
  BY <1>1, Names DEF LiveStages, LiveSavers, LiveLeftover
<1>3. LiveOwner' = LiveOwner /\ LiveManifest' = LiveManifest
  BY DEF LiveOwner, LiveManifest
<1> QED
  BY <1>1, <1>2, <1>3 DEF Dependencies

-----------------------------------------------------------------------------
(* The invariant holds initially, and again after a crash.                 *)

FreshStart ==
    /\ pc = "entered" /\ cancelled = FALSE /\ flaws = {} /\ has = {} /\ known = FALSE
    /\ owner = NewOwner /\ stage = NoStages /\ aborted = FALSE /\ tree = {} /\ strays = {}
    /\ manifest = "none" /\ late = NoCleanup /\ tracer = "open" /\ capture = {}
    /\ saver = NoSavers /\ asked = {} /\ env = "none"

LEMMA Fresh == FreshStart => Unspoilt
<1> SUFFICES ASSUME FreshStart PROVE Unspoilt
  OBVIOUS
<1>1. OwnerDelivers
  BY DEF OwnerDelivers, NewOwner, FreshStart
<1>2. \A c \in Savers : saver[c] = "none" /\ ~SaverLive(c)
  BY DEF SaverLive, NoSavers, FreshStart
<1>3. \A s \in Stages : stage[s] = "none" /\ ~StageLive(s)
  BY DEF StageLive, NoStages, FreshStart
<1>4. LiveStages = {} /\ LiveSavers = {}
  BY <1>2, <1>3, Names DEF LiveStages, LiveSavers
<1>5. Holding
  BY <1>2, <1>3, Names DEF Holding, Setup, Executing, HasCheckpoint, held, FreshStart
<1>6. InTurn /\ Savings
  BY <1>2, <1>3, Names DEF InTurn, Savings, FreshStart
<1>7. Releasing
  BY DEF Releasing, Released, Past, NoCleanup, FreshStart
<1>8. ResourcesOutliveUsers
  BY <1>4 DEF ResourcesOutliveUsers, FreshStart
<1>9. Harmless
  BY <1>2, <1>3, Names DEF Harmless, Setup, Closing, Past, FreshStart
<1> QED
  BY <1>1, <1>5, <1>6, <1>7, <1>8, <1>9 DEF Unspoilt, FreshStart

LEMMA InitUnspoilt == Init => Unspoilt
BY Fresh DEF Init, CheckpointInit, FreshStart

LEMMA FreshNext == FreshStart' => Unspoilt'
BY Fresh, PTL

LEMMA CrashUnspoilt == Crashes => Unspoilt'
BY FreshNext DEF Crashes, FreshStart

-----------------------------------------------------------------------------
(* The setup owner: while it lives the evaluation holds nothing.           *)

LEMMA FactoryKeeps ==
    ASSUME IInv, FactoryBuilds \/ FactoryFails \/ FactoryNudged \/ OwnerStep
    PROVE  Unspoilt'
<1>1. UNCHANGED <<main, expired, stage, asked, work, aborted, tree, strays, manifest, late,
                  tracer, capture, setting, checkpoint>>
  BY DEF FactoryBuilds, FactoryFails, FactoryNudged, OwnerStep, OwnerDisposes, OwnerTearsDown,
         OwnerOnly
<1>2. /\ UNCHANGED <<pc, flaws, cancelled, has, known, stage, asked, aborted, tree, strays,
                     manifest, late, tracer, capture, features, saver>>
      /\ held' = held /\ HasCheckpoint' = HasCheckpoint /\ Sound' = Sound
  BY <1>1 DEF main, setting, checkpoint, held, HasCheckpoint, Sound
<1>3. owner \in SetupOwner
  BY DEF IInv, TypeOK, OthersTypeOK
<1>4. owner.at # "done"
  BY DEF FactoryBuilds, FactoryFails, FactoryNudged, OwnerStep, OwnerDisposes, OwnerTearsDown
<1>5. ~held
  BY <1>4 DEF IInv, Unspoilt, Holding
<1>6. /\ \A s \in Stages : stage[s] = "none" /\ ~StageLive(s)
      /\ \A c \in Savers : ~SaverLive(c)
  BY <1>5 DEF IInv, Unspoilt, Holding, StageLive, SaverLive, NoSavers
<1>7. /\ \A s \in Stages : ~StageLive(s)'
      /\ \A c \in Savers : ~SaverLive(c)'
  BY <1>2, <1>6 DEF StageLive, SaverLive
<1>8. Dependencies' \subseteq Dependencies
  BY <1>2, <1>4, <1>6, <1>7, LiveNames, LiveNamesNext
<1>9. OwnerDelivers'
  BY <1>2, <1>3, <1>5 DEF IInv, Unspoilt, OwnerDelivers, SetupOwner, FactoryBuilds, FactoryFails,
     FactoryNudged, OwnerStep, OwnerDisposes, OwnerTearsDown
<1>10. Holding' /\ InTurn' /\ Savings'
  <2>1. Holding'
    BY <1>2, <1>5, <1>6, <1>7, Names DEF IInv, Unspoilt, Holding
  <2>2. InTurn' /\ Savings'
    BY <1>2, <1>7, Names DEF IInv, Unspoilt, InTurn, Savings
  <2> QED
    BY <2>1, <2>2
<1>11. Releasing'
  BY <1>2, <1>8 DEF IInv, Unspoilt, Releasing
<1>12. ResourcesOutliveUsers'
  <2>1. LiveStages' = {} /\ LiveSavers' = {} /\ LiveLeftover' = LiveLeftover
    BY <1>2, <1>6, <1>7, Names DEF LiveStages, LiveSavers, LiveLeftover
  <2> QED
    BY <1>2, <1>8, <2>1 DEF IInv, Unspoilt, ResourcesOutliveUsers
<1>13. ASSUME Sound' PROVE Harmless'
  <2>1. Harmless /\ pc \in Setup
    BY <1>2, <1>5, <1>13 DEF IInv, Unspoilt, Harmless
  <2> QED
    BY <2>1, <1>2, <1>7, Names DEF Harmless, Setup, Past
<1> QED
  BY <1>2, <1>9, <1>10, <1>11, <1>12, <1>13 DEF Unspoilt, IInv

-----------------------------------------------------------------------------
(* Up to the stages.                                                       *)

(* Leaving early is harmless: something speaks against the result then.    *)
LEMMA SettlesFlawed ==
    ASSUME IInv, UNCHANGED <<stage, aborted, manifest, late, tracer, features, saver, env>>,
           pc \in Setup \cup Executing, pc' = "settle",
           UNCHANGED has, "error" \in flaws',
           owner' \in {owner, Relinquished(owner), Abandoned(Relinquished(owner))}
    PROVE  Unspoilt'
<1>1. owner \in SetupOwner
  BY DEF IInv, TypeOK, OthersTypeOK
<1>2. owner'.at = owner.at
  BY <1>1, OwnerTyped
<1>3. owner.at = "factory" => owner'.delivery # "set"
  <2>1. owner.at = "factory" => owner.delivery # "set"
    BY DEF IInv, Unspoilt, OwnerDelivers
  <2>2. Relinquished(owner) \in SetupOwner /\ Relinquished(owner).delivery = owner.delivery
    BY <1>1, OwnerTyped
  <2>3. ASSUME NEW o \in SetupOwner, o.delivery # "set"
        PROVE  Abandoned(o).delivery # "set"
    BY <2>3 DEF Abandoned, SetupOwner
  <2> QED
    BY <2>1, <2>2, <2>3
<1>4. held' = held /\ HasCheckpoint' = HasCheckpoint
  BY DEF held, HasCheckpoint
<1>5. /\ \A s \in Stages : StageLive(s)' <=> StageLive(s)
      /\ \A c \in Savers : SaverLive(c)' <=> SaverLive(c)
  BY DEF StageLive, SaverLive
<1>6. Dependencies' = Dependencies
  BY <1>2, <1>5, LiveNames, LiveNamesNext
<1>7. OwnerDelivers'
  BY <1>2, <1>3 DEF IInv, Unspoilt, OwnerDelivers, Setup
<1>8. Holding'
  BY <1>2, <1>4, <1>5, Names DEF IInv, Unspoilt, Holding, Executing, Setup, Past
<1>9. InTurn' /\ Savings'
  BY <1>5, Names DEF IInv, Unspoilt, InTurn, Savings, Setup, Executing
<1>10. Releasing'
  BY <1>4 DEF IInv, Unspoilt, Releasing, Released, Past, Setup, Executing
<1>11. ResourcesOutliveUsers'
  BY <1>5, <1>6, Names DEF IInv, Unspoilt, ResourcesOutliveUsers, LiveStages, LiveSavers, LiveLeftover
<1> QED
  BY <1>7, <1>8, <1>9, <1>10, <1>11 DEF Unspoilt, Sound

LEMMA AcquireKeeps ==
    ASSUME IInv, Enters \/ Acquires \/ AcquireEnds \/ Prepares
    PROVE  Unspoilt'
<1>1. UNCHANGED <<expired, round, cancelled, known, record, observed, stage, asked, world, ending,
                  setting, checkpoint>>
  BY DEF Enters, Acquires, AcquireEnds, Prepares, AcquireOnly
<1>2. UNCHANGED <<cancelled, known, stage, asked, env, aborted, tree, strays, manifest, late,
                  tracer, capture, features, saver>>
  BY <1>1 DEF world, ending, setting, checkpoint
<1>3. owner \in SetupOwner
  BY DEF IInv, TypeOK, OthersTypeOK
<1>4. CASE pc' = "settle"
  <2>1. /\ pc \in Setup \cup Executing /\ UNCHANGED has /\ "error" \in flaws'
        /\ owner' \in {owner, Relinquished(owner), Abandoned(Relinquished(owner))}
    BY <1>4 DEF Enters, Acquires, AcquireEnds, Prepares, Flawed, Setup, Executing
  <2> QED
    BY <1>2, <1>4, <2>1, SettlesFlawed
<1>5. /\ \A s \in Stages : StageLive(s)' <=> StageLive(s)
      /\ \A c \in Savers : SaverLive(c)' <=> SaverLive(c)
  BY <1>2 DEF StageLive, SaverLive
<1>6. CASE Enters /\ pc' # "settle"
  <2>1. pc = "entered" /\ pc' = "acquire" /\ UNCHANGED <<flaws, owner, has>>
    BY <1>6 DEF Enters
  <2>2. Dependencies' = Dependencies
    BY <1>2, <1>5, <2>1, LiveNames, LiveNamesNext
  <2>3. OwnerDelivers' /\ Holding' /\ InTurn' /\ Savings'
    BY <1>2, <1>5, <2>1, Names DEF IInv, Unspoilt, OwnerDelivers, Holding, InTurn, Savings, Setup,
       Executing, Past, held, HasCheckpoint
  <2>4. Releasing'
    BY <1>2, <2>1, <2>2 DEF IInv, Unspoilt, Releasing, Released, Past, held
  <2>5. ResourcesOutliveUsers'
    BY <1>2, <1>5, <2>2, Names DEF IInv, Unspoilt, ResourcesOutliveUsers, LiveStages, LiveSavers, LiveLeftover
  <2>6. Sound' => Harmless'
    BY <1>2, <1>5, <2>1, Names DEF IInv, Unspoilt, Sound, Harmless, Setup, Executing, Closing, Past, held
  <2> QED
    BY <1>2, <2>1, <2>3, <2>4, <2>5, <2>6 DEF IInv, Unspoilt
<1>7. CASE Acquires
  <2>1. /\ pc = "acquire" /\ pc' = "to_prepare" /\ has = {} /\ has' = {"env"} /\ UNCHANGED flaws
        /\ owner.at = "deciding" /\ owner'.at = "done" /\ env = "up"
    BY <1>3, <1>7 DEF Acquires, SetupOwner, IInv, Unspoilt, OwnerDelivers, Setup
  <2>2. held' /\ ~held /\ ~HasCheckpoint'
    BY <2>1 DEF held, HasCheckpoint
  <2>3. /\ \A s \in Stages : stage[s] = "none" /\ ~StageLive(s)
        /\ \A c \in Savers : saver[c] = "none" /\ ~SaverLive(c)
    BY <2>2 DEF IInv, Unspoilt, Holding, StageLive, SaverLive, NoSavers
  <2>4. OwnerDelivers' /\ Holding'
    BY <1>2, <1>5, <2>1, <2>2, <2>3, Names DEF OwnerDelivers, Holding, Setup, Executing
  <2>5. InTurn' /\ Savings'
    BY <1>2, <2>3, Names DEF InTurn, Savings
  <2>6. Releasing'
    BY <1>2, <2>1, <2>2 DEF IInv, Unspoilt, Releasing, Released, Past
  <2>7. ResourcesOutliveUsers'
    BY <1>2, <2>1 DEF IInv, Unspoilt, Releasing, Released, Past, ResourcesOutliveUsers
  <2>8. Sound' => Harmless'
    BY <1>2, <1>5, <2>1, <2>2, <2>3, Names
       DEF IInv, Unspoilt, Sound, Harmless, Setup, Executing, Closing, Past
  <2> QED
    BY <1>2, <2>1, <2>4, <2>5, <2>6, <2>7, <2>8 DEF IInv, Unspoilt
<1>8. CASE Prepares /\ pc' # "settle"
  <2>1. /\ pc = "to_prepare" /\ pc' = "to_restore" /\ UNCHANGED <<flaws, owner>>
        /\ has' = has \cup ({"checkpoint"} \cap features)
    BY <1>8 DEF Prepares
  <2>2. held /\ held' /\ (HasCheckpoint => HasCheckpoint')
        /\ ("checkpoint" \in features => HasCheckpoint')
    BY <2>1 DEF IInv, Unspoilt, Holding, Executing, held, HasCheckpoint
  <2>3. Dependencies' = Dependencies
    BY <1>2, <1>5, <2>1, LiveNames, LiveNamesNext
  <2>4. OwnerDelivers' /\ Holding'
    BY <1>2, <1>5, <2>1, <2>2, Names DEF IInv, Unspoilt, OwnerDelivers, Holding, Setup, Executing, Past
  <2>5. InTurn' /\ Savings'
    BY <1>2, <1>5, <2>1, Names DEF IInv, Unspoilt, InTurn, Savings, Setup, Executing
  <2>6. Releasing'
    BY <1>2, <2>1, <2>2 DEF IInv, Unspoilt, Releasing, Released, Past
  <2>7. ResourcesOutliveUsers'
    BY <1>2, <1>5, <2>3, Names DEF IInv, Unspoilt, ResourcesOutliveUsers, LiveStages, LiveSavers, LiveLeftover
  <2>8. Sound' => Harmless'
    BY <1>2, <1>5, <2>1, <2>2, Names
       DEF IInv, Unspoilt, Sound, Harmless, Setup, Executing, Closing, Past
  <2> QED
    BY <1>2, <2>1, <2>4, <2>5, <2>6, <2>7, <2>8 DEF IInv, Unspoilt
<1> QED
  BY <1>4, <1>6, <1>7, <1>8 DEF AcquireEnds

-----------------------------------------------------------------------------
(* The stages, as the main coroutine sees them.                            *)

(* Going on changes nothing but the place.                                 *)
LEMMA GoesOn ==
    ASSUME IInv, UNCHANGED <<stage, owner, env, aborted, manifest, late, tracer, features, has, saver>>,
           pc \in Executing \ {"to_prepare"}, pc' \in (Executing \ {"to_prepare"}) \cup {"settle"}
    PROVE  OwnerDelivers' /\ Holding' /\ Savings' /\ Releasing' /\ ResourcesOutliveUsers'
<1>1. /\ \A s \in Stages : StageLive(s)' <=> StageLive(s)
      /\ \A c \in Savers : SaverLive(c)' <=> SaverLive(c)
      /\ Dependencies' = Dependencies /\ LiveLeftover' = LiveLeftover
      /\ LiveStages' = LiveStages /\ LiveSavers' = LiveSavers
  BY SameTasks
<1>2. held /\ held' /\ HasCheckpoint' = HasCheckpoint
  BY DEF IInv, Unspoilt, Holding, held, HasCheckpoint
<1>3. OwnerDelivers' /\ Savings'
  BY <1>1, Names DEF IInv, Unspoilt, OwnerDelivers, Savings, Setup, Executing
<1>4. Holding'
  BY <1>1, <1>2, Names DEF IInv, Unspoilt, Holding, Executing, Past
<1>5. Releasing'
  BY <1>2 DEF IInv, Unspoilt, Releasing, Released, Past, Executing
<1> QED
  BY <1>1, <1>3, <1>4, <1>5 DEF IInv, Unspoilt, ResourcesOutliveUsers

LEMMA SkipsKeeps ==
    ASSUME IInv, NEW s \in Stages, SkipsStage(s)
    PROVE  Unspoilt'
<1>1. /\ UNCHANGED <<flaws, cancelled, known, stage, asked, owner, env, aborted, tree, strays, manifest,
                     late, tracer, capture, features, has, saver>>
      /\ pc = To[s] /\ pc' = Following[s]
  BY DEF SkipsStage, StageOnly, world, ending, setting, checkpoint
<1>2. /\ pc \in {"to_restore", "to_inject", "to_map"}
      /\ pc = "to_restore" => pc' = "to_inject"
      /\ pc = "to_inject" => pc' = "to_map"
      /\ pc = "to_map" => pc' = "to_session"
  BY <1>1, Places
<1>3. OwnerDelivers' /\ Holding' /\ Savings' /\ Releasing' /\ ResourcesOutliveUsers'
  BY <1>1, <1>2, GoesOn DEF Executing
<1>4. InTurn'
  BY <1>1, <1>2 DEF IInv, Unspoilt, InTurn, Setup
<1>5. Sound' => Harmless'
  <2>1. /\ \A t \in Stages : StageLive(t)' <=> StageLive(t)
        /\ held' = held
    BY <1>1, SameTasks DEF held
  <2> QED
    BY <1>1, <1>2, <2>1, Names DEF IInv, Unspoilt, Sound, Harmless, Setup, Executing, Closing, Past
<1> QED
  BY <1>1, <1>3, <1>4, <1>5 DEF IInv, Unspoilt

LEMMA ReturnsKeeps ==
    ASSUME IInv, NEW s \in Stages, StageReturns(s)
    PROVE  Unspoilt'
<1>1. /\ UNCHANGED <<cancelled, stage, asked, owner, env, aborted, tree, strays, manifest,
                     late, tracer, capture, features, has, saver>>
      /\ pc = s /\ ~StageLive(s)
      /\ flaws' = flaws \cup StageFlaws(s)
      /\ known' = (known \/ (s = "inject" /\ stage[s] \in {"ok", "isolation"}))
      /\ pc' = IF StageFlaws(s) = {} THEN Following[s] ELSE "settle"
  BY DEF StageReturns, StageOnly, Flawed, world, ending, setting, checkpoint
<1>2. pc \in Executing \ {"to_prepare"}
  BY <1>1, Names DEF Executing
<1>3. CASE StageFlaws(s) # {}
  <2>1. "error" \in StageFlaws(s)
    BY <1>3 DEF StageFlaws
  <2> QED
    BY <1>1, <1>2, <1>3, <2>1, SettlesFlawed
<1>4. CASE StageFlaws(s) = {}
  <2>1. UNCHANGED flaws /\ pc' = Following[s]
    BY <1>1, <1>4
  <2>2. stage[s] \notin {"unproven", "isolation", "failed"}
    BY <1>4 DEF StageFlaws
  <2>3. /\ pc = "restore" => pc' = "to_inject"
        /\ pc = "inject" => pc' = "to_map"
        /\ pc = "map" => pc' = "to_session"
        /\ pc \in {"restore", "inject", "map"}
    BY <1>1, <2>1, Places
  <2>4. OwnerDelivers' /\ Holding' /\ Savings' /\ Releasing' /\ ResourcesOutliveUsers'
    BY <1>1, <1>2, <2>3, GoesOn DEF Executing
  <2>5. InTurn'
    BY <1>1, <2>3 DEF IInv, Unspoilt, InTurn, Setup
  <2>6. ASSUME Sound' PROVE Harmless'
    <3>1. /\ \A t \in Stages : StageLive(t)' <=> StageLive(t)
          /\ held' = held
      BY <1>1, SameTasks DEF held
    <3>2. Harmless
      BY <2>1, <2>6 DEF IInv, Unspoilt, Sound
    <3>3. /\ \A t \in Stages : ~StageLive(t)'
          /\ "partial" \notin tree' /\ strays' = {} /\ ("tests" \in tree' => known')
      BY <1>1, <2>2, <3>1, <3>2, Names DEF Harmless
    <3> QED
      BY <1>1, <2>3, <3>1, <3>2, <3>3 DEF Harmless, Setup, Executing, Closing, Past
  <2> QED
    BY <1>1, <2>1, <2>4, <2>5, <2>6 DEF IInv, Unspoilt
<1> QED
  BY <1>3, <1>4

LEMMA TimesOutKeeps ==
    ASSUME IInv, NEW s \in Stages, StageTimesOut(s)
    PROVE  Unspoilt'
BY SettlesFlawed, Names
   DEF StageTimesOut, StageOnly, Flawed, world, ending, setting, checkpoint, Executing

LEMMA EntersKeeps ==
    ASSUME IInv, NEW s \in Stages, EntersStage(s)
    PROVE  Unspoilt'
<1>1. /\ UNCHANGED <<cancelled, known, asked, owner, env, aborted, tree, strays, manifest,
                     late, tracer, capture, features, has, saver>>
      /\ stage' = [stage EXCEPT ![s] = IF expired THEN "cancelled" ELSE "running"]
      /\ pc = To[s] /\ (IF expired THEN pc' = "settle" ELSE pc' = s)
      /\ (IF expired THEN "error" \in flaws' ELSE UNCHANGED flaws)
  BY DEF EntersStage, StageOnly, Flawed, world, ending, setting, checkpoint
<1>2. stage \in [Stages -> {"none", "running", "applying", "ok", "nothing", "failed",
                          "unproven", "isolation", "cancelled"}]
  BY DEF IInv, TypeOK, OthersTypeOK
<1>3. /\ s = "restore" => pc = "to_restore"
      /\ s = "inject" => pc = "to_inject"
      /\ s = "map" => pc = "to_map"
  BY <1>1, Places
<1>4. pc \in Executing \ {"to_prepare"} /\ pc' \in (Executing \ {"to_prepare"}) \cup {"settle"}
  BY <1>1, <1>3, Names DEF Executing
<1>5. held /\ held' /\ HasCheckpoint' = HasCheckpoint /\ env \in {"up", "revoked"}
  BY <1>1, <1>4 DEF IInv, Unspoilt, Holding, held, HasCheckpoint, Executing, Past
<1>6. \A t \in Stages \ {s} : stage'[t] = stage[t] /\ (StageLive(t)' <=> StageLive(t))
  BY <1>1, <1>2 DEF StageLive
<1>7. \A c \in Savers : SaverLive(c)' <=> SaverLive(c)
  BY <1>1 DEF SaverLive
<1>8. OwnerDelivers' /\ Savings'
  BY <1>1, <1>4, <1>7, Names DEF IInv, Unspoilt, OwnerDelivers, Savings, Setup, Executing
<1>9. Holding'
  BY <1>1, <1>4, <1>5, <1>7, Names DEF IInv, Unspoilt, Holding, Executing, Past
<1>10. InTurn'
  BY <1>1, <1>3, <1>6, Names DEF IInv, Unspoilt, InTurn, Setup
<1>11. Releasing'
  BY <1>1, <1>4, <1>5 DEF IInv, Unspoilt, Releasing, Released, Past, Executing
<1>12. ResourcesOutliveUsers'
  BY <1>1, <1>4, <1>5 DEF IInv, Unspoilt, Releasing, Released, Past, Executing, ResourcesOutliveUsers
<1>13. ASSUME Sound' PROVE Harmless'
  <2>1. ~expired /\ pc' = s /\ UNCHANGED flaws
    BY <1>1, <1>13 DEF Sound
  <2>2. Harmless
    BY <2>1, <1>13 DEF IInv, Unspoilt, Sound
  <2>3. \A t \in Stages : StageLive(t)' => t = s
    BY <1>3, <1>6, <2>2, Names DEF Harmless
  <2>4. "partial" \notin tree /\ strays = {} /\ ("tests" \in tree => known)
    BY <1>3, <2>2, Names DEF Harmless
  <2>5. pc' \in {"restore", "inject", "map"} /\ asked' = {} /\ capture' = {}
    BY <1>1, <1>4, <2>1, <2>2, Names DEF Harmless
  <2> QED
    BY <1>5, <2>1, <2>3, <2>4, <2>5, <1>1 DEF Harmless, Setup, Executing, Closing, Past
<1> QED
  BY <1>1, <1>8, <1>9, <1>10, <1>11, <1>12, <1>13 DEF IInv, Unspoilt, Sound

LEMMA StartsKeeps ==
    ASSUME IInv, StartsCheckpoint
    PROVE  Unspoilt'
<1>1. /\ UNCHANGED <<cancelled, known, stage, asked, owner, env, aborted, tree, strays, manifest,
                     late, tracer, capture, features, has>>
      /\ pc = "to_map" /\ "checkpoint" \in features /\ saver["periodic"] = "none"
  BY DEF StartsCheckpoint, StageOnly, world, ending, setting
<1>2. CASE expired
  BY <1>1, <1>2, SettlesFlawed DEF StartsCheckpoint, Flawed, checkpoint, Executing
<1>3. CASE ~expired
  <2>1. UNCHANGED <<pc, flaws>> /\ saver' = [saver EXCEPT !["periodic"] = "idle"]
    BY <1>3 DEF StartsCheckpoint, StartSaving
  <2>2. saver \in [Savers -> {"none", "idle", "waits", "reading", "lingers",
                            "done", "failed", "cancelled"}]
    BY DEF IInv, TypeOK, CheckpointTypeOK
  <2>3. saver'["final"] = saver["final"] /\ (SaverLive("final")' <=> SaverLive("final"))
    BY <2>1, <2>2, Names DEF SaverLive
  <2>4. held /\ held' /\ HasCheckpoint /\ HasCheckpoint' /\ env \in {"up", "revoked"}
    BY <1>1 DEF IInv, Unspoilt, Holding, held, HasCheckpoint, Executing, Past
  <2>5. saver["final"] = "none"
    BY <1>1 DEF IInv, Unspoilt, Savings, Executing
  <2>6. OwnerDelivers' /\ InTurn'
    BY <1>1, <2>1 DEF IInv, Unspoilt, OwnerDelivers, InTurn
  <2>7. Savings'
    BY <2>3, <2>5 DEF Savings
  <2>8. Holding'
    BY <1>1, <2>1, <2>4 DEF IInv, Unspoilt, Holding
  <2>9. Releasing'
    BY <1>1, <2>1, <2>4 DEF IInv, Unspoilt, Releasing, Released, Past
  <2>10. ResourcesOutliveUsers'
    BY <1>1, <2>1, <2>4 DEF IInv, Unspoilt, Releasing, Released, Past, ResourcesOutliveUsers
  <2>11. Sound' => Harmless'
    <3>1. \A t \in Stages : StageLive(t)' <=> StageLive(t)
      BY <1>1 DEF StageLive
    <3> QED
      BY <1>1, <2>1, <2>4, <3>1, Names DEF IInv, Unspoilt, Sound, Harmless, Setup, Executing, Closing, Past
  <2> QED
    BY <1>1, <2>1, <2>6, <2>7, <2>8, <2>9, <2>10, <2>11 DEF IInv, Unspoilt
<1> QED
  BY <1>2, <1>3

-----------------------------------------------------------------------------
(* The stage tasks: one that lives has the environment.                    *)

StageFrame == UNCHANGED <<pc, flaws, cancelled, has, known, asked, owner, aborted, manifest, late,
                          tracer, capture, features>>

LEMMA LiveStage ==
    ASSUME IInv, NEW s \in Stages, StageLive(s)
    PROVE  /\ held /\ owner.at = "done" /\ pc \notin Setup
           /\ stage[s] \in {"running", "applying"}
           /\ tracer = "open" /\ (env = "gone" => aborted)
           /\ Sound => Harmless /\ pc = s /\ asked = {}
<1>1. stage[s] \in {"running", "applying"} /\ held /\ owner.at = "done"
  BY DEF StageLive, IInv, Unspoilt, Holding
<1>2. pc \notin Setup
  BY <1>1, Names DEF IInv, Unspoilt, InTurn
<1>3. s \in Dependencies /\ s \notin LiveLeftover
  BY LiveNames, Names DEF LiveLeftover
<1>4. tracer = "open"
  BY <1>3 DEF IInv, TypeOK, OthersTypeOK, Unspoilt, ResourcesOutliveUsers
<1>5. env = "gone" => aborted
  BY DEF IInv, Unspoilt, ResourcesOutliveUsers, LiveStages
<1>6. ASSUME Sound PROVE Harmless /\ pc = s /\ asked = {}
  <2>1. Harmless
    BY <1>6 DEF IInv, Unspoilt
  <2>2. pc = s
    BY <2>1 DEF Harmless
  <2> QED
    BY <2>1, <2>2, Names DEF Harmless, Executing
<1> QED
  BY <1>1, <1>2, <1>4, <1>5, <1>6

(* Whatever it does last, it may revoke the environment and leave a        *)
(* command behind.                                                         *)
LEMMA StageKeeps ==
    ASSUME IInv, NEW s \in Stages, StageLive(s), StageFrame,
           NEW where, stage' = [stage EXCEPT ![s] = where],
           env' = env \/ env' = "revoked", env = "up" \/ env' = env,
           saver' \in {saver, Lingering}
    PROVE  /\ OwnerDelivers' /\ Holding' /\ InTurn' /\ Savings' /\ Releasing'
           /\ ResourcesOutliveUsers' /\ (cancelled' => "error" \in flaws')
           /\ \A t \in Stages : StageLive(t)' => StageLive(t) \/ t = s
           /\ \A c \in Captures : SaverLive(c)' <=> SaverLive(c)
<1>1. /\ held /\ owner.at = "done" /\ pc \notin Setup /\ tracer = "open"
      /\ stage[s] \in {"running", "applying"} /\ (env = "gone" => aborted)
  BY LiveStage
<1>2. held' /\ HasCheckpoint' = HasCheckpoint
  BY <1>1 DEF StageFrame, held, HasCheckpoint
<1>3. stage \in [Stages -> {"none", "running", "applying", "ok", "nothing", "failed",
                          "unproven", "isolation", "cancelled"}]
      /\ saver \in [Savers -> {"none", "idle", "waits", "reading", "lingers",
                             "done", "failed", "cancelled"}]
  BY DEF IInv, TypeOK, OthersTypeOK, CheckpointTypeOK
<1>4. \A t \in Stages \ {s} : stage'[t] = stage[t] /\ (StageLive(t)' <=> StageLive(t))
  BY <1>3 DEF StageLive
<1>5. \A c \in Captures : saver'[c] = saver[c] /\ (SaverLive(c)' <=> SaverLive(c))
  BY <1>3, Names DEF SaverLive, Lingering
<1>6. Dependencies' \subseteq Dependencies \cup {"leftover"}
  <2>1. /\ \A t \in Stages : StageLive(t)' => StageLive(t)
        /\ \A c \in Savers : SaverLive(c)' => SaverLive(c) \/ c = "leftover"
    BY <1>4, <1>5, Names
  <2>2. owner' = owner /\ manifest' = manifest
    BY DEF StageFrame
  <2> QED
    BY <2>1, <2>2, LiveNames, LiveNamesNext
<1>7. OwnerDelivers'
  BY <1>1 DEF StageFrame, OwnerDelivers
<1>8. Holding'
  <2>1. Holding
    BY DEF IInv, Unspoilt
  <2> QED
    BY <1>1, <1>2, <1>5, <2>1, Names DEF StageFrame, Holding
<1>9. InTurn'
  <2>1. InTurn
    BY DEF IInv, Unspoilt
  <2> QED
    BY <1>1, <1>4, <2>1, Names DEF StageFrame, InTurn
<1>10. Savings'
  BY <1>5, Names DEF StageFrame, IInv, Unspoilt, Savings
<1>11. Releasing'
  BY <1>1, <1>2, <1>6 DEF StageFrame, IInv, Unspoilt, Releasing
<1>12. ResourcesOutliveUsers'
  BY <1>1 DEF StageFrame, ResourcesOutliveUsers
<1>13. cancelled' => "error" \in flaws'
  BY DEF StageFrame, IInv, Unspoilt
<1> QED
  BY <1>4, <1>5, <1>7, <1>8, <1>9, <1>10, <1>11, <1>12, <1>13

(* It is harmless if it leaves nothing that its end does not tell.         *)
LEMMA StageHarmless ==
    ASSUME IInv, NEW s \in Stages, StageLive(s), StageFrame,
           NEW where, stage' = [stage EXCEPT ![s] = where],
           saver' \in {saver, Lingering}, Sound,
           "partial" \in tree' \ tree => s = "restore" /\ where = "unproven",
           strays' \ strays # {} => s = "inject" /\ where = "isolation",
           "tests" \in tree' \ tree => s = "inject" /\ where \in {"ok", "isolation"}
    PROVE  Harmless'
<1>1. held /\ Harmless /\ pc = s /\ asked = {} /\ stage[s] \in {"running", "applying"}
  BY LiveStage
<1>2. stage \in [Stages -> {"none", "running", "applying", "ok", "nothing", "failed",
                          "unproven", "isolation", "cancelled"}]
      /\ saver \in [Savers -> {"none", "idle", "waits", "reading", "lingers",
                             "done", "failed", "cancelled"}]
  BY DEF IInv, TypeOK, OthersTypeOK, CheckpointTypeOK
<1>3. /\ stage'[s] = where
      /\ \A t \in Stages \ {s} : stage'[t] = stage[t] /\ (StageLive(t)' <=> StageLive(t))
  BY <1>2 DEF StageLive
<1>4. pc' \in {"restore", "inject", "map"} /\ pc' = s /\ asked' = {} /\ held' /\ capture' = {}
  BY <1>1, Names DEF StageFrame, held, Harmless
<1>5. \A t \in Stages : StageLive(t)' => t = s
  BY <1>1, <1>3 DEF Harmless
<1>6. /\ "partial" \notin tree /\ strays = {} /\ ("tests" \in tree => known)
  BY <1>1 DEF Harmless
<1>7. known' = known
  BY DEF StageFrame
<1> QED
  BY <1>3, <1>4, <1>5, <1>6, <1>7 DEF Harmless, Setup, Executing, Closing, Past

LEMMA StageEndsKeeps ==
    ASSUME IInv, NEW s \in Stages, StageEndsEarly(s) \/ StageApplies(s)
    PROVE  Unspoilt'
<1>1. StageLive(s)
  BY DEF StageEndsEarly, StageApplies, StageLive
<1>2. StageFrame /\ UNCHANGED <<env, tree, strays, saver>>
  BY DEF StageEndsEarly, StageApplies, TaskOnly, StageFrame, main, ending, setting, checkpoint
<1>3. PICK where : stage' = [stage EXCEPT ![s] = where]
  BY DEF StageEndsEarly, StageApplies, StageBecomes
<1>4. /\ OwnerDelivers' /\ Holding' /\ InTurn' /\ Savings' /\ Releasing'
      /\ ResourcesOutliveUsers' /\ (cancelled' => "error" \in flaws')
  BY <1>1, <1>2, <1>3, StageKeeps
<1>5. Sound => Harmless'
  BY <1>1, <1>2, <1>3, StageHarmless
<1> QED
  BY <1>2, <1>4, <1>5 DEF Unspoilt, Sound, StageFrame

LEMMA RestoreKeeps ==
    ASSUME IInv, RestoreEnds
    PROVE  Unspoilt'
<1>1. "restore" \in Stages /\ StageLive("restore")
  BY Names DEF RestoreEnds, StageLive
<1>2. StageFrame /\ UNCHANGED strays
  BY DEF RestoreEnds, StageFrame, main, ending, setting
<1>3. saver' \in {saver, Lingering} /\ (env' = env \/ (env = "up" /\ env' = "revoked"))
  BY DEF RestoreEnds
<1>4. PICK where : /\ stage' = [stage EXCEPT !["restore"] = where]
                   /\ "restore" \notin asked =>
                         tree' = tree \/ (tree' = tree \cup {"partial"} /\ where = "unproven")
  <2>1. CASE UNCHANGED tree
    BY <2>1 DEF RestoreEnds, StageBecomes
  <2>2. CASE ~UNCHANGED tree
    <3>1. PICK dirt \in SUBSET {"partial"}, proof \in BOOLEAN :
             /\ proof => dirt = {}
             /\ tree' = tree \cup dirt
             /\ StageBecomes("restore", IF "restore" \in asked THEN "cancelled"
                                        ELSE IF proof THEN "ok" ELSE "unproven")
      BY <2>2 DEF RestoreEnds
    <3>2. dirt = {"partial"} /\ ~proof
      BY <2>2, <3>1
    <3> QED
      BY <3>1, <3>2 DEF StageBecomes
  <2> QED
    BY <2>1, <2>2
<1>5. /\ OwnerDelivers' /\ Holding' /\ InTurn' /\ Savings' /\ Releasing'
      /\ ResourcesOutliveUsers' /\ (cancelled' => "error" \in flaws')
  BY <1>1, <1>2, <1>3, <1>4, StageKeeps
<1>6. ASSUME Sound PROVE Harmless'
  <2>1. asked = {}
    BY <1>1, <1>6, LiveStage
  <2>2. "partial" \in tree' \ tree => where = "unproven"
    BY <1>4, <2>1
  <2>3. "tests" \notin tree' \ tree
    BY <1>4, <2>1
  <2> QED
    BY <1>1, <1>2, <1>3, <1>4, <1>6, <2>2, <2>3, StageHarmless
<1> QED
  BY <1>2, <1>5, <1>6 DEF Unspoilt, Sound, StageFrame

LEMMA InjectionKeeps ==
    ASSUME IInv, InjectionEnds
    PROVE  Unspoilt'
<1>1. "inject" \in Stages /\ StageLive("inject")
  BY Names DEF InjectionEnds, StageLive
<1>2. StageFrame /\ UNCHANGED saver
  BY DEF InjectionEnds, TaskOnly, StageFrame, main, ending, setting, checkpoint
<1>3. env' = env \/ (env = "up" /\ env' = "revoked")
  BY DEF InjectionEnds, Usable
<1>4. PICK where : /\ stage' = [stage EXCEPT !["inject"] = where]
                   /\ tree' = tree \/ (tree' = tree \cup {"tests"} /\ where \in {"ok", "isolation"})
                   /\ strays' = strays \/ where = "isolation"
  BY DEF InjectionEnds, StageBecomes
<1>5. /\ OwnerDelivers' /\ Holding' /\ InTurn' /\ Savings' /\ Releasing'
      /\ ResourcesOutliveUsers' /\ (cancelled' => "error" \in flaws')
  BY <1>1, <1>2, <1>3, <1>4, StageKeeps
<1>6. ASSUME Sound PROVE Harmless'
  <2>1. "partial" \notin tree' \ tree
    BY <1>4
  <2>2. /\ "tests" \in tree' \ tree => where \in {"ok", "isolation"}
        /\ strays' \ strays # {} => where = "isolation"
    BY <1>4
  <2> QED
    BY <1>1, <1>2, <1>4, <1>6, <2>1, <2>2, StageHarmless
<1> QED
  BY <1>2, <1>5, <1>6 DEF Unspoilt, Sound, StageFrame

-----------------------------------------------------------------------------
(* The session, and time.                                                  *)

LEMMA IdleKeeps ==
    ASSUME IInv, UNCHANGED <<pc, flaws, cancelled, has, known, asked, owner, stage, env, aborted, tree,
                             strays, manifest, late, tracer, capture, features, saver>>
    PROVE  Unspoilt'
<1>1. /\ \A s \in Stages : StageLive(s)' <=> StageLive(s)
      /\ \A c \in Savers : SaverLive(c)' <=> SaverLive(c)
      /\ Dependencies' = Dependencies /\ LiveLeftover' = LiveLeftover
      /\ LiveStages' = LiveStages /\ LiveSavers' = LiveSavers
  BY SameTasks
<1>2. held' = held /\ HasCheckpoint' = HasCheckpoint /\ Sound' = Sound
  BY DEF held, HasCheckpoint, Sound
<1>3. OwnerDelivers' /\ InTurn' /\ Savings'
  BY <1>1, Names DEF IInv, Unspoilt, OwnerDelivers, InTurn, Savings
<1>4. Holding'
  BY <1>1, <1>2, Names DEF IInv, Unspoilt, Holding
<1>5. Releasing' /\ ResourcesOutliveUsers'
  BY <1>1, <1>2 DEF IInv, Unspoilt, Releasing, ResourcesOutliveUsers
<1>6. Harmless => Harmless'
  BY <1>1, <1>2, Names DEF Harmless
<1> QED
  BY <1>2, <1>3, <1>4, <1>5, <1>6 DEF IInv, Unspoilt

LEMMA SessionKeeps ==
    ASSUME IInv, EntersSession \/ SessionWorks \/ SessionEnds
    PROVE  Unspoilt'
<1>1. /\ UNCHANGED <<cancelled, known, stage, asked, owner, env, aborted, tree, manifest, late, tracer,
                     capture, features, has, saver>>
      /\ pc \in {"to_session", "session"}
  BY DEF EntersSession, SessionWorks, SessionEnds, SessionOnly, tasks, ending, setting, checkpoint
<1>2. CASE SessionWorks
  BY <1>1, <1>2, IdleKeeps DEF SessionWorks
<1>3. CASE ~SessionWorks
  <2>1. /\ pc' \in {"session", "settle"} /\ flaws \subseteq flaws'
        /\ strays' = strays \/ "error" \in flaws'
    BY <1>3 DEF EntersSession, SessionEnds, Flawed
  <2>2. OwnerDelivers' /\ Holding' /\ Savings' /\ Releasing' /\ ResourcesOutliveUsers'
    BY <1>1, <2>1, GoesOn DEF Executing
  <2>3. InTurn'
    BY <2>1 DEF InTurn, Setup
  <2>4. ASSUME Sound' PROVE Harmless'
    <3>1. Sound /\ strays' = strays
      BY <2>1, <2>4 DEF Sound
    <3>2. Harmless
      BY <3>1 DEF IInv, Unspoilt
    <3>3. \A t \in Stages : ~StageLive(t)'
      BY <1>1, <3>2, Names, SameTasks DEF Harmless
    <3>4. held' /\ asked' = {} /\ capture' = {} /\ strays' = {} /\ "partial" \notin tree'
      BY <1>1, <3>1, <3>2 DEF Harmless, Executing, held, Setup
    <3>5. "tests" \in tree' => known'
      BY <1>1, <3>2 DEF Harmless
    <3> QED
      BY <2>1, <3>3, <3>4, <3>5 DEF Harmless, Setup, Executing, Closing, Past
  <2> QED
    BY <1>1, <2>1, <2>2, <2>3, <2>4 DEF IInv, Unspoilt
<1> QED
  BY <1>2, <1>3

LEMMA TimeKeeps ==
    ASSUME IInv, DeadlinePasses \/ CancelsRun \/ CancelsTeardown
    PROVE  Unspoilt'
<1>1. CASE DeadlinePasses
  BY <1>1, IdleKeeps DEF DeadlinePasses, main, tasks, world, ending, setting, checkpoint
<1>2. CASE CancelsRun
  <2>1. /\ UNCHANGED <<stage, aborted, manifest, late, tracer, features, saver, env, has>>
        /\ pc' = "settle" /\ "error" \in flaws'
        /\ owner' \in {owner, Abandoned(Relinquished(owner))}
    BY <1>2 DEF CancelsRun, world, ending, setting, checkpoint, Flawed
  <2>2. pc \in Setup \cup Executing
    BY <1>2, Names DEF CancelsRun, Setup, Executing
  <2> QED
    BY <2>1, <2>2, SettlesFlawed
<1>3. CASE CancelsTeardown
  <2>1. /\ UNCHANGED <<pc, has, known, asked, owner, stage, env, aborted, tree, strays, manifest, late,
                       tracer, capture, features, saver>>
        /\ "error" \in flaws'
    BY <1>3 DEF CancelsTeardown, tasks, world, ending, setting, checkpoint, Flawed
  <2>2. /\ \A s \in Stages : StageLive(s)' <=> StageLive(s)
        /\ \A c \in Savers : SaverLive(c)' <=> SaverLive(c)
        /\ Dependencies' = Dependencies /\ LiveLeftover' = LiveLeftover
        /\ LiveStages' = LiveStages /\ LiveSavers' = LiveSavers
    BY <2>1, SameTasks
  <2>3. held' = held /\ HasCheckpoint' = HasCheckpoint
    BY <2>1 DEF held, HasCheckpoint
  <2>4. OwnerDelivers' /\ InTurn' /\ Savings'
    BY <2>1, <2>2, Names DEF IInv, Unspoilt, OwnerDelivers, InTurn, Savings
  <2>5. Holding'
    BY <2>1, <2>2, <2>3, Names DEF IInv, Unspoilt, Holding
  <2>6. Releasing' /\ ResourcesOutliveUsers'
    BY <2>1, <2>2, <2>3 DEF IInv, Unspoilt, Releasing, ResourcesOutliveUsers
  <2> QED
    BY <2>1, <2>4, <2>5, <2>6 DEF Unspoilt, Sound
<1> QED
  BY <1>1, <1>2, <1>3

-----------------------------------------------------------------------------
(* Settling and finalizing: the environment and the tasks stay what they   *)
(* are, but for the capture that stop() makes.                             *)

Teardown == {"settle", "finalize", "stop", "abort", "extract", "remove", "diff", "manifest",
             "writing", "release"}

LEMMA TeardownKeeps ==
    ASSUME IInv, pc \in Teardown, pc' \in Teardown,
           UNCHANGED <<has, stage, aborted, late, tracer, features>>,
           owner' \in {owner, [owner EXCEPT !.nudged = (owner.at # "done")]},
           env' = env \/ (held /\ env = "up" /\ env' = "revoked"),
           manifest' = "live" => pc' \in {"writing", "release"},
           saver' = saver \/ (HasCheckpoint /\ saver' = [saver EXCEPT !["final"] = "waits"]),
           cancelled' = cancelled, flaws \subseteq flaws'
    PROVE  /\ OwnerDelivers' /\ Holding' /\ InTurn' /\ Savings' /\ Releasing'
           /\ ResourcesOutliveUsers' /\ (cancelled' => "error" \in flaws')
<1>1. held' = held /\ HasCheckpoint' = HasCheckpoint
  BY DEF held, HasCheckpoint
<1>2. owner \in SetupOwner
      /\ saver \in [Savers -> {"none", "idle", "waits", "reading", "lingers",
                             "done", "failed", "cancelled"}]
  BY DEF IInv, TypeOK, OthersTypeOK, CheckpointTypeOK
<1>3. owner'.at = owner.at /\ owner'.delivery = owner.delivery
  BY <1>2 DEF SetupOwner
<1>4. \A s \in Stages : StageLive(s)' <=> StageLive(s)
  BY DEF StageLive
<1>5. \A c \in Captures : SaverLive(c)' => SaverLive(c) \/ HasCheckpoint
  BY <1>2, Names DEF SaverLive
<1>6. OwnerDelivers'
  <2>1. OwnerDelivers /\ (held => owner.at = "done")
    BY DEF IInv, Unspoilt, Holding
  <2> QED
    BY <1>3, <2>1 DEF OwnerDelivers, Setup, Teardown
<1>7. Holding'
  <2>1. Holding
    BY DEF IInv, Unspoilt
  <2>2. ~held => saver' = NoSavers
    BY <2>1 DEF Holding
  <2>3. held => env' \in {"up", "revoked"}
    BY <2>1 DEF Holding, Past, Teardown
  <2>4. \A c \in Captures : SaverLive(c)' => HasCheckpoint'
    BY <1>1, <1>5, <2>1 DEF Holding
  <2> QED
    BY <1>1, <1>3, <2>1, <2>2, <2>3, <2>4 DEF Holding, Executing, Teardown
<1>8. InTurn'
  BY DEF InTurn, Setup, Teardown
<1>9. Savings'
  <2>1. saver'["final"] \in {"reading", "done", "failed"} => ~SaverLive("periodic")'
    <3>1. CASE saver' = saver
      BY <3>1 DEF IInv, Unspoilt, Savings, SaverLive
    <3>2. CASE saver' # saver
      BY <1>2, <3>2, Names
    <3> QED
      BY <3>1, <3>2
  <2> QED
    BY <2>1 DEF Savings, Setup, Executing, Teardown
<1>10. Releasing'
  BY <1>1 DEF IInv, Unspoilt, Releasing, Released, Past, Teardown, NoCleanup
<1>11. ResourcesOutliveUsers'
  <2>1. tracer' = "open" /\ ~aborted'
    BY DEF IInv, Unspoilt, Releasing, Released, Past, Teardown
  <2>2. ASSUME env' = "gone" PROVE LiveStages' \cup LiveSavers' = {}
    <3>1. ~held'
      BY <1>7, <2>2 DEF Holding, Past, Teardown
    <3>2. /\ \A s \in Stages : ~StageLive(s)'
          /\ \A c \in Captures : ~SaverLive(c)'
      BY <1>7, <3>1 DEF Holding, StageLive
    <3> QED
      BY <3>2 DEF LiveStages, LiveSavers
  <2> QED
    BY <2>1, <2>2 DEF ResourcesOutliveUsers
<1> QED
  BY <1>6, <1>7, <1>8, <1>9, <1>10, <1>11 DEF IInv, Unspoilt

LEMMA TeardownHarmless ==
    ASSUME IInv, pc \in Teardown, pc' \in Teardown \ {"abort"}, Sound,
           UNCHANGED <<has, stage, strays>>, tree' \subseteq tree, known => known',
           pc' \in Closing => \A c \in Captures : ~SaverLive(c)',
           capture' = {}
    PROVE  Harmless'
<1>1. Harmless /\ held'
  BY DEF IInv, Unspoilt, Harmless, held, Setup, Teardown
<1>2. \A s \in Stages : ~StageLive(s)'
  BY <1>1, Names DEF Harmless, StageLive, Teardown
<1>3. "partial" \notin tree' /\ strays' = {} /\ ("tests" \in tree' => known')
  BY <1>1 DEF Harmless, Teardown
<1> QED
  BY <1>1, <1>2, <1>3 DEF Harmless, Setup, Executing, Past, Teardown

LEMMA SettleKeeps ==
    ASSUME IInv, Settles \/ SettleTimesOut \/ SettleGivesUp
    PROVE  Unspoilt'
<1>1. /\ UNCHANGED <<cancelled, has, stage, env, aborted, tree, strays, manifest, late, tracer, capture,
                     features, saver>>
      /\ pc = "settle" /\ pc' \in {"settle", "finalize"}
      /\ owner' \in {owner, [owner EXCEPT !.nudged = (owner.at # "done")]}
      /\ flaws \subseteq flaws'
  BY DEF Settles, SettleTimesOut, SettleGivesUp, SettleOnly, world, ending, setting, checkpoint, Flawed
<1>2. manifest' # "live"
  BY <1>1 DEF IInv, Unspoilt, Releasing, Released, Past
<1>3. /\ OwnerDelivers' /\ Holding' /\ InTurn' /\ Savings' /\ Releasing'
      /\ ResourcesOutliveUsers' /\ (cancelled' => "error" \in flaws')
  BY <1>1, <1>2, TeardownKeeps DEF Teardown
<1>4. ASSUME Sound' PROVE Harmless'
  <2>1. Sound
    BY <1>1, <1>4 DEF Sound
  <2>2. known => known'
    BY DEF Settles, SettleTimesOut, SettleGivesUp
  <2>3. capture' = {}
    BY <1>1, <2>1 DEF IInv, Unspoilt, Harmless
  <2> QED
    BY <1>1, <2>1, <2>2, <2>3, TeardownHarmless DEF Teardown, Closing
<1> QED
  BY <1>3, <1>4 DEF Unspoilt

LEMMA NothingWrong ==
    ASSUME IInv, owner.at = "done", \A s \in Stages : ~StageLive(s),
           \A c \in Captures : ~SaverLive(c), strays = {}, "partial" \notin tree,
           "tests" \in tree => known
    PROVE  Wrong = {}
<1>1. Pending = {} /\ LiveSavers = {}
  BY DEF Pending, LiveStages, LiveOwner, LiveSavers
<1>2. tree \subseteq {"partial", "tests"}
  BY DEF IInv, TypeOK, OthersTypeOK
<1> QED
  BY <1>1, <1>2 DEF Wrong

Finalizing == \/ HandlesCheckpoint \/ AbortEnds \/ StopReturns \/ StopTimesOut \/ StopGivesUp
              \/ Extracts \/ RemovesTests \/ TakesDiff

LEMMA FinalKeeps ==
    ASSUME IInv, Finalizing
    PROVE  Unspoilt'
<1>1. UNCHANGED <<cancelled, has, known, owner, stage, aborted, strays, manifest, late, tracer, features>>
  BY DEF Finalizing, HandlesCheckpoint, AbortEnds, StopReturns, StopTimesOut, StopGivesUp, Extracts,
         RemovesTests, TakesDiff, FinalOnly, setting
<1>2. /\ pc \in {"finalize", "abort", "stop", "extract", "remove", "diff"}
      /\ pc' \in {"stop", "abort", "extract", "remove", "diff", "manifest"}
      /\ flaws \subseteq flaws'
      /\ env' = env \/ (held /\ env = "up" /\ env' = "revoked")
      /\ saver' = saver \/ (HasCheckpoint /\ saver' = [saver EXCEPT !["final"] = "waits"])
  <2>1. CASE HandlesCheckpoint
    BY <2>1 DEF HandlesCheckpoint, Revoked, FinalOnly
  <2>2. CASE AbortEnds \/ StopReturns \/ StopTimesOut \/ StopGivesUp
    BY <2>2 DEF AbortEnds, StopReturns, StopTimesOut, StopGivesUp, Revoked, Flawed
  <2>3. CASE Extracts \/ RemovesTests \/ TakesDiff
    BY <2>3 DEF Extracts, RemovesTests, TakesDiff, Flawed
  <2> QED
    BY <2>1, <2>2, <2>3 DEF Finalizing
<1>3. manifest' # "live"
  BY <1>1, <1>2 DEF IInv, Unspoilt, Releasing, Released, Past
<1>4. /\ OwnerDelivers' /\ Holding' /\ InTurn' /\ Savings' /\ Releasing'
      /\ ResourcesOutliveUsers' /\ (cancelled' => "error" \in flaws')
  BY <1>1, <1>2, <1>3, TeardownKeeps DEF Teardown
<1>5. ASSUME Sound' PROVE Harmless'
  <2>1. Sound /\ Harmless /\ capture = {} /\ pc # "abort" /\ held /\ owner.at = "done"
    BY <1>2, <1>5 DEF Sound, IInv, Unspoilt, Harmless, Holding, Setup
  <2>2. \A s \in Stages : ~StageLive(s)
    BY <1>2, <2>1, Names DEF Harmless
  <2>3. "partial" \notin tree /\ strays = {} /\ ("tests" \in tree => known)
    BY <1>2, <2>1 DEF Harmless
  <2>4. tree' \subseteq tree
    BY DEF Finalizing, HandlesCheckpoint, AbortEnds, StopReturns, StopTimesOut, StopGivesUp, Extracts,
           RemovesTests, TakesDiff
  <2>5. pc' # "abort"
    <3>1. "error" \notin flaws' /\ Quiesced /\ ~Unsafe
      BY <1>5, <2>1 DEF Sound, Quiesced, Unsafe
    <3> QED
      BY <2>1, <3>1 DEF Finalizing, HandlesCheckpoint, AbortEnds, StopReturns, StopTimesOut, StopGivesUp,
         Extracts, RemovesTests, TakesDiff, Flawed
  <2>6. ASSUME pc' \in Closing PROVE \A c \in Captures : ~SaverLive(c)'
    <3>1. CASE HandlesCheckpoint
      <4>1. ~HasCheckpoint /\ UNCHANGED saver
        BY <2>6, <3>1 DEF HandlesCheckpoint, Closing
      <4> QED
        BY <4>1 DEF IInv, Unspoilt, Holding, SaverLive
    <3>2. CASE StopReturns
      <4>1. UNCHANGED saver /\ saver["final"] \in {"done", "failed"}
        BY <3>2 DEF StopReturns
      <4>2. ~SaverLive("periodic") /\ ~SaverLive("final")
        BY <4>1 DEF IInv, Unspoilt, Savings, SaverLive
      <4> QED
        BY <4>1, <4>2, Names DEF SaverLive
    <3>3. CASE Extracts \/ RemovesTests \/ TakesDiff
      <4>1. UNCHANGED saver /\ pc \in Closing
        BY <3>3 DEF Extracts, RemovesTests, TakesDiff, Closing
      <4> QED
        BY <2>1, <4>1 DEF Harmless, SaverLive
    <3>4. CASE AbortEnds \/ StopTimesOut \/ StopGivesUp
      BY <2>1, <2>6, <3>4 DEF AbortEnds, StopTimesOut, StopGivesUp, Closing
    <3> QED
      BY <3>1, <3>2, <3>3, <3>4 DEF Finalizing
  <2>7. capture' = {}
    <3>1. CASE TakesDiff
      <4>1. \A c \in Captures : ~SaverLive(c)
        BY <2>1, <3>1 DEF TakesDiff, Harmless, Closing
      <4>2. Wrong = {}
        BY <2>1, <2>2, <2>3, <4>1, NothingWrong
      <4> QED
        BY <2>1, <3>1, <4>2 DEF TakesDiff
    <3>2. CASE ~TakesDiff
      BY <2>1, <3>2 DEF Finalizing, HandlesCheckpoint, AbortEnds, StopReturns, StopTimesOut, StopGivesUp,
         Extracts, RemovesTests
    <3> QED
      BY <3>1, <3>2
  <2> QED
    BY <1>1, <1>2, <2>1, <2>4, <2>5, <2>6, <2>7, TeardownHarmless DEF Teardown
<1> QED
  BY <1>4, <1>5 DEF Unspoilt

LEMMA ManifestKeeps ==
    ASSUME IInv, EntersManifest \/ ManifestReturns
    PROVE  Unspoilt'
<1>1. /\ UNCHANGED <<cancelled, has, known, owner, stage, env, aborted, tree, strays, late, tracer, capture,
                     features, saver>>
      /\ pc \in {"manifest", "writing"} /\ pc' \in {"writing", "release"} /\ flaws \subseteq flaws'
  BY DEF EntersManifest, ManifestReturns, ManifestOnly, tasks, world, setting, checkpoint, Flawed
<1>2. /\ OwnerDelivers' /\ Holding' /\ InTurn' /\ Savings' /\ Releasing'
      /\ ResourcesOutliveUsers' /\ (cancelled' => "error" \in flaws')
  BY <1>1, TeardownKeeps DEF Teardown
<1>3. ASSUME Sound' PROVE Harmless'
  <2>1. Sound /\ Harmless
    BY <1>1, <1>3 DEF Sound, IInv, Unspoilt
  <2>2. \A c \in Captures : ~SaverLive(c)'
    BY <1>1, <2>1 DEF Harmless, Closing, SaverLive
  <2>3. capture' = {}
    BY <1>1, <2>1 DEF Harmless
  <2> QED
    BY <1>1, <2>1, <2>2, <2>3, TeardownHarmless DEF Teardown
<1> QED
  BY <1>2, <1>3 DEF Unspoilt

-----------------------------------------------------------------------------
(* The release: the tasks are what they are, and the environment goes only *)
(* when none of them can use it, or after its abort.                       *)

Releases == EntersRelease \/ AbortsEnvironment \/ Defers \/ Cleans \/ AbortsAfterFailure

LEMMA ReleaseKeeps ==
    ASSUME IInv, Releases
    PROVE  Unspoilt'
<1>1. /\ UNCHANGED <<cancelled, has, known, owner, stage, asked, tree, strays, manifest, capture, features,
                     saver>>
      /\ pc \in {"release", "abort_env", "defer", "cleanup", "abort_failed"}
      /\ pc' \in {"abort_env", "defer"} \cup (Past \ {"extracted", "unproven"})
      /\ flaws \subseteq flaws'
  BY DEF Releases, EntersRelease, AbortsEnvironment, Defers, Cleans, AbortsAfterFailure, ReleaseOnly,
         setting, checkpoint, Flawed, Past
<1>2. /\ \A s \in Stages : StageLive(s)' <=> StageLive(s)
      /\ \A c \in Savers : SaverLive(c)' <=> SaverLive(c)
      /\ Dependencies' = Dependencies /\ LiveLeftover' = LiveLeftover
      /\ LiveStages' = LiveStages /\ LiveSavers' = LiveSavers
  BY <1>1, SameTasks
<1>3. held' = held /\ HasCheckpoint' = HasCheckpoint
  BY <1>1 DEF held, HasCheckpoint
<1>4. late \in Cleanup
  BY DEF IInv, TypeOK, OthersTypeOK
<1>5. env' = env \/ (held /\ (env' = "revoked" \/ pc' = "ended"))
  <2>1. CASE EntersRelease \/ AbortsEnvironment \/ Defers \/ AbortsAfterFailure
    BY <2>1 DEF EntersRelease, AbortsEnvironment, Defers, AbortsAfterFailure, Revoked
  <2>2. CASE Cleans
    BY <2>2 DEF Cleans, Revoked, IInv, Unspoilt, Releasing
  <2> QED
    BY <2>1, <2>2 DEF Releases
<1>6. OwnerDelivers'
  <2>1. OwnerDelivers /\ (held => owner.at = "done")
    BY DEF IInv, Unspoilt, Holding
  <2> QED
    BY <1>1, <1>5, <2>1 DEF OwnerDelivers, Setup, Past
<1>7. Holding'
  <2>1. Holding
    BY DEF IInv, Unspoilt
  <2>2. held' /\ pc' \notin Past => env' \in {"up", "revoked"}
    <3>1. held /\ pc \notin Past => env \in {"up", "revoked"}
      BY <2>1 DEF Holding
    <3>2. pc' \notin Past => pc \notin Past
      BY DEF Releases, EntersRelease, AbortsEnvironment, Defers, Cleans, AbortsAfterFailure, Past
    <3> QED
      BY <1>3, <1>5, <3>1, <3>2 DEF Past
  <2> QED
    BY <1>1, <1>2, <1>3, <2>1, <2>2, Names DEF Holding, Executing, Past
<1>8. InTurn' /\ Savings'
  BY <1>1, <1>2, Names DEF IInv, Unspoilt, InTurn, Savings, Setup, Executing, Past
<1>9. Releasing'
  <2>1. CASE EntersRelease
    <3>1. late = NoCleanup /\ tracer = "open" /\ ~aborted
      BY <2>1 DEF EntersRelease, IInv, Unspoilt, Releasing, Released, Past
    <3>2. /\ UNCHANGED aborted /\ late'.at = "none" /\ late'.env = FALSE
          /\ Dependencies \subseteq late'.tasks
          /\ pc' = "cleanup" => held /\ late'.tasks = {}
          /\ pc' = "abort_env" => held
          /\ pc' \in {"abort_env", "defer", "cleanup", "ended"}
      BY <1>4, <2>1, <3>1 DEF EntersRelease, NoCleanup, Cleanup
    <3> QED
      BY <1>2, <1>3, <3>1, <3>2 DEF Releasing, Released, Past
  <2>2. CASE AbortsEnvironment
    BY <1>1, <1>2, <1>3, <2>2 DEF AbortsEnvironment, IInv, Unspoilt, Releasing, Released, Past
  <2>3. CASE Defers
    <3>1. late'.tasks = late.tasks /\ late'.env = (held /\ ~aborted) /\ UNCHANGED aborted
      BY <1>4, <2>3 DEF Defers, Cleanup
    <3>2. pc = "defer" /\ pc' \in {"cleanup", "ended"} /\ (pc' = "cleanup" => aborted)
      BY <2>3 DEF Defers
    <3>3. /\ Dependencies \subseteq late.tasks \cup {"leftover"}
          /\ aborted => held
      BY <3>2 DEF IInv, Unspoilt, Releasing, Released
    <3>4. late'.env => held
      BY <3>1
    <3> QED
      BY <1>2, <1>3, <3>1, <3>2, <3>3, <3>4 DEF Releasing, Released, Past
  <2>4. CASE Cleans \/ AbortsAfterFailure
    BY <1>1, <1>2, <1>3, <2>4 DEF Cleans, AbortsAfterFailure, IInv, Unspoilt, Releasing, Released, Past
  <2> QED
    BY <2>1, <2>2, <2>3, <2>4 DEF Releases
<1>10. ResourcesOutliveUsers'
  <2>1. ASSUME tracer' = "closed" PROVE Dependencies' \subseteq LiveLeftover'
    <3>1. tracer = "closed" \/ Dependencies = {}
      BY <2>1 DEF Releases, EntersRelease, AbortsEnvironment, Defers, Cleans, AbortsAfterFailure
    <3> QED
      BY <1>2, <3>1 DEF IInv, Unspoilt, ResourcesOutliveUsers
  <2>2. ASSUME env' = "gone", ~aborted' PROVE LiveStages' \cup LiveSavers' = {}
    <3>1. CASE env = "gone" /\ ~aborted
      BY <1>2, <3>1 DEF IInv, Unspoilt, ResourcesOutliveUsers
    <3>2. CASE env = "gone" /\ aborted
      <4>1. pc # "abort_env" /\ pc # "release"
        BY <3>2 DEF IInv, Unspoilt, Releasing, Holding, Released, Past
      <4> QED
        BY <2>2, <3>2, <4>1 DEF Releases, EntersRelease, AbortsEnvironment, Defers, Cleans, AbortsAfterFailure
    <3>3. CASE env # "gone"
      <4>1. pc = "cleanup" /\ ~aborted
        BY <2>2, <3>3 DEF Releases, EntersRelease, AbortsEnvironment, Defers, Cleans, AbortsAfterFailure,
           Revoked
      <4>2. Dependencies \subseteq {"leftover"}
        BY <4>1 DEF IInv, Unspoilt, Releasing, Released, Past
      <4>3. LiveStages = {} /\ LiveSavers = {}
        BY <4>2, Names DEF Dependencies, LiveStages, LiveSavers
      <4> QED
        BY <1>2, <4>3
    <3> QED
      BY <3>1, <3>2, <3>3
  <2> QED
    BY <2>1, <2>2 DEF ResourcesOutliveUsers
<1>11. ASSUME Sound' PROVE Harmless'
  <2>1. Sound /\ Harmless /\ held
    BY <1>1, <1>11 DEF Sound, IInv, Unspoilt, Harmless, Setup
  <2>2. pc \in {"release", "cleanup"} /\ pc' \in {"cleanup", "ended"} /\ Dependencies = {}
    <3>1. pc \in {"release", "cleanup"} /\ "error" \notin flaws'
      BY <1>1, <1>11, <2>1 DEF Sound, Harmless
    <3>2. CASE EntersRelease
      BY <2>1, <3>1, <3>2 DEF EntersRelease, Flawed
    <3>3. CASE Cleans
      BY <2>1, <3>1, <3>3 DEF Cleans, Flawed, Harmless, Past
    <3> QED
      BY <3>1, <3>2, <3>3 DEF Releases, AbortsEnvironment, Defers, AbortsAfterFailure
  <2>3. /\ \A s \in Stages : ~StageLive(s)'
        /\ \A c \in Captures : ~SaverLive(c)'
    BY <1>2, <2>2, LiveNames, Names
  <2>4. "partial" \notin tree /\ strays = {} /\ ("tests" \in tree => known) /\ capture = {}
    BY <2>1, <2>2 DEF Harmless
  <2> QED
    BY <1>1, <1>2, <1>3, <2>1, <2>2, <2>3, <2>4 DEF Harmless, Setup, Executing
<1> QED
  BY <1>1, <1>6, <1>7, <1>8, <1>9, <1>10, <1>11 DEF IInv, Unspoilt

LEMMA AfterwardsKeeps ==
    ASSUME IInv, ExtractsAfterwards
    PROVE  Unspoilt'
<1>1. /\ UNCHANGED <<flaws, cancelled, has, known, asked, owner, stage, env, aborted, tree, strays, manifest,
                     late, tracer, features, saver>>
      /\ pc = "ended" /\ pc' \in {"extracted", "unproven"} /\ capture' = Wrong /\ Sound
  BY DEF ExtractsAfterwards, tasks, world, setting, checkpoint, Sound
<1>2. /\ \A s \in Stages : StageLive(s)' <=> StageLive(s)
      /\ \A c \in Savers : SaverLive(c)' <=> SaverLive(c)
      /\ Dependencies' = Dependencies /\ LiveLeftover' = LiveLeftover
      /\ LiveStages' = LiveStages /\ LiveSavers' = LiveSavers
  BY <1>1, SameTasks
<1>3. held' = held /\ HasCheckpoint' = HasCheckpoint
  BY <1>1 DEF held, HasCheckpoint
<1>4. OwnerDelivers' /\ InTurn' /\ Savings'
  BY <1>1, <1>2, Names DEF IInv, Unspoilt, OwnerDelivers, InTurn, Savings, Setup, Executing
<1>5. Holding'
  BY <1>1, <1>2, <1>3, Names DEF IInv, Unspoilt, Holding, Executing, Past
<1>6. Releasing'
  BY <1>1, <1>2, <1>3 DEF IInv, Unspoilt, Releasing, Released, Past
<1>7. ResourcesOutliveUsers'
  BY <1>1, <1>2 DEF IInv, Unspoilt, ResourcesOutliveUsers
<1>8. Harmless'
  <2>1. Harmless /\ held /\ Dependencies = {}
    BY <1>1 DEF IInv, Unspoilt, Harmless, Setup, Past
  <2>2. /\ \A s \in Stages : ~StageLive(s)
        /\ \A c \in Captures : ~SaverLive(c)
        /\ owner.at = "done"
    BY <2>1, LiveNames, Names
  <2>3. "partial" \notin tree /\ strays = {} /\ ("tests" \in tree => known)
    BY <1>1, <2>1 DEF Harmless
  <2>4. capture' = {}
    BY <1>1, <2>1, <2>2, <2>3, NothingWrong
  <2> QED
    BY <1>1, <1>2, <1>3, <2>1, <2>2, <2>3, <2>4, Names DEF Harmless, Setup, Executing
<1> QED
  BY <1>1, <1>4, <1>5, <1>6, <1>7, <1>8 DEF IInv, Unspoilt

-----------------------------------------------------------------------------
(* What goes on beside the main coroutine: the deferred cleanup, the       *)
(* manifest and the captures.                                              *)

LEMMA LateKeeps ==
    ASSUME IInv, LateCleans \/ LateRetains
    PROVE  Unspoilt'
<1>1. /\ UNCHANGED <<pc, flaws, cancelled, has, known, stage, aborted, tree, strays, manifest,
                     capture, features, saver>>
      /\ late.at = "waiting"
  BY DEF LateCleans, LateRetains, LateOnly, main, setting, checkpoint
<1>2. late \in Cleanup /\ owner \in SetupOwner
  BY DEF IInv, TypeOK, OthersTypeOK
<1>3. pc \in Past /\ pc' \in Past
  BY <1>1 DEF IInv, Unspoilt, Releasing
<1>4. /\ owner'.at = owner.at /\ owner'.delivery = owner.delivery
      /\ late'.tasks = late.tasks /\ late'.env = late.env /\ late'.at # "none"
  BY <1>2 DEF LateCleans, LateRetains, Cleanup, SetupOwner
<1>5. /\ \A s \in Stages : StageLive(s)' <=> StageLive(s)
      /\ \A c \in Savers : SaverLive(c)' <=> SaverLive(c)
  BY <1>1 DEF StageLive, SaverLive
<1>6. /\ Dependencies' = Dependencies /\ LiveLeftover' = LiveLeftover
      /\ LiveStages' = LiveStages /\ LiveSavers' = LiveSavers
  <2>1. Dependencies' = Dependencies
    BY <1>1, <1>4, <1>5, LiveNames, LiveNamesNext
  <2> QED
    BY <1>5, <2>1, Names DEF LiveStages, LiveSavers, LiveLeftover
<1>7. held' = held /\ HasCheckpoint' = HasCheckpoint
  BY <1>1 DEF held, HasCheckpoint
<1>8. env' = env \/ (held /\ env' = "gone" /\ LateCleans)
  BY DEF LateCleans, LateRetains, IInv, Unspoilt, Releasing
<1>9. OwnerDelivers'
  <2>1. OwnerDelivers /\ (held => owner.at = "done")
    BY DEF IInv, Unspoilt, Holding
  <2> QED
    BY <1>3, <1>4, <1>8, <2>1 DEF OwnerDelivers, Setup, Past
<1>10. Holding'
  BY <1>1, <1>3, <1>4, <1>5, <1>7, Names DEF IInv, Unspoilt, Holding
<1>11. InTurn' /\ Savings'
  BY <1>1, <1>5, Names DEF IInv, Unspoilt, InTurn, Savings
<1>12. Releasing'
  BY <1>1, <1>3, <1>4, <1>6, <1>7 DEF IInv, Unspoilt, Releasing, Released
<1>13. ResourcesOutliveUsers'
  <2>1. CASE LateCleans
    <3>1. Dependencies \subseteq {"leftover"}
      BY <1>3, <2>1 DEF LateCleans, LateTasks, IInv, Unspoilt, Releasing, Released
    <3>2. LiveStages = {} /\ LiveSavers = {} /\ Dependencies \subseteq LiveLeftover
      BY <3>1, Names DEF Dependencies, LiveStages, LiveSavers, LiveLeftover, LiveOwner, LiveManifest
    <3> QED
      BY <1>6, <3>2 DEF ResourcesOutliveUsers
  <2>2. CASE LateRetains
    BY <1>1, <1>6, <2>2 DEF LateRetains, IInv, Unspoilt, ResourcesOutliveUsers
  <2> QED
    BY <2>1, <2>2
<1>14. ASSUME Sound' PROVE Harmless'
  <2>1. Harmless
    BY <1>1, <1>14 DEF Sound, IInv, Unspoilt
  <2> QED
    BY <1>1, <1>3, <1>5, <1>6, <1>7, <2>1, Names DEF Harmless, Setup, Executing, Past
<1> QED
  BY <1>1, <1>9, <1>10, <1>11, <1>12, <1>13, <1>14 DEF IInv, Unspoilt

LEMMA ManifestEndKeeps ==
    ASSUME IInv, ManifestEnds
    PROVE  Unspoilt'
<1>1. /\ UNCHANGED <<pc, flaws, cancelled, has, known, asked, owner, stage, env, aborted, tree, strays,
                     late, tracer, capture, features, saver>>
      /\ manifest = "live" /\ manifest' = "done"
  BY DEF ManifestEnds, ManifestOnly, tasks, world, setting, checkpoint
<1>2. /\ \A s \in Stages : StageLive(s)' <=> StageLive(s)
      /\ \A c \in Savers : SaverLive(c)' <=> SaverLive(c)
  BY <1>1 DEF StageLive, SaverLive
<1>3. Dependencies' \subseteq Dependencies
  BY <1>1, <1>2, LiveNames, LiveNamesNext
<1>4. LiveLeftover' = LiveLeftover /\ LiveStages' = LiveStages /\ LiveSavers' = LiveSavers
  BY <1>2, Names DEF LiveStages, LiveSavers, LiveLeftover
<1>5. held' = held /\ HasCheckpoint' = HasCheckpoint
  BY <1>1 DEF held, HasCheckpoint
<1>6. OwnerDelivers' /\ InTurn' /\ Savings'
  BY <1>1, <1>2, Names DEF IInv, Unspoilt, OwnerDelivers, InTurn, Savings
<1>7. Holding'
  BY <1>1, <1>2, <1>5, Names DEF IInv, Unspoilt, Holding
<1>8. Releasing'
  BY <1>1, <1>3, <1>5 DEF IInv, Unspoilt, Releasing
<1>9. ResourcesOutliveUsers'
  BY <1>1, <1>3, <1>4 DEF IInv, Unspoilt, ResourcesOutliveUsers
<1>10. ASSUME Sound' PROVE Harmless'
  <2>1. Harmless
    BY <1>1, <1>10 DEF Sound, IInv, Unspoilt
  <2> QED
    BY <1>1, <1>2, <1>3, <1>5, <2>1, Names DEF Harmless
<1> QED
  BY <1>1, <1>6, <1>7, <1>8, <1>9, <1>10 DEF IInv, Unspoilt

(* A step of the captures is one of a live task, and starts no other.      *)
LEMMA SaverMoves ==
    ASSUME IInv, SaverStep(Usable)
    PROVE  /\ \A c \in Savers : SaverLive(c)' => SaverLive(c)
           /\ saver'["final"] # "none" => saver["final"] # "none"
           /\ saver'["final"] \in {"reading", "done", "failed"} => ~SaverLive("periodic")'
           /\ \E c \in Savers : SaverLive(c)
<1>1. saver \in [Savers -> {"none", "idle", "waits", "reading", "lingers",
                          "done", "failed", "cancelled"}]
  BY DEF IInv, TypeOK, CheckpointTypeOK
<1>2. saver["final"] \in {"reading", "done", "failed"} => ~SaverLive("periodic")
  BY DEF IInv, Unspoilt, Savings
<1>3. CASE IntervalPasses \/ PeriodicReturns
  <2>1. saver["periodic"] = "idle" /\ SaverLive("periodic")
    BY <1>3 DEF IntervalPasses, PeriodicReturns, SaverLive
  <2>2. \A c \in Savers \ {"periodic"} : saver'[c] = saver[c]
    BY <1>1, <1>3, Names DEF IntervalPasses, PeriodicReturns
  <2> QED
    BY <1>2, <2>1, <2>2, Names DEF SaverLive
<1>4. CASE StopAwaits
  <2>1. saver["final"] = "waits" /\ SaverLive("final") /\ ~SaverLive("periodic")
    BY <1>4 DEF StopAwaits, SaverLive
  <2>2. \A c \in Savers \ {"final"} : saver'[c] = saver[c]
    BY <1>1, <1>4, Names DEF StopAwaits
  <2> QED
    BY <2>1, <2>2, Names DEF SaverLive
<1>5. CASE LeftoverEnds
  <2>1. saver["leftover"] = "lingers" /\ SaverLive("leftover")
    BY <1>5 DEF LeftoverEnds, SaverLive
  <2>2. saver'["leftover"] = "none" /\ \A c \in Savers \ {"leftover"} : saver'[c] = saver[c]
    BY <1>1, <1>5, Names DEF LeftoverEnds
  <2> QED
    BY <1>2, <2>1, <2>2, Names DEF SaverLive
<1>6. ASSUME NEW c \in Captures, CaptureEnds(c, Usable) \/ CaptureRaises(c) \/ SaverCancelled(c)
      PROVE  /\ \A d \in Savers : SaverLive(d)' => SaverLive(d)
             /\ saver'["final"] # "none" => saver["final"] # "none"
             /\ saver'["final"] \in {"reading", "done", "failed"} => ~SaverLive("periodic")'
             /\ \E d \in Savers : SaverLive(d)
  <2>1. c \in Savers /\ SaverLive(c)
    BY <1>6, Names DEF CaptureEnds, CaptureRaises, SaverCancelled, SaverLive
  <2>2. PICK where : saver' = [saver EXCEPT ![c] = where]
    BY <1>6 DEF CaptureEnds, CaptureRaises, SaverCancelled
  <2>3. \A d \in Savers \ {c} : saver'[d] = saver[d]
    BY <1>1, <2>2
  <2>4. CASE c = "periodic"
    BY <1>2, <2>1, <2>3, <2>4, Names DEF SaverLive
  <2>5. CASE c = "final"
    <3>1. ~SaverLive("periodic")
      BY <1>2, <1>6, <2>5 DEF CaptureEnds, CaptureRaises, SaverCancelled
    <3>2. saver["final"] # "none"
      BY <2>1, <2>5 DEF SaverLive
    <3> QED
      BY <2>1, <2>3, <2>5, <3>1, <3>2, Names DEF SaverLive
  <2> QED
    BY <2>4, <2>5, Names
<1> QED
  BY <1>3, <1>4, <1>5, <1>6 DEF SaverStep

LEMMA CheckpointKeeps ==
    ASSUME IInv, CheckpointStep
    PROVE  Unspoilt'
<1>1. UNCHANGED <<pc, flaws, cancelled, has, known, owner, stage, env, aborted, tree, strays, manifest, late,
                  tracer, capture, features>>
  BY DEF CheckpointStep, main, ending, setting
<1>2. /\ \A c \in Savers : SaverLive(c)' => SaverLive(c)
      /\ saver'["final"] # "none" => saver["final"] # "none"
      /\ saver'["final"] \in {"reading", "done", "failed"} => ~SaverLive("periodic")'
      /\ \E c \in Savers : SaverLive(c)
  BY SaverMoves DEF CheckpointStep
<1>3. UNCHANGED asked
  BY DEF CheckpointStep, SaverStep, IntervalPasses, PeriodicReturns, StopAwaits, LeftoverEnds, CaptureEnds,
         CaptureRaises, SaverCancelled
<1>4. \A s \in Stages : StageLive(s)' <=> StageLive(s)
  BY <1>1 DEF StageLive
<1>5. held' = held /\ HasCheckpoint' = HasCheckpoint
  BY <1>1 DEF held, HasCheckpoint
<1>6. held
  BY <1>2 DEF IInv, Unspoilt, Holding, NoSavers, SaverLive
<1>7. Dependencies' \subseteq Dependencies
  BY <1>1, <1>2, <1>4, LiveNames, LiveNamesNext
<1>8. OwnerDelivers' /\ InTurn'
  BY <1>1 DEF IInv, Unspoilt, OwnerDelivers, InTurn
<1>9. Savings'
  BY <1>1, <1>2 DEF IInv, Unspoilt, Savings
<1>10. Holding'
  BY <1>1, <1>2, <1>5, <1>6, Names DEF IInv, Unspoilt, Holding
<1>11. Releasing'
  BY <1>1, <1>5, <1>7 DEF IInv, Unspoilt, Releasing
<1>12. ResourcesOutliveUsers'
  <2>1. ASSUME env' = "gone", ~aborted' PROVE LiveStages' \cup LiveSavers' = {}
    <3>1. LiveStages = {} /\ LiveSavers = {}
      BY <1>1, <2>1 DEF IInv, Unspoilt, ResourcesOutliveUsers
    <3> QED
      BY <1>2, <1>4, <3>1, Names DEF LiveStages, LiveSavers
  <2>2. ASSUME tracer' = "closed" PROVE Dependencies' \subseteq LiveLeftover'
    <3>1. Dependencies \subseteq {"leftover"}
      BY <1>1, <2>2 DEF IInv, Unspoilt, ResourcesOutliveUsers, LiveLeftover
    <3>2. \A x \in Dependencies' : x = "leftover" /\ SaverLive(x)'
      BY <1>7, <3>1, LiveNamesNext, Names
    <3> QED
      BY <3>2 DEF LiveLeftover
  <2> QED
    BY <2>1, <2>2 DEF ResourcesOutliveUsers
<1>13. ASSUME Sound' PROVE Harmless'
  <2>1. Harmless
    BY <1>1, <1>13 DEF Sound, IInv, Unspoilt
  <2> QED
    BY <1>1, <1>2, <1>3, <1>4, <1>5, <1>7, <2>1, Names DEF Harmless
<1> QED
  BY <1>1, <1>8, <1>9, <1>10, <1>11, <1>12, <1>13 DEF IInv, Unspoilt

-----------------------------------------------------------------------------
LEMMA StepUnspoilt == IInv /\ [Next]_vars => Unspoilt'
<1> SUFFICES ASSUME IInv, [Next]_vars PROVE Unspoilt'
  OBVIOUS
<1>1. CASE MainStep
  <2>1. CASE Enters \/ Acquires \/ AcquireEnds \/ Prepares
    BY <2>1, AcquireKeeps
  <2>2. CASE StartsCheckpoint
    BY <2>2, StartsKeeps
  <2>3. CASE \E s \in Stages : SkipsStage(s) \/ EntersStage(s) \/ StageReturns(s) \/ StageTimesOut(s)
    BY <2>3, SkipsKeeps, EntersKeeps, ReturnsKeeps, TimesOutKeeps
  <2>4. CASE EntersSession \/ SessionEnds
    BY <2>4, SessionKeeps
  <2>5. CASE Settles \/ SettleTimesOut \/ SettleGivesUp
    BY <2>5, SettleKeeps
  <2>6. CASE Finalizing
    BY <2>6, FinalKeeps
  <2>7. CASE EntersManifest \/ ManifestReturns
    BY <2>7, ManifestKeeps
  <2>8. CASE Releases
    BY <2>8, ReleaseKeeps
  <2>9. CASE ExtractsAfterwards
    BY <2>9, AfterwardsKeeps
  <2> QED
    BY <1>1, <2>1, <2>2, <2>3, <2>4, <2>5, <2>6, <2>7, <2>8, <2>9 DEF MainStep, Finalizing, Releases
<1>2. CASE FactoryBuilds \/ FactoryFails \/ FactoryNudged \/ OwnerStep
  BY <1>2, FactoryKeeps
<1>3. CASE StageStep
  BY <1>3, StageEndsKeeps, RestoreKeeps, InjectionKeeps DEF StageStep
<1>4. CASE CheckpointStep
  BY <1>4, CheckpointKeeps
<1>5. CASE SessionWorks
  BY <1>5, SessionKeeps
<1>6. CASE ManifestEnds
  BY <1>6, ManifestEndKeeps
<1>7. CASE LateCleans \/ LateRetains
  BY <1>7, LateKeeps
<1>8. CASE DeadlinePasses \/ CancelsRun \/ CancelsTeardown
  BY <1>8, TimeKeeps
<1>9. CASE Crashes
  BY <1>9, CrashUnspoilt
<1>10. CASE UNCHANGED vars
  BY <1>10, IdleKeeps DEF vars, main, tasks, world, ending, setting, checkpoint
<1> QED
  BY <1>1, <1>2, <1>3, <1>4, <1>5, <1>6, <1>7, <1>8, <1>9, <1>10 DEF Next

LEMMA Inductive == Spec => []IInv
<1>1. Init => IInv
  BY InitTyped, InitUnspoilt DEF IInv
<1>2. IInv /\ [Next]_vars => IInv'
  BY StepTyped, StepUnspoilt DEF IInv
<1> QED
  BY <1>1, <1>2, PTL DEF Spec

(* release_resources, _cleanup_environment and the deferred cleanup take   *)
(* no environment from a stage or a capture that still runs, unless it was *)
(* aborted before, and close no trace that a task may write to, whatever   *)
(* cancellations those tasks ignore.                                       *)
THEOREM ResourcesAreKept == Spec => []ResourcesOutliveUsers
<1>1. IInv => ResourcesOutliveUsers
  BY DEF IInv, Unspoilt
<1> QED
  BY <1>1, Inductive, PTL

(* The patch is extracted afterwards only where nothing else was wrong.    *)
Afterwards == pc = "extracted" => Sound

LEMMA StepAfterwards == IInv /\ Afterwards /\ [Next]_vars => Afterwards'
<1> SUFFICES ASSUME IInv, Afterwards, [Next]_vars, pc' = "extracted" PROVE Sound'
  BY DEF Afterwards
<1>1. CASE UNCHANGED <<pc, flaws>>
  BY <1>1 DEF Afterwards, Sound
<1>2. CASE ExtractsAfterwards
  BY <1>2 DEF ExtractsAfterwards, Sound
<1>3. CASE MainStep /\ ~ExtractsAfterwards
  <2>1. ~(Enters \/ Acquires \/ AcquireEnds \/ Prepares)
    BY DEF Enters, Acquires, AcquireEnds, Prepares
  <2>2. CASE StartsCheckpoint
    BY <2>2, <1>1 DEF StartsCheckpoint
  <2>3. ASSUME NEW s \in Stages, SkipsStage(s) \/ EntersStage(s) \/ StageReturns(s) \/ StageTimesOut(s)
        PROVE  FALSE
    BY <2>3, Places DEF SkipsStage, EntersStage, StageReturns, StageTimesOut
  <2>4. ~(EntersSession \/ SessionEnds \/ Settles \/ SettleTimesOut \/ SettleGivesUp)
    BY DEF EntersSession, SessionEnds, Settles, SettleTimesOut, SettleGivesUp
  <2>5. ~Finalizing
    BY DEF Finalizing, HandlesCheckpoint, AbortEnds, StopReturns, StopTimesOut, StopGivesUp, Extracts,
           RemovesTests, TakesDiff
  <2>6. ~(EntersManifest \/ ManifestReturns)
    BY DEF EntersManifest, ManifestReturns
  <2>7. ~Releases
    BY DEF Releases, EntersRelease, AbortsEnvironment, Defers, Cleans, AbortsAfterFailure
  <2> QED
    BY <1>3, <2>1, <2>2, <2>3, <2>4, <2>5, <2>6, <2>7 DEF MainStep, Finalizing, Releases
<1>4. CASE FactoryBuilds \/ FactoryFails \/ FactoryNudged \/ OwnerStep
  BY <1>1, <1>4 DEF FactoryBuilds, FactoryFails, FactoryNudged, OwnerStep, OwnerDisposes, OwnerTearsDown,
     OwnerOnly, main
<1>5. CASE StageStep
  BY <1>1, <1>5 DEF StageStep, StageEndsEarly, StageApplies, RestoreEnds, InjectionEnds, TaskOnly, main
<1>6. CASE CheckpointStep \/ ManifestEnds \/ LateCleans \/ LateRetains \/ DeadlinePasses
  BY <1>1, <1>6 DEF CheckpointStep, ManifestEnds, LateCleans, LateRetains, LateOnly, DeadlinePasses, main
<1>7. CASE SessionWorks \/ CancelsRun \/ CancelsTeardown \/ Crashes
  BY <1>1, <1>7 DEF SessionWorks, CancelsRun, CancelsTeardown, Crashes
<1>8. CASE UNCHANGED vars
  BY <1>1, <1>8 DEF vars, main
<1> QED
  BY <1>2, <1>3, <1>4, <1>5, <1>6, <1>7, <1>8 DEF Next

(* A patch that build_eval_result or generate() lets be submitted was      *)
(* taken when no task, session or rollback of the evaluation could write,  *)
(* with every injected test out of it and no checkpoint half applied, and  *)
(* nothing of the evaluation runs on behind it.                            *)
THEOREM EligibleResultsAreTrue == Spec => []EligibleIsTrue
<1>1. Init => Afterwards
  BY DEF Init, Afterwards
<1>2. IInv /\ Afterwards => EligibleIsTrue
  <2> SUFFICES ASSUME IInv, Afterwards, pc \in {"extracted", "ended"},
                      pc = "ended" => flaws = {}
               PROVE  capture = {} /\ Dependencies = {}
    BY DEF EligibleIsTrue
  <2>1. Sound
    BY DEF Afterwards, Sound
  <2> QED
    BY <2>1 DEF IInv, Unspoilt, Harmless, Past
<1> QED
  BY <1>1, <1>2, Inductive, StepAfterwards, PTL DEF Spec
=============================================================================
