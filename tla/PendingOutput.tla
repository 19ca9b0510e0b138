---------------------------- MODULE PendingOutput ----------------------------
(***************************************************************************)
(* How a generator hands its candidate over: the ownership record of its   *)
(* container, the pending file and the two JSONL outputs, all in one run   *)
(* directory that the generators of a batch share (gen_prediction.py,      *)
(* gen_prediction_docker.py, gen_prediction_pending.py).  Every generator  *)
(* first recovers what others left behind, while they may still be at it;  *)
(* one that ended early is looked after by its batch (batch_processes.py). *)
(*                                                                         *)
(* A generator names its container, record, pending file and rows.         *)
(***************************************************************************)
EXTENDS FiniteSets, Naturals

CONSTANTS
    Gen,        \* the generators of a batch
    Later,      \* the starts after theirs, of which only recovery matters
    Keep,       \* the generators run with --keep-container
    MaxKills,   \* bound: generators that are killed
    MaxFaults,  \* bound: torn rows, and steps of a recovery that fail
    None

ASSUME GenAssumption == Later \notin Gen /\ None \notin Gen \cup {Later}
ASSUME BoundsAssumption == Keep \subseteq Gen /\ MaxKills \in Nat /\ MaxFaults \in Nat

Proc == Gen \cup {Later}
File == {"prediction", "metric"}

VARIABLES
    pc,         \* where each generator is in main
    aim,        \* what follows the removal of its container
    owner,      \* the state of the ownership record
    container,
    candidate,  \* in the container only (sole), in memory (loose), on disk (saved)
    pending,    \* the pending file exists
    lock,       \* who holds its flock
    rows,       \* how often each file has the row of each generator
    tail,       \* how each file ends: with a newline, a torn or a bare row
    spoiled,    \* files with a malformed line that is terminated
    at, todo, item, clean,  \* the recovery or publication of each process
    parent,     \* what the batch does about a generator that ended
    faults

main == <<pc, aim>>
disk == <<owner, container, candidate>>
output == <<rows, tail, spoiled>>
walk == <<at, todo, item, clean>>
vars == <<main, disk, pending, lock, output, walk, parent, faults>>

Init ==
    /\ pc = [g \in Gen |-> "start"] /\ aim = [g \in Gen |-> "failed"]
    /\ owner = [g \in Gen |-> "none"] /\ container = [g \in Gen |-> "none"]
    /\ candidate = [g \in Gen |-> "none"]
    /\ pending = [g \in Gen |-> FALSE] /\ lock = [g \in Gen |-> None]
    /\ rows = [f \in File |-> [g \in Gen |-> 0]]
    /\ tail = [f \in File |-> "end"] /\ spoiled = {}
    /\ at = [p \in Proc |-> "off"] /\ todo = [p \in Proc |-> {}]
    /\ item = [p \in Proc |-> None] /\ clean = [p \in Proc |-> TRUE]
    /\ parent = [g \in Gen |-> "watch"] /\ faults = 0

(* _owner_is_live                                                          *)
Live(g) == pc[g] \notin {"done", "failed", "killed"}

Owned(g, state) == owner' = [owner EXCEPT ![g] = state]
Goes(g, where) == pc' = [pc EXCEPT ![g] = where]
Unlocked(p) == lock' = [g \in Gen |-> IF lock[g] = p THEN None ELSE lock[g]]
Records == {g \in Gen : owner[g] # "none"}

-----------------------------------------------------------------------------
(* The two JSONL files, under their own locks.                             *)

AppendAgain(f, g) ==  \* mutant: the committed rows are not looked through
    /\ rows' = [rows EXCEPT ![f][g] = @ + 1]
    /\ tail' = [tail EXCEPT ![f] = "end"]
    /\ UNCHANGED spoiled

(* _append_jsonl_durable_once truncates a torn row and separates a bare    *)
(* one, unless the row is there already.                                   *)
AppendOnce(f, g) ==
    /\ rows' = [rows EXCEPT ![f][g] = IF @ = 0 THEN 1 ELSE @]
    /\ tail' = [tail EXCEPT ![f] =
                    IF @ = "torn" \/ rows[f][g] = 0 THEN "end" ELSE @]
    /\ UNCHANGED spoiled

(* _append_jsonl_durable ends a torn row with a newline of its own.        *)
AppendPlain(f, g) ==
    IF rows[f][g] > 0
    THEN UNCHANGED output
    ELSE /\ rows' = [rows EXCEPT ![f][g] = 1]
         /\ tail' = [tail EXCEPT ![f] = "end"]
         /\ spoiled' = IF tail[f] = "torn" THEN spoiled \cup {f} ELSE spoiled

Fault == faults < MaxFaults /\ faults' = faults + 1

(* A write of the row that is broken off, by a kill or a full disk.        *)
Tear(f, g) ==
    /\ rows[f][g] = 0 /\ f \notin spoiled
    /\ \/ /\ tail' = [tail EXCEPT ![f] = "torn"]
          /\ UNCHANGED rows
       \/ /\ tail' = [tail EXCEPT ![f] = "bare"]
          /\ rows' = [rows EXCEPT ![f][g] = 1]
    /\ UNCHANGED spoiled

-----------------------------------------------------------------------------
(* recover_generation_state and publish_pending_output, of any process.    *)

Begin(p) ==
    /\ at' = [at EXCEPT ![p] = "promote"]
    /\ todo' = [todo EXCEPT ![p] = Records]
    /\ clean' = [clean EXCEPT ![p] = TRUE]
    /\ UNCHANGED item

(* p is through with one record or file.  That a recovery is not clean     *)
(* only matters to a generator that is starting.                           *)
Leave(p, g, phase, ok) ==
    /\ at' = [at EXCEPT ![p] = phase]
    /\ item' = [item EXCEPT ![p] = None]
    /\ todo' = [todo EXCEPT ![p] = @ \ {g}]
    /\ clean' = [clean EXCEPT ![p] = @ /\ (ok \/ p = Later)]

Moves(p, where) ==
    /\ at' = [at EXCEPT ![p] = where]
    /\ UNCHANGED <<todo, item, clean>>

Takes(p, g, where) ==
    /\ at' = [at EXCEPT ![p] = where]
    /\ item' = [item EXCEPT ![p] = g]
    /\ UNCHANGED <<todo, clean>>

PhaseOver(p) ==
    /\ at[p] \in {"promote", "stale", "publish"} /\ todo[p] = {}
    /\ LET next == [promote |-> "stale", stale |-> "publish", publish |-> "off"]
       IN  at' = [at EXCEPT ![p] = next[at[p]]]
    /\ todo' = [todo EXCEPT ![p] = CASE at[p] = "promote" -> Records
                                     [] at[p] = "stale" -> {g \in Gen : pending[g]}
                                     [] OTHER -> {}]
    /\ pc' = IF at[p] = "publish" /\ p \in Gen
             THEN [pc EXCEPT ![p] = IF clean[p] THEN "create" ELSE "failed"]
             ELSE pc
    /\ UNCHANGED <<aim, disk, pending, lock, output, item, clean, parent, faults>>

(* _promote_durable_preservation_candidates: a record that still asks for  *)
(* preservation becomes staged once its pending file is found and synced.  *)
PromoteRead(p) ==
    /\ at[p] = "promote"
    /\ \E g \in todo[p] : IF owner[g] = "preserving" THEN Takes(p, g, "compare")
                                                     ELSE Leave(p, g, "promote", TRUE)
    /\ UNCHANGED <<main, disk, pending, lock, output, parent, faults>>

(* _preservation_was_superseded                                            *)
Superseded(g) == owner[g] \in {"none", "staged", "kept"}

(* _replace_owner compares the record with the one that was read, and      *)
(* writes its own whatever has happened since.                             *)
PromoteCompare(p) == LET g == item[p] IN
    /\ at[p] = "compare" /\ (pending[g] => lock[g] = None)
    /\ IF pending[g] /\ owner[g] = "preserving"
       THEN Moves(p, "swap") /\ lock' = [lock EXCEPT ![g] = p]
       ELSE Leave(p, g, "promote", Superseded(g)) /\ UNCHANGED lock
    /\ UNCHANGED <<main, disk, pending, output, parent, faults>>

PromoteSwap(p) == LET g == item[p] IN
    /\ at[p] = "swap"
    /\ Owned(g, "staged")
    /\ Leave(p, g, "promote", TRUE) /\ Unlocked(p)
    /\ UNCHANGED <<main, container, candidate, pending, output, parent, faults>>

StaleKeepsOwned(p) ==  \* mutant: only what never got its container is removed
    /\ at[p] = "stale"
    /\ \E g \in todo[p] :
          CASE owner[g] = "preserving" -> Leave(p, g, "stale", FALSE)
            [] owner[g] # "pending" \/ Live(g) -> Leave(p, g, "stale", TRUE)
            [] OTHER -> Takes(p, g, "remove")
    /\ UNCHANGED <<main, disk, pending, lock, output, parent, faults>>

(* recover_stale_container_owners                                          *)
StaleRead(p) ==
    /\ at[p] = "stale"
    /\ \E g \in todo[p] :
          CASE owner[g] = "preserving" -> Leave(p, g, "stale", FALSE)
            [] owner[g] \in {"none", "kept"} \/ Live(g) -> Leave(p, g, "stale", TRUE)
            [] OTHER -> Takes(p, g, "remove")
    /\ UNCHANGED <<main, disk, pending, lock, output, parent, faults>>

StaleRemove(p) ==
    /\ at[p] = "remove"
    /\ container' = [container EXCEPT ![item[p]] = "gone"]
    /\ Moves(p, "unlink")
    /\ UNCHANGED <<main, owner, candidate, pending, lock, output, parent, faults>>

(* _unlink_owner removes the record by its name, whatever it says now.     *)
StaleUnlink(p) ==
    /\ at[p] = "unlink"
    /\ Owned(item[p], "none")
    /\ Leave(p, item[p], "stale", TRUE)
    /\ UNCHANGED <<main, container, candidate, pending, lock, output, parent, faults>>

(* The end of publish_pending_output: main requires that its own call      *)
(* published; a recovery only minds an exception.                          *)
Returns(p, g, status) ==
    IF p \in Gen /\ pc[p] = "publish"
    THEN /\ Leave(p, g, "off", TRUE)
         /\ Goes(p, IF status = "published" THEN "done" ELSE "failed")
    ELSE /\ Leave(p, g, "publish", status # "raised")
         /\ UNCHANGED pc

StateOfDead(g) ==  \* mutant: the container of a generator that ended may be up
    owner[g] \in {"none", "kept"} \/ ~Live(g)

(* _pending_owner_state is not "deferred"                                  *)
Finalized(g) == owner[g] \in {"none", "kept"}

PublishLock(p) ==
    /\ at[p] = "publish"
    /\ \E g \in todo[p] :
          /\ pending[g] => lock[g] = None
          /\ IF pending[g] /\ Finalized(g)
             THEN /\ lock' = [lock EXCEPT ![g] = p]
                  /\ Takes(p, g, "prediction")
                  /\ UNCHANGED pc
             ELSE /\ Returns(p, g, "missing or deferred")
                  /\ UNCHANGED lock
    /\ UNCHANGED <<aim, disk, pending, output, parent, faults>>

PublishPrediction(p) ==
    /\ at[p] = "prediction" /\ "prediction" \notin spoiled
    /\ AppendOnce("prediction", item[p])
    /\ Moves(p, "metric")
    /\ UNCHANGED <<main, disk, pending, lock, parent, faults>>

PublishMetric(p) ==
    /\ at[p] = "metric" /\ "metric" \notin spoiled
    /\ AppendOnce("metric", item[p])
    /\ Moves(p, "drop")
    /\ UNCHANGED <<main, disk, pending, lock, parent, faults>>

DropBeforeMetric(p) ==  \* mutant: the file is dropped with the prediction there
    LET g == item[p] IN
    /\ at[p] \in {"metric", "drop"}
    /\ pending' = [pending EXCEPT ![g] = FALSE]
    /\ Returns(p, g, "published") /\ Unlocked(p)
    /\ UNCHANGED <<aim, disk, output, parent, faults>>

(* _unlink_pending_locked                                                  *)
PublishDrop(p) == LET g == item[p] IN
    /\ at[p] = "drop"
    /\ pending' = [pending EXCEPT ![g] = FALSE]
    /\ Returns(p, g, "published") /\ Unlocked(p)
    /\ UNCHANGED <<aim, disk, output, parent, faults>>

(* A malformed line that is terminated fails every later publication.      *)
PublishRaises(p) == LET g == item[p] IN
    /\ at[p] \in spoiled
    /\ Returns(p, g, "raised") /\ Unlocked(p)
    /\ UNCHANGED <<aim, disk, pending, output, parent, faults>>

(* Docker, the disk or a lock held for too long fail one step.             *)
StepFails(p) ==
    /\ Fault
    /\ \E g \in todo[p] :
          /\ item[p] \in {g, None}
          /\ \/ /\ at[p] \in {"compare", "swap"}
                /\ Leave(p, g, "promote", Superseded(g))
                /\ UNCHANGED <<pc, output>>
             \/ /\ at[p] \in {"remove", "unlink"}
                /\ Leave(p, g, "stale", FALSE)
                /\ UNCHANGED <<pc, output>>
             \/ /\ at[p] \in {"publish", "prediction", "metric", "drop"}
                /\ Returns(p, g, "raised")
                /\ \/ UNCHANGED output
                   \/ at[p] \in File /\ Tear(at[p], g)
    /\ Unlocked(p)
    /\ UNCHANGED <<aim, disk, pending, parent>>

Recovers(p) ==
    \/ PhaseOver(p)
    \/ PromoteRead(p) \/ PromoteCompare(p) \/ PromoteSwap(p)
    \/ StaleRead(p) \/ StaleRemove(p) \/ StaleUnlink(p)
    \/ PublishLock(p) \/ PublishPrediction(p)
    \/ PublishMetric(p) \/ PublishDrop(p) \/ PublishRaises(p)

-----------------------------------------------------------------------------
(* main of a generator.                                                    *)

Start(g) ==
    /\ pc[g] = "start"
    /\ Begin(g) /\ Goes(g, "recover")
    /\ UNCHANGED <<aim, disk, pending, lock, output, parent, faults>>

(* start_container_with_marker                                             *)
Create(g) ==
    /\ pc[g] = "create"
    /\ Owned(g, "pending") /\ Goes(g, "docker")
    /\ UNCHANGED <<aim, container, candidate, pending, lock, output, walk, parent, faults>>

Docker(g) ==
    /\ pc[g] = "docker"
    /\ container' = [container EXCEPT ![g] = "there"]
    /\ Owned(g, "active") /\ Goes(g, "setup")
    /\ UNCHANGED <<aim, candidate, pending, lock, output, walk, parent, faults>>

(* The record goes only when the container is proved to be gone.           *)
DockerFails(g) ==
    /\ pc[g] = "docker" /\ Goes(g, "failed")
    /\ \E result \in {"gone", "there"} :
          /\ container' = [container EXCEPT ![g] = result]
          /\ Owned(g, IF result = "gone" THEN "none" ELSE "pending")
    /\ UNCHANGED <<aim, candidate, pending, lock, output, walk, parent, faults>>

SetupFails(g) ==
    /\ pc[g] = "setup"
    /\ Goes(g, "remove") /\ aim' = [aim EXCEPT ![g] = "failed"]
    /\ UNCHANGED <<disk, pending, lock, output, walk, parent, faults>>

(* arm_candidate_retention, before the model can make its candidate.       *)
Arm(g) ==
    /\ pc[g] = "setup"
    /\ Owned(g, "kept") /\ Goes(g, "model")
    /\ candidate' = [candidate EXCEPT ![g] = "sole"]
    /\ UNCHANGED <<aim, container, pending, lock, output, walk, parent, faults>>

(* Without an extraction the container is retained; a run that was stopped *)
(* in order still appends its rows, with an empty patch.                   *)
ModelEnds(g) ==
    /\ pc[g] = "model"
    /\ \E where \in {"failed", "plain"} : Goes(g, where)
    /\ UNCHANGED <<aim, disk, pending, lock, output, walk, parent, faults>>

(* complete_candidate_retention                                            *)
Complete(g) ==
    /\ pc[g] = "model"
    /\ Owned(g, "active") /\ Goes(g, "extracted")
    /\ candidate' = [candidate EXCEPT ![g] = "loose"]
    /\ UNCHANGED <<aim, container, pending, lock, output, walk, parent, faults>>

EmptyPatch(g) ==
    /\ pc[g] = "extracted"
    /\ candidate' = [candidate EXCEPT ![g] = "none"]
    /\ Goes(g, "finalize") /\ aim' = [aim EXCEPT ![g] = "plain"]
    /\ UNCHANGED <<owner, container, pending, lock, output, walk, parent, faults>>

(* persist_pending_output creates the file first.                          *)
Stage(g) ==
    /\ pc[g] = "extracted"
    /\ pending' = [pending EXCEPT ![g] = TRUE]
    /\ candidate' = [candidate EXCEPT ![g] = "saved"]
    /\ Goes(g, "preserve")
    /\ UNCHANGED <<aim, owner, container, lock, output, walk, parent, faults>>

Preserve(g) ==
    /\ pc[g] = "preserve"
    /\ Owned(g, "preserving") /\ Goes(g, "confirm")
    /\ UNCHANGED <<aim, container, candidate, pending, lock, output, walk, parent, faults>>

Confirm(g) ==
    /\ pc[g] = "confirm" /\ owner[g] \in {"preserving", "staged"}
    /\ Owned(g, "staged")
    /\ Goes(g, "finalize") /\ aim' = [aim EXCEPT ![g] = "publish"]
    /\ UNCHANGED <<container, candidate, pending, lock, output, walk, parent, faults>>

(* retain_failed_candidate, for an owner that asks for no preservation.    *)
StagingFails(g) ==
    /\ pc[g] \in {"extracted", "preserve", "confirm"}
    /\ Goes(g, "failed")
    /\ IF owner[g] = "active"
       THEN /\ Owned(g, "kept")
            /\ candidate' = [candidate EXCEPT ![g] = IF pending[g] THEN @ ELSE "sole"]
       ELSE UNCHANGED <<owner, candidate>>
    /\ UNCHANGED <<aim, container, pending, lock, output, walk, parent, faults>>

(* What follows finalization: publish_pending_output of the own file, the   *)
(* plain rows or the exception.                                            *)
Then(g) ==
    /\ Goes(g, aim[g]) /\ aim' = [aim EXCEPT ![g] = "failed"]
    /\ IF aim[g] = "publish"
       THEN /\ at' = [at EXCEPT ![g] = "publish"]
            /\ todo' = [todo EXCEPT ![g] = {g}]
       ELSE UNCHANGED <<at, todo>>
    /\ UNCHANGED <<item, clean>>

(* finalize_container_ownership                                            *)
Finalize(g) ==
    /\ pc[g] = "finalize"
    /\ \/ /\ g \in Keep
          /\ Owned(g, "kept") /\ Then(g)
       \/ /\ Goes(g, "remove")
          /\ \E next \in {aim[g], "failed"} : aim' = [aim EXCEPT ![g] = next]
          /\ UNCHANGED <<owner, walk>>
    /\ UNCHANGED <<container, candidate, pending, lock, output, parent, faults>>

Remove(g) ==
    /\ pc[g] = "remove"
    /\ \/ /\ container' = [container EXCEPT ![g] = "gone"]
          /\ Goes(g, "unlink")
          /\ UNCHANGED aim
       \/ /\ Goes(g, "failed") /\ aim' = [aim EXCEPT ![g] = "failed"]
          /\ UNCHANGED container
    /\ UNCHANGED <<owner, candidate, pending, lock, output, walk, parent, faults>>

Unlink(g) ==
    /\ pc[g] = "unlink"
    /\ Owned(g, "none") /\ Then(g)
    /\ UNCHANGED <<container, candidate, pending, lock, output, parent, faults>>

(* append_output_records                                                   *)
PlainFile == [plain |-> "prediction", metric |-> "metric"]

Plain(g) ==
    /\ pc[g] \in {"plain", "metric"}
    /\ AppendPlain(PlainFile[pc[g]], g)
    /\ Goes(g, IF pc[g] = "plain" THEN "metric" ELSE "done")
    /\ UNCHANGED <<aim, disk, pending, lock, walk, parent, faults>>

PlainFails(g) ==
    /\ pc[g] \in {"plain", "metric"}
    /\ Goes(g, "failed")
    /\ \/ UNCHANGED <<output, faults>>
       \/ Fault /\ Tear(PlainFile[pc[g]], g)
    /\ UNCHANGED <<aim, disk, pending, lock, walk, parent>>

(* SIGKILL, after STOP_GRACE_SECONDS or by the host, wherever it is.       *)
Kill(g) ==
    /\ Live(g) /\ pc[g] # "start"
    /\ Cardinality({h \in Gen : pc[h] = "killed"}) < MaxKills
    /\ Goes(g, "killed") /\ aim' = [aim EXCEPT ![g] = "failed"]
    /\ at' = [at EXCEPT ![g] = "off"] /\ todo' = [todo EXCEPT ![g] = {}]
    /\ item' = [item EXCEPT ![g] = None] /\ clean' = [clean EXCEPT ![g] = TRUE]
    /\ Unlocked(g)
    /\ \/ UNCHANGED <<output, faults>>
       \/ at[g] \in File /\ Fault /\ Tear(at[g], item[g])
       \/ pc[g] \in DOMAIN PlainFile /\ Fault /\ Tear(PlainFile[pc[g]], g)
    /\ UNCHANGED <<disk, pending, parent>>

Main(g) ==
    \/ Start(g) \/ Create(g) \/ Docker(g) \/ DockerFails(g)
    \/ SetupFails(g) \/ Arm(g) \/ ModelEnds(g) \/ Complete(g) \/ EmptyPatch(g)
    \/ Stage(g) \/ Preserve(g) \/ Confirm(g) \/ StagingFails(g)
    \/ Finalize(g) \/ Remove(g) \/ Unlink(g)
    \/ Plain(g) \/ PlainFails(g)

-----------------------------------------------------------------------------
(* _recover_generator_containers: the batch has reaped a generator that    *)
(* died of a signal, or is being stopped (which "remove" of an active      *)
(* owner stands for).  Kept and preserved containers it only isolates.     *)
ParentRead(g) ==
    /\ parent[g] = "watch" /\ ~Live(g)
    /\ owner[g] \notin {"none", "kept", "preserving"}
    /\ \/ /\ pc[g] = "killed" /\ owner[g] = "active" /\ container[g] = "there"
          /\ parent' = [parent EXCEPT ![g] = "mark"]
       \/ parent' = [parent EXCEPT ![g] = "remove"]
    /\ UNCHANGED <<main, disk, pending, lock, output, walk, faults>>

(* mark_container_preservation_required: no record, nothing to mark.       *)
ParentMark(g) ==
    /\ parent[g] = "mark"
    /\ parent' = [parent EXCEPT ![g] = IF owner[g] = "none" THEN "done" ELSE "write"]
    /\ UNCHANGED <<main, disk, pending, lock, output, walk, faults>>

ParentWrite(g) ==
    /\ parent[g] = "write"
    /\ Owned(g, "preserving")
    /\ parent' = [parent EXCEPT ![g] = "done"]
    /\ UNCHANGED <<main, container, candidate, pending, lock, output, walk, faults>>

ParentRemove(g) ==
    /\ parent[g] = "remove"
    /\ \/ /\ container' = [container EXCEPT ![g] = "gone"]
          /\ parent' = [parent EXCEPT ![g] = "unlink"]
       \/ /\ parent' = [parent EXCEPT ![g] = "done"]
          /\ UNCHANGED container
    /\ UNCHANGED <<main, owner, candidate, pending, lock, output, walk, faults>>

ParentUnlink(g) ==
    /\ parent[g] = "unlink"
    /\ Owned(g, "none")
    /\ parent' = [parent EXCEPT ![g] = "done"]
    /\ UNCHANGED <<main, container, candidate, pending, lock, output, walk, faults>>

(* recover_metric_projections, when the generators are through.            *)
Project(g) ==
    /\ \A h \in Gen : ~Live(h)
    /\ rows["prediction"][g] > 0 /\ rows["metric"][g] = 0
    /\ AppendPlain("metric", g)
    /\ UNCHANGED <<main, disk, pending, lock, walk, parent, faults>>

Batch(g) ==
    ParentRead(g) \/ ParentMark(g) \/ ParentWrite(g) \/ ParentRemove(g)
    \/ ParentUnlink(g) \/ Project(g)

-----------------------------------------------------------------------------
(* The batch starts its next generator when one has ended.                 *)
StartLater ==
    /\ at[Later] = "off" /\ \E g \in Gen : ~Live(g)
    /\ Begin(Later)
    /\ UNCHANGED <<main, disk, pending, lock, output, parent, faults>>

Next ==
    \/ \E g \in Gen : Main(g) \/ Kill(g) \/ Batch(g)
    \/ \E p \in Proc : Recovers(p) \/ StepFails(p)
    \/ StartLater

Spec == Init /\ [][Next]_vars

(* Whoever runs goes on, and there is always one more start.  A generator  *)
(* takes finitely many steps, so fairness of one is fairness of each.      *)
FairSpec ==
    /\ Spec
    /\ WF_vars(\E g \in Gen : Main(g) \/ Recovers(g))
    /\ WF_vars(StartLater \/ Recovers(Later))

-----------------------------------------------------------------------------
(* Every variable has its type.                                            *)
TypeOK ==
    /\ pc \in [Gen -> {"start", "recover", "create", "docker", "setup", "model",
                       "extracted", "preserve", "confirm", "finalize", "remove", "unlink",
                       "publish", "plain", "metric",
                       "done", "failed", "killed"}]
    /\ aim \in [Gen -> {"failed", "plain", "publish"}]
    /\ owner \in [Gen -> {"none", "pending", "active", "preserving", "staged", "kept"}]
    /\ container \in [Gen -> {"none", "there", "gone"}]
    /\ candidate \in [Gen -> {"none", "sole", "loose", "saved"}]
    /\ pending \in [Gen -> BOOLEAN] /\ lock \in [Gen -> Proc \cup {None}]
    /\ rows \in [File -> [Gen -> Nat]]
    /\ tail \in [File -> {"end", "torn", "bare"}] /\ spoiled \in SUBSET File
    /\ at \in [Proc -> {"off", "promote", "compare", "swap", "stale", "remove",
                        "unlink", "publish", "prediction", "metric", "drop"}]
    /\ todo \in [Proc -> SUBSET Gen] /\ item \in [Proc -> Gen \cup {None}]
    /\ clean \in [Proc -> BOOLEAN]
    /\ parent \in [Gen -> {"watch", "mark", "write", "remove", "unlink", "done"}]
    /\ faults \in 0..MaxFaults

(* No candidate is written twice, and no metric without its prediction,    *)
(* however many generators, recoveries and batches append the rows of one  *)
(* another and wherever they are killed (_append_jsonl_durable_once,       *)
(* append_output_records, recover_metric_projections).                     *)
PublishedOnce ==
    \A g \in Gen : /\ rows["prediction"][g] <= 1
                   /\ rows["metric"][g] <= rows["prediction"][g]

(* The container with the only copy of a candidate is never removed, and a *)
(* candidate that was staged is in its pending file until both rows are    *)
(* out (arm_candidate_retention, recover_stale_container_owners,           *)
(* _unlink_pending_locked).                                                *)
CandidateSurvives ==
    \A g \in Gen :
        /\ candidate[g] = "sole" => container[g] = "there"
        /\ candidate[g] = "saved" => \/ pending[g]
                                     \/ \A f \in File : rows[f][g] > 0

(* A staged candidate is published after its container is gone or has been *)
(* handed over to the user, whoever publishes it (_pending_owner_state).   *)
PublishedAfterFinalization ==
    \A g \in Gen : candidate[g] = "saved" /\ rows["prediction"][g] > 0
                       => container[g] # "there" \/ owner[g] = "kept"

(* What a generator staged is published by some later start, wherever the  *)
(* generator died and whatever its batch and the other recoveries did in   *)
(* between, unless a malformed line is in the way (recover_generation_state *)
(* promotes, then removes, then publishes).                                *)
StagedIsPublished ==
    \A g \in Gen : (pending[g] /\ ~Live(g)) ~> (~pending[g] \/ spoiled # {})
=============================================================================
