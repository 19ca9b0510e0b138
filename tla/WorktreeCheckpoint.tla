------------------------- MODULE WorktreeCheckpoint -------------------------
(***************************************************************************)
(* The worktree checkpoint of one evaluation (engine/swe_checkpoint.py):   *)
(* a patch file and a metadata file beside it, written one after the other *)
(* by a periodic task and by the final capture that stop() makes, and read *)
(* back by the next life of the evaluation.                                *)
(*                                                                         *)
(* The content of a patch is the number of units of work in it.  Captures  *)
(* only read the worktree; injected tests are excluded from what they read.*)
(***************************************************************************)
EXTENDS Naturals

CONSTANTS
    MaxWork,    \* bound: units of work in the worktree
    IOFaults    \* commands and writes may fail

ASSUME MaxWorkAssumption == MaxWork \in Nat
ASSUME IOFaultsAssumption == IOFaults \in BOOLEAN

VARIABLES
    work,       \* the work in the worktree
    patch,      \* CHECKPOINT_PATCH; 0: no such file
    meta,       \* CHECKPOINT_META
    saver,      \* the periodic task, the task of stop(), a command of the restore
    stop,       \* the stop event
    asked,      \* tasks that were cancelled and need not have noticed
    saved       \* ghost: what the last complete capture wrote

files == <<patch, meta, saved>>
checkpoint == <<files, saver, stop>>

Meta(of, eligible) == [of |-> of, eligible |-> eligible]
NoMeta == Meta(0, FALSE)  \* none, or that of an empty diff: no patch goes with it
Savers == {"periodic", "final", "leftover"}
NoSavers == [c \in Savers |-> "none"]

CheckpointInit ==
    /\ work = 0 /\ patch = 0
    /\ meta = NoMeta
    /\ saver = NoSavers
    /\ stop = FALSE /\ asked = {} /\ saved = 0

Captures == {"periodic", "final"}
SaverLive(c) == saver[c] \in {"idle", "waits", "reading", "lingers"}

(* _checkpoint_meta_integrity_error: the checksum of the patch.            *)
Intact == patch # 0 /\ meta.of = patch

(* restore_latest up to its precheck.                                      *)
Restorable == Intact /\ meta.eligible

-----------------------------------------------------------------------------
(* start() *)
StartSaving ==
    /\ saver' = [saver EXCEPT !.periodic = "idle"]
    /\ UNCHANGED <<files, stop>>

IntervalPasses ==
    /\ saver.periodic = "idle" /\ ~stop
    /\ saver' = [saver EXCEPT !.periodic = "reading"]
    /\ UNCHANGED <<work, files, stop, asked>>

PeriodicReturns ==
    /\ saver.periodic = "idle" /\ stop
    /\ saver' = [saver EXCEPT !.periodic = "done"]
    /\ UNCHANGED <<work, files, stop, asked>>

StopUnawaited ==  \* mutant: the periodic task is not awaited
    /\ saver.final = "waits"
    /\ saver' = [saver EXCEPT !.final = "reading"]
    /\ UNCHANGED <<work, files, stop, asked>>

(* stop() awaits the periodic task; one that was cancelled cancels stop()  *)
(* as well, and one that raised is only noted.                             *)
StopAwaits ==
    /\ saver.final = "waits" /\ ~SaverLive("periodic")
    /\ saver' = [saver EXCEPT !.final =
                    IF saver.periodic = "cancelled" THEN "cancelled" ELSE "reading"]
    /\ UNCHANGED <<work, files, stop, asked>>

(* What a capture that succeeds leaves; an empty diff removes the patch.   *)
Written == [patch |-> work,
            meta |-> IF work > 0 THEN Meta(work, TRUE) ELSE NoMeta]

(* _write_failure endorses a preserved patch only as far as its metadata.  *)
Preserved == [patch |-> patch,
              meta |-> Meta(patch, Restorable)]

(* Otherwise: the diff or the patch could not be had or written, and that  *)
(* was recorded or could not be; the metadata could not be written and the *)
(* patch was rolled back, or could not be.                                 *)
Failures == {Preserved, [patch |-> patch, meta |-> meta], [patch |-> work, meta |-> meta]}

(* capture() after its command: no await, so no other task comes between.  *)
CaptureEnds(c, usable) ==
    /\ saver[c] = "reading"
    /\ \/ /\ usable
          /\ patch' = Written.patch /\ meta' = Written.meta /\ saved' = work
       \/ /\ ~usable
          /\ \E end \in {Preserved, [patch |-> patch, meta |-> meta]} :
                patch' = end.patch /\ meta' = end.meta
          /\ UNCHANGED saved
       \/ /\ usable /\ IOFaults
          /\ \E end \in Failures : patch' = end.patch /\ meta' = end.meta
          /\ UNCHANGED saved
    /\ saver' = [saver EXCEPT ![c] = IF c = "periodic" THEN "idle" ELSE "done"]
    /\ UNCHANGED <<work, stop, asked>>

(* An exception that capture() lets through ends its task.                 *)
CaptureRaises(c) ==
    /\ saver[c] = "reading" /\ IOFaults
    /\ saver' = [saver EXCEPT ![c] = "failed"]
    /\ UNCHANGED <<work, files, stop, asked>>

SaverCancelled(c) ==
    /\ SaverLive(c) /\ c \in asked
    /\ c = "final" => ~SaverLive("periodic")
    /\ saver' = [saver EXCEPT ![c] = "cancelled"]
    /\ UNCHANGED <<work, files, stop, asked>>

(* A process that dies may do so between the two writes.                   *)
FilesAfterCrash(usable) ==
    {patch} \cup (IF usable /\ \E c \in Captures : saver[c] = "reading" THEN {work} ELSE {})

(* _owned_operations: the removal of the patch file, or the proof, that    *)
(* restore_latest no longer waits for.                                     *)
LeftoverEnds ==
    /\ saver.leftover = "lingers"
    /\ saver' = [saver EXCEPT !.leftover = "none"]
    /\ UNCHANGED <<work, files, stop, asked>>

SaverStep(usable) ==
    \/ IntervalPasses
    \/ PeriodicReturns
    \/ StopAwaits
    \/ LeftoverEnds
    \/ \E c \in Captures :
          \/ CaptureEnds(c, usable)
          \/ CaptureRaises(c)
          \/ SaverCancelled(c)

-----------------------------------------------------------------------------
CheckpointTypeOK ==
    /\ work \in 0..MaxWork /\ patch \in 0..MaxWork /\ saved \in 0..MaxWork
    /\ meta \in [of : 0..MaxWork, eligible : BOOLEAN]
    /\ saver \in [Savers -> {"none", "idle", "waits", "reading", "lingers",
                             "done", "failed", "cancelled"}]
    /\ stop \in BOOLEAN
=============================================================================
