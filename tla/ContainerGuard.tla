---------------------------- MODULE ContainerGuard ----------------------------
(***************************************************************************)
(* The guard of a command in a container                                   *)
(* (commands/container_process_guard.py): "run" starts the command in a    *)
(* session of its own and records it in the pidfile, "stop" ends it from   *)
(* another process, "prepare" readies the same pidfile for the next run.   *)
(* They share the pidfile, the cancel marker and the owner lock only.      *)
(*                                                                         *)
(* A run's name stands for its nonce, its session id and the start         *)
(* identity of the session's leader, its child; process ids are not        *)
(* reused.  A record is written at once, and no file is malformed.         *)
(***************************************************************************)
EXTENDS Naturals, FiniteSets

CONSTANTS
    Run,      \* calls of run
    Stop,     \* calls of stop
    Prepare,  \* calls of prepare
    None

Caller == Stop \cup Prepare

ASSUME GuardAssumption ==
    /\ IsFiniteSet(Run) /\ None \notin Run
    /\ Stop \cap Prepare = {}

VARIABLES
    run,      \* where each guard is
    rec,      \* its record: none, its own from the pidfile or one it built
    asked,    \* signals to the guard, and what it made of them
    child,    \* the leader of its session
    kids,     \* whether the session has other members
    call,     \* where each stop and prepare is
    target,   \* the record it has read
    pidfile,  \* the run whose record is in the pidfile
    cancel    \* the cancel marker exists

guardVars == <<run, rec, asked>>
session == <<child, kids>>
callVars == <<call, target>>
vars == <<guardVars, session, callVars, pidfile, cancel>>

Init ==
    /\ run = [r \in Run |-> "idle"]
    /\ rec = [r \in Run |-> "none"]
    /\ asked = [r \in Run |-> "no"]
    /\ child = [r \in Run |-> "none"]
    /\ kids = [r \in Run |-> FALSE]
    /\ call = [c \in Caller |-> "idle"]
    /\ target = [c \in Caller |-> None]
    /\ pidfile = None /\ cancel = FALSE

-----------------------------------------------------------------------------
(* The owner lock is an flock: a child that has not yet closed its copy of *)
(* the descriptor holds it too.                                            *)
Guarding == {"look", "fork", "watch", "reaped", "terminate", "remove"}
Locking == {"held", "term_untrusted", "kill_untrusted", "remove", "unlink"}

LockFree ==
    /\ \A r \in Run : run[r] \notin Guarding /\ child[r] # "forked"
    /\ \A c \in Caller : call[c] \notin Locking

GuardAt(r, pc) == run' = [run EXCEPT ![r] = pc]
CallAt(c, pc) == call' = [call EXCEPT ![c] = pc]
ChildAt(r, pc) == child' = [child EXCEPT ![r] = pc]

Executing(r) == child[r] = "exec" \/ kids[r]

(* The leader after a SIGKILL, and what a signal some ignore leaves of kids *)
Ended(r) == IF child[r] \in {"recorded", "exec"} THEN "zombie" ELSE child[r]
KidsLeft(r) == {kids, [kids EXCEPT ![r] = FALSE]}

-----------------------------------------------------------------------------
(* run                                                                     *)

RunLocks(r) ==
    /\ run[r] = "idle"
    /\ IF LockFree THEN GuardAt(r, "look") ELSE GuardAt(r, "error")
    /\ UNCHANGED <<rec, asked, session, callVars, pidfile, cancel>>

RunLooks(r) ==
    /\ run[r] = "look"
    /\ IF pidfile = None THEN GuardAt(r, "fork") ELSE GuardAt(r, "error")
    /\ UNCHANGED <<rec, asked, session, callVars, pidfile, cancel>>

RunForks(r) ==
    /\ run[r] = "fork"
    /\ IF cancel
       THEN GuardAt(r, "error") /\ UNCHANGED child
       ELSE GuardAt(r, "watch") /\ ChildAt(r, "forked")
    /\ UNCHANGED <<rec, asked, kids, callVars, pidfile, cancel>>

(* The watching loop keeps a record of its own nonce only.                 *)
ReadRecordUnasked(r) ==  \* mutant: a signalled guard no longer reads it
    /\ run[r] = "watch" /\ rec[r] = "none" /\ pidfile = r
    /\ asked[r] = "no"
    /\ rec' = [rec EXCEPT ![r] = "own"]
    /\ UNCHANGED <<run, asked, session, callVars, pidfile, cancel>>

ReadRecord(r) ==
    /\ run[r] = "watch" /\ rec[r] = "none" /\ pidfile = r
    /\ rec' = [rec EXCEPT ![r] = "own"]
    /\ UNCHANGED <<run, asked, session, callVars, pidfile, cancel>>

(* The group is killed first, which ends the leader; finding the other      *)
(* members may fail, and is then tried again although the run has failed.   *)
SignalOwn(r) ==
    /\ run[r] = "watch" /\ rec[r] = "own" /\ asked[r] \in {"asked", "failed"}
    /\ ChildAt(r, Ended(r))
    /\ kids' \in KidsLeft(r)
    /\ IF asked[r] = "asked"
       THEN \E how \in {"done", "failed"} : asked' = [asked EXCEPT ![r] = how]
       ELSE UNCHANGED asked
    /\ UNCHANGED <<run, rec, callVars, pidfile, cancel>>

Reap(r) ==
    /\ run[r] = "watch" /\ child[r] = "zombie"
    /\ ChildAt(r, "gone")
    /\ GuardAt(r, "reaped")
    /\ UNCHANGED <<rec, asked, kids, callVars, pidfile, cancel>>

(* Without a record a child that never wrote one is assumed; the record of  *)
(* another run leaves none at all, and the guard fails on it.              *)
Settle(r) ==
    /\ run[r] = "reaped"
    /\ \/ rec[r] = "own" /\ UNCHANGED rec /\ GuardAt(r, "terminate")
       \/ /\ rec[r] = "none"
          /\ IF pidfile \in {r, None}
             THEN /\ rec' = [rec EXCEPT ![r] = IF pidfile = r THEN "own" ELSE "built"]
                  /\ GuardAt(r, "terminate")
             ELSE UNCHANGED rec /\ GuardAt(r, "error")
    /\ UNCHANGED <<asked, session, callVars, pidfile, cancel>>

(* _terminate_session with the leader reaped: the members one by one, until *)
(* none is found, or an error.                                             *)
Terminate(r) ==
    /\ run[r] = "terminate"
    /\ \/ /\ asked[r] # "failed"
          /\ kids' = [kids EXCEPT ![r] = FALSE]
          /\ GuardAt(r, "remove")
       \/ kids' \in KidsLeft(r) /\ GuardAt(r, "error")
    /\ UNCHANGED <<rec, asked, child, callVars, pidfile, cancel>>

(* _remove_owned_record                                                    *)
RunRemoves(r) ==
    /\ run[r] = "remove"
    /\ pidfile' = IF pidfile = r THEN None ELSE pidfile
    /\ GuardAt(r, "ended")
    /\ UNCHANGED <<rec, asked, session, callVars, cancel>>

GuardStep(r) ==
    \/ RunLooks(r) \/ RunForks(r) \/ ReadRecord(r) \/ SignalOwn(r)
    \/ Reap(r) \/ Settle(r) \/ Terminate(r) \/ RunRemoves(r)

(* SIGINT, SIGTERM or SIGHUP                                               *)
Interrupt(r) ==
    /\ run[r] \in {"watch", "reaped", "terminate", "remove"} /\ asked[r] = "no"
    /\ asked' = [asked EXCEPT ![r] = "asked"]
    /\ UNCHANGED <<run, rec, session, callVars, pidfile, cancel>>

GuardKilled(r) ==
    /\ run[r] \in Guarding
    /\ GuardAt(r, "killed")
    /\ UNCHANGED <<rec, asked, session, callVars, pidfile, cancel>>

-----------------------------------------------------------------------------
(* _child_main and the command                                             *)

ChildCloses(r) ==
    /\ child[r] = "forked"
    /\ ChildAt(r, "born")
    /\ UNCHANGED <<guardVars, kids, callVars, pidfile, cancel>>

ChildRecordsOver(r) ==  \* mutant: the record is replaced, not created
    /\ child[r] = "born"
    /\ pidfile' = r /\ ChildAt(r, "recorded")
    /\ UNCHANGED <<guardVars, kids, callVars, cancel>>

(* An existing record is never replaced.                                   *)
ChildRecords(r) ==
    /\ child[r] = "born"
    /\ IF pidfile = None
       THEN pidfile' = r /\ ChildAt(r, "recorded")
       ELSE UNCHANGED pidfile /\ ChildAt(r, "zombie")
    /\ UNCHANGED <<guardVars, kids, callVars, cancel>>

ChildStartsAnyway(r) ==  \* mutant: the marker is looked at before the fork only
    /\ child[r] = "recorded"
    /\ ChildAt(r, "exec")
    /\ UNCHANGED <<guardVars, kids, callVars, pidfile, cancel>>

ChildStarts(r) ==
    /\ child[r] = "recorded"
    /\ IF cancel THEN ChildAt(r, "zombie") ELSE ChildAt(r, "exec")
    /\ UNCHANGED <<guardVars, kids, callVars, pidfile, cancel>>

ChildStep(r) == ChildCloses(r) \/ ChildRecords(r) \/ ChildStarts(r)

CommandForks(r) ==
    /\ child[r] = "exec" /\ ~kids[r]
    /\ kids' = [kids EXCEPT ![r] = TRUE]
    /\ UNCHANGED <<guardVars, child, callVars, pidfile, cancel>>

CommandExits(r) ==
    /\ child[r] = "exec"
    /\ ChildAt(r, "zombie")
    /\ UNCHANGED <<guardVars, kids, callVars, pidfile, cancel>>

KidsExit(r) ==
    /\ kids[r]
    /\ kids' = [kids EXCEPT ![r] = FALSE]
    /\ UNCHANGED <<guardVars, child, callVars, pidfile, cancel>>

(* Without its guard a child is reaped by init.                            *)
InitReaps(r) ==
    /\ child[r] = "zombie" /\ run[r] = "killed"
    /\ ChildAt(r, "gone")
    /\ UNCHANGED <<guardVars, kids, callVars, pidfile, cancel>>

-----------------------------------------------------------------------------
(* stop and prepare                                                        *)

StopMarks(c) ==
    /\ c \in Stop /\ call[c] = "idle"
    /\ cancel' = TRUE
    /\ CallAt(c, "marked")
    /\ UNCHANGED <<guardVars, session, target, pidfile>>

StopLocks(c) ==
    /\ call[c] = "marked"
    /\ IF LockFree THEN CallAt(c, "held") ELSE CallAt(c, "wait")
    /\ UNCHANGED <<guardVars, session, target, pidfile, cancel>>

PrepareLocks(c) ==
    /\ c \in Prepare /\ call[c] = "idle"
    /\ IF LockFree THEN CallAt(c, "held") ELSE CallAt(c, "error")
    /\ UNCHANGED <<guardVars, session, target, pidfile, cancel>>

Looks(c) ==
    /\ call[c] = "held"
    /\ IF pidfile = None
       THEN /\ CallAt(c, IF c \in Stop THEN "ok" ELSE "unlink")
            /\ UNCHANGED target
       ELSE /\ CallAt(c, "term_untrusted")
            /\ target' = [target EXCEPT ![c] = pidfile]
    /\ UNCHANGED <<guardVars, session, pidfile, cancel>>

(* _wait_for_record of a stop that did not get the lock.                   *)
WaitsForRecord(c) ==
    /\ call[c] = "wait" /\ pidfile # None
    /\ CallAt(c, "term_trusted")
    /\ target' = [target EXCEPT ![c] = pidfile]
    /\ UNCHANGED <<guardVars, session, pidfile, cancel>>

(* Two seconds without a record, three without the lock.                   *)
StopTimesOut(c) ==
    /\ call[c] \in {"wait", "await_lock"}
    /\ CallAt(c, "error")
    /\ UNCHANGED <<guardVars, session, target, pidfile, cancel>>

(* _terminate_session: SIGTERM to the group, which some members heed, and   *)
(* then SIGKILL until none is left.  Before each signal an untrusted record *)
(* must still name a process with its start identity.                      *)
Identified(r) == child[r] # "gone"

Refused(c) ==
    /\ call[c] \in {"term_untrusted", "kill_untrusted"}
    /\ ~Identified(target[c])
    /\ CallAt(c, "error")
    /\ UNCHANGED <<guardVars, session, target, pidfile, cancel>>

Terms(c) ==
    /\ \/ call[c] = "term_trusted" /\ CallAt(c, "kill_trusted")
       \/ /\ call[c] = "term_untrusted" /\ Identified(target[c])
          /\ CallAt(c, "kill_untrusted")
    /\ \E leader \in {child[target[c]], Ended(target[c])} : ChildAt(target[c], leader)
    /\ kids' \in KidsLeft(target[c])
    /\ UNCHANGED <<guardVars, target, pidfile, cancel>>

Kills(c) ==
    /\ \/ call[c] = "kill_trusted" /\ CallAt(c, "await_lock")
       \/ /\ call[c] = "kill_untrusted" /\ Identified(target[c])
          /\ CallAt(c, "remove")
    /\ ChildAt(target[c], Ended(target[c]))
    /\ kids' = [kids EXCEPT ![target[c]] = FALSE]
    /\ UNCHANGED <<guardVars, target, pidfile, cancel>>

(* A member remains, the members cannot be listed, or the leader is gone    *)
(* before the next signal.                                                 *)
KillFails(c) ==
    /\ call[c] \in {"kill_trusted", "kill_untrusted"}
    /\ \E leader \in {child[target[c]], Ended(target[c])} : ChildAt(target[c], leader)
    /\ kids' \in KidsLeft(target[c])
    /\ CallAt(c, "error")
    /\ UNCHANGED <<guardVars, target, pidfile, cancel>>

Unrecorded(c) == IF pidfile = target[c] THEN None ELSE pidfile

Removes(c) ==
    /\ call[c] = "remove"
    /\ pidfile' = Unrecorded(c)
    /\ CallAt(c, IF c \in Stop THEN "ok" ELSE "unlink")
    /\ UNCHANGED <<guardVars, session, target, cancel>>

StopEndsRemoving(c) ==  \* mutant: whatever record is there is removed
    /\ call[c] = "await_lock" /\ LockFree
    /\ pidfile' = None
    /\ CallAt(c, "ok")
    /\ UNCHANGED <<guardVars, session, target, cancel>>

(* The guard has let go of the lock; the record goes if it is the same.    *)
StopEnds(c) ==
    /\ call[c] = "await_lock" /\ LockFree
    /\ pidfile' = Unrecorded(c)
    /\ CallAt(c, "ok")
    /\ UNCHANGED <<guardVars, session, target, cancel>>

PrepareEnds(c) ==
    /\ call[c] = "unlink"
    /\ cancel' = FALSE
    /\ CallAt(c, "ok")
    /\ UNCHANGED <<guardVars, session, target, pidfile>>

CallKilled(c) ==
    /\ call[c] \notin {"idle", "ok", "error", "killed"}
    /\ CallAt(c, "killed")
    /\ UNCHANGED <<guardVars, session, target, pidfile, cancel>>

CallStep(c) ==
    \/ StopMarks(c) \/ StopLocks(c) \/ PrepareLocks(c) \/ Looks(c)
    \/ WaitsForRecord(c) \/ StopTimesOut(c) \/ Refused(c) \/ Terms(c)
    \/ Kills(c) \/ KillFails(c) \/ Removes(c) \/ StopEnds(c) \/ PrepareEnds(c)

-----------------------------------------------------------------------------
Next ==
    \/ \E r \in Run :
           \/ RunLocks(r) \/ GuardStep(r) \/ Interrupt(r) \/ GuardKilled(r)
           \/ ChildStep(r) \/ CommandForks(r) \/ CommandExits(r)
           \/ KidsExit(r) \/ InitReaps(r)
    \/ \E c \in Caller : CallStep(c) \/ CallKilled(c)

(* A guard polls every 50 ms and a child runs up to its command.  Neither   *)
(* the command nor anybody outside the guard is expected to do anything.   *)
Spec == /\ Init /\ [][Next]_vars
        /\ \A r \in Run : WF_vars(GuardStep(r)) /\ WF_vars(ChildStep(r))

-----------------------------------------------------------------------------
TypeOK ==
    /\ run \in [Run -> Guarding \cup {"idle", "ended", "error", "killed"}]
    /\ rec \in [Run -> {"none", "own", "built"}]
    /\ asked \in [Run -> {"no", "asked", "done", "failed"}]
    /\ child \in [Run -> {"none", "forked", "born", "recorded", "exec", "zombie", "gone"}]
    /\ kids \in [Run -> BOOLEAN]
    /\ call \in [Caller -> Locking \cup {"idle", "marked", "wait", "term_trusted",
                                         "kill_trusted", "await_lock", "ok", "error", "killed"}]
    /\ target \in [Caller -> Run \cup {None}]
    /\ pidfile \in Run \cup {None} /\ cancel \in BOOLEAN

(* The marker has been there since this stop put it: no prepare has ended,  *)
(* or no other stop can have put it back.  call keeps no order between      *)
(* prepares and other stops, and without it nothing is said.               *)
StillMarked(s) ==
    cancel /\ \/ \A p \in Prepare : call[p] # "ok"
              \/ \A d \in Stop \ {s} : call[d] = "idle"

(* A stop that reports success has ended the command and everything it     *)
(* started, and nothing starts any more until the next prepare: not a run   *)
(* that comes late and not a child that was already on its way, whoever     *)
(* was killed meanwhile (stop, _child_main).                               *)
StoppedMeansQuiet ==
    \A s \in Stop : StillMarked(s) /\ call[s] = "ok" => \A r \in Run : ~Executing(r)

(* One pidfile never has two commands, also after a guard was killed at any *)
(* point and its child lives on (the record, O_EXCL and the owner lock).   *)
OneCommand == Cardinality({r \in Run : Executing(r)}) <= 1

(* The record of a session is removed only when the session is empty, so    *)
(* that whoever comes next finds what still runs (_remove_owned_record).   *)
RecordOutlivesSession ==
    [][pidfile # None /\ pidfile' # pidfile => ~Executing(pidfile)]_vars

(* A guard that gets a signal ends, also when the signal comes before its   *)
(* child has written the record and when the command ignores signals (run). *)
InterruptedRunEnds ==
    \A r \in Run : asked[r] # "no" ~> run[r] \in {"ended", "error", "killed"}
=============================================================================
