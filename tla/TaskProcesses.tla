---------------------------- MODULE TaskProcesses ----------------------------
(***************************************************************************)
(* The process groups a batch controller starts (run_task_process and the  *)
(* registry in swe_g11_parallel_process.py), the worker threads that run   *)
(* them (run_one), and the signals, failures and ends of run_parallel,     *)
(* which all happen to the main thread.                                    *)
(*                                                                         *)
(* A thread has one group at a time, so the thread names it.  A group ends *)
(* as a whole; what a group leaves running after its pipes are closed, and *)
(* the reuse of process ids, are left out.                                 *)
(***************************************************************************)
EXTENDS Naturals

CONSTANTS
    Worker,      \* the threads of the pool, one task each
    Main,        \* the main thread: it runs the preflight process itself
    RunnerAttempts,
    MaxSignals   \* bound: signals sent to the controller

ASSUME MainAssumption == Main \notin Worker
ASSUME BoundsAssumption == RunnerAttempts \in Nat /\ MaxSignals \in Nat

Thread == Worker \cup {Main}

VARIABLES
    pc,         \* where each thread is in run_one and run_task_process
    launches,   \* processes started by each thread
    child,      \* its process group
    deaf,       \* the group does not end on SIGTERM
    snapshot,   \* _ACTIVE_SNAPSHOT
    flag,       \* _INTERRUPTED
    pending,    \* a signal no Python handler has run for
    handling,   \* the handler has set the flag and not yet signalled
    signals,
    main,       \* where run_parallel is
    targets     \* the groups terminate_active_task_groups has read

groups == <<child, deaf>>
threads == <<pc, launches>>
control == <<flag, pending, handling, signals>>
vars == <<threads, groups, snapshot, control, main, targets>>

Init ==
    /\ pc = [t \in Thread |-> IF t = Main THEN "launch" ELSE "new"]
    /\ launches = [t \in Thread |-> 0]
    /\ child = [t \in Thread |-> "none"]
    /\ deaf = [t \in Thread |-> FALSE]
    /\ snapshot = {} /\ targets = {}
    /\ flag = FALSE /\ pending = FALSE /\ handling = FALSE /\ signals = 0
    /\ main = "preflight"

At(t, where) == pc' = [pc EXCEPT ![t] = where]

(* The handler runs in the main thread: nothing else does meanwhile.       *)
Runs(t) == t = Main => main = "preflight" /\ ~handling

(* killpg(SIGTERM) of some groups, and the end of one.                     *)
Ask(G) == child' = [t \in Thread |->
                      IF t \in G /\ child[t] = "runs" THEN "asked" ELSE child[t]]
End(G) ==
    /\ child' = [t \in Thread |-> IF t \in G /\ child[t] # "none" THEN "gone" ELSE child[t]]
    /\ deaf' = [t \in Thread |-> deaf[t] /\ t \notin G]

-----------------------------------------------------------------------------
(* run_task_process                                                        *)

Popen(t) ==
    /\ Runs(t) /\ pc[t] = "launch"
    /\ \E d \in BOOLEAN : deaf' = [deaf EXCEPT ![t] = d]
    /\ child' = [child EXCEPT ![t] = "runs"]
    /\ launches' = [launches EXCEPT ![t] = @ + 1]
    /\ At(t, "spawned")
    /\ UNCHANGED <<snapshot, control, main, targets>>

PopenFails(t) ==
    /\ Runs(t) /\ pc[t] = "launch"
    /\ At(t, "done")
    /\ UNCHANGED <<launches, groups, snapshot, control, main, targets>>

Register(t) ==
    /\ Runs(t) /\ pc[t] = "spawned"
    /\ snapshot' = snapshot \cup {t}
    /\ At(t, "owned")
    /\ UNCHANGED <<launches, groups, control, main, targets>>

WaitAnyway(t) ==  \* mutant: the flag is not looked at after the registration
    /\ Runs(t) /\ pc[t] = "owned"
    /\ At(t, "waits")
    /\ UNCHANGED <<launches, groups, snapshot, control, main, targets>>

Check(t) ==
    /\ Runs(t) /\ pc[t] = "owned"
    /\ At(t, IF flag THEN "ending" ELSE "waits")
    /\ UNCHANGED <<launches, groups, snapshot, control, main, targets>>

(* communicate returns.                                                    *)
Communicated(t) ==
    /\ Runs(t) /\ pc[t] = "waits" /\ child[t] = "gone"
    /\ At(t, "returned")
    /\ UNCHANGED <<launches, groups, snapshot, control, main, targets>>

(* terminate_local_process_group: SIGTERM, then SIGKILL after the grace.   *)
AskGroup(t) ==
    /\ Runs(t) /\ pc[t] = "ending"
    /\ Ask({t})
    /\ At(t, "grace")
    /\ UNCHANGED <<launches, deaf, snapshot, control, main, targets>>

EndGroup(t) ==
    /\ Runs(t) /\ pc[t] = "grace"
    /\ End({t})
    /\ At(t, "failed")
    /\ UNCHANGED <<launches, snapshot, control, main, targets>>

(* The finally.  An exception ends run_one, and the preflight of Main.     *)
Discard(t) ==
    /\ Runs(t) /\ pc[t] \in {"returned", "failed"}
    /\ snapshot' = snapshot \ {t}
    /\ At(t, IF t \in Worker /\ pc[t] = "returned" THEN "decide" ELSE "done")
    /\ main' = IF t = Main /\ pc[t] = "failed" THEN "except" ELSE main
    /\ UNCHANGED <<launches, groups, control, targets>>

-----------------------------------------------------------------------------
(* run_one after a process has ended: with a terminal report, none, or a   *)
(* retryable one, which is retried at once or after a delay.               *)
Decide(t) ==
    /\ pc[t] = "decide"
    /\ \/ At(t, "done")
       \/ /\ launches[t] < RunnerAttempts /\ ~flag
          /\ \E next \in {"launch", "sleep"} : At(t, next)
    /\ UNCHANGED <<launches, groups, snapshot, control, main, targets>>

(* The delay itself is not interruptible.                                  *)
Wake(t) ==
    /\ pc[t] = "sleep"
    /\ At(t, "launch")
    /\ UNCHANGED <<launches, groups, snapshot, control, main, targets>>

ThreadStep(t) ==
    \/ Popen(t) \/ PopenFails(t) \/ Register(t) \/ Check(t) \/ Communicated(t)
    \/ AskGroup(t) \/ EndGroup(t) \/ Discard(t) \/ Decide(t) \/ Wake(t)

ChildEnds(t) ==
    /\ child[t] \in {"runs", "asked"}
    /\ End({t})
    /\ UNCHANGED <<threads, snapshot, control, main, targets>>

ChildObeys(t) == child[t] = "asked" /\ ~deaf[t] /\ ChildEnds(t)

-----------------------------------------------------------------------------
(* run_parallel                                                            *)

Goto(from, to) == main = from /\ ~handling /\ main' = to

(* prepare_runtime ran, failed with an Exception, or was not asked for.    *)
PreflightOver ==
    /\ Goto("preflight", "probe")
    /\ pc[Main] \in {"launch", "done"}
    /\ At(Main, "done")
    /\ UNCHANGED <<launches, groups, snapshot, control, targets>>

(* wait_for_remote_model_probe: it has a deadline of its own.              *)
Probed ==
    /\ Goto("probe", "loop")
    /\ UNCHANGED <<threads, groups, snapshot, control, targets>>

Submit ==
    /\ Goto("loop", "loop")
    /\ \E w \in Worker : pc[w] = "new" /\ At(w, "launch")
    /\ UNCHANGED <<launches, groups, snapshot, control, targets>>

(* A halt leaves the rest of the tasks out.                                *)
LoopOver ==
    /\ Goto("loop", "publish")
    /\ \A w \in Worker : pc[w] \in {"new", "done"}
    /\ UNCHANGED <<threads, groups, snapshot, control, targets>>

Published ==
    /\ Goto("publish", "finally")
    /\ UNCHANGED <<threads, groups, snapshot, control, targets>>

(* The executor's exit waits for what was submitted.                       *)
PoolIdle ==
    /\ Goto("shutdown", "except")
    /\ \A w \in Worker : pc[w] \in {"new", "done"}
    /\ UNCHANGED <<threads, groups, snapshot, control, targets>>

Except ==
    /\ Goto("except", "finally")
    /\ flag' = TRUE
    /\ UNCHANGED <<threads, groups, snapshot, pending, handling, signals, targets>>

(* terminate_active_task_groups                                            *)
AskActive ==
    /\ Goto("finally", "asked")
    /\ targets' = snapshot
    /\ Ask(snapshot)
    /\ UNCHANGED <<threads, deaf, snapshot, control>>

EndActive ==
    /\ Goto("asked", "atexit")
    /\ End(targets)
    /\ targets' = {}
    /\ UNCHANGED <<threads, snapshot, control>>

(* The interpreter joins the threads of the pool.                          *)
Exit ==
    /\ Goto("atexit", "exited")
    /\ \A w \in Worker : pc[w] \in {"new", "done"}
    /\ UNCHANGED <<threads, groups, snapshot, control, targets>>

MainStep ==
    \/ PreflightOver \/ Probed \/ Submit \/ LoopOver \/ Published
    \/ PoolIdle \/ Except \/ AskActive \/ EndActive \/ Exit

(* Where an exception of the main thread goes.                             *)
Unwind ==
    main' = CASE main = "loop" -> "shutdown"
              [] main \in {"probe", "publish", "shutdown", "preflight"} -> "except"
              [] main = "except" -> "finally"
              [] main \in {"finally", "asked"} -> "atexit"

(* A probe that stays down, a file that cannot be written.                 *)
MainFails ==
    /\ main \in {"probe", "loop", "publish"} /\ ~handling
    /\ Unwind
    /\ UNCHANGED <<threads, groups, snapshot, control, targets>>

-----------------------------------------------------------------------------
(* Signals, while the handlers of install_signal_handlers are in place.    *)

Handled == main \notin {"atexit", "exited"}

Signal ==
    /\ Handled /\ signals < MaxSignals
    /\ pending' = TRUE
    /\ signals' = signals + 1
    /\ UNCHANGED <<threads, groups, snapshot, flag, handling, main, targets>>

NeverDeferred == FALSE  \* mutant: the spawn does not block signals

(* _block_local_spawn_signals, until the main thread has registered.       *)
Deferred == main = "preflight" /\ pc[Main] = "spawned"

(* set_interrupted; also from within the handler itself.                   *)
Interrupt ==
    /\ Handled /\ pending /\ ~Deferred
    /\ flag' = TRUE
    /\ handling' = TRUE
    /\ pending' = FALSE
    /\ UNCHANGED <<threads, groups, snapshot, signals, main, targets>>

(* The exception inside run_task_process of the preflight.                 *)
UnwindPreflight ==
    CASE pc[Main] \in {"owned", "waits"} -> At(Main, "ending") /\ UNCHANGED main
      [] pc[Main] = "ending" -> At(Main, "failed") /\ UNCHANGED main
      [] pc[Main] = "grace" -> UNCHANGED <<pc, main>>
      [] OTHER -> At(Main, "done") /\ Unwind

RaiseOnly ==  \* mutant: the children are left to the end of run_parallel
    /\ handling
    /\ handling' = FALSE
    /\ IF main = "preflight" THEN UnwindPreflight ELSE Unwind /\ UNCHANGED pc
    /\ UNCHANGED <<launches, groups, snapshot, flag, pending, signals, targets>>

(* signal_active_task_groups reads the snapshot; then the handler raises.  *)
SignalGroups ==
    /\ handling
    /\ Ask(snapshot)
    /\ handling' = FALSE
    /\ IF main = "preflight" THEN UnwindPreflight ELSE Unwind /\ UNCHANGED pc
    /\ UNCHANGED <<launches, deaf, snapshot, flag, pending, signals, targets>>

Handler == Interrupt \/ SignalGroups

Next ==
    \/ \E t \in Thread : ThreadStep(t) \/ ChildEnds(t)
    \/ MainStep \/ MainFails \/ Signal \/ Handler

Spec == Init /\ [][Next]_vars

(* Threads run, probes and grace periods are bounded, and a group that      *)
(* listens to SIGTERM ends; a group left alone may run for ever.            *)
FairSpec ==
    /\ Spec
    /\ \A t \in Thread : WF_vars(ThreadStep(t)) /\ WF_vars(ChildObeys(t))
    /\ WF_vars(MainStep) /\ WF_vars(Handler)

-----------------------------------------------------------------------------
TypeOK ==
    /\ pc \in [Thread -> {"new", "launch", "spawned", "owned", "waits", "ending", "grace",
                          "returned", "failed", "decide", "sleep", "done"}]
    /\ launches \in [Thread -> Nat]
    /\ child \in [Thread -> {"none", "runs", "asked", "gone"}]
    /\ deaf \in [Thread -> BOOLEAN]
    /\ snapshot \subseteq Thread /\ targets \subseteq Thread
    /\ flag \in BOOLEAN /\ pending \in BOOLEAN /\ handling \in BOOLEAN
    /\ signals \in 0..MaxSignals
    /\ main \in {"preflight", "probe", "loop", "publish", "shutdown", "except", "finally",
                 "asked", "atexit", "exited"}

Alive(t) == child[t] \in {"runs", "asked"}

(* A group a worker still answers for is in the registry, and so is every   *)
(* group nobody has asked to end, but for the moment between its start and  *)
(* its registration: no path lets go of a running group (run_task_process). *)
RegistryIsComplete ==
    \A t \in Thread :
        Alive(t) /\ (t \in Worker \/ child[t] = "runs") =>
            t \in snapshot \/ pc[t] = "spawned"

(* Once a handler is through, no thread waits for a group that was not      *)
(* asked to end: a group registered too late for the signal sees the flag   *)
(* (run_task_process against install_signal_handlers).                     *)
NoGroupMissesTheSignal ==
    flag /\ ~handling /\ main # "finally" =>
        \A t \in Thread : pc[t] = "waits" => child[t] # "runs"

(* After a signal the controller comes to its end, whatever its workers     *)
(* were at, unless a group does not listen: the first signal does not       *)
(* escalate, and one during the escalation breaks it off (run_parallel).    *)
(* A second signal ends even that group, through the SIGKILL of             *)
(* terminate_active_task_groups, unless a third comes meanwhile.            *)
InterruptedRunEnds ==
    /\ flag ~> \/ main = "exited"
               \/ /\ main \in {"shutdown", "atexit"}
                  /\ \E w \in Worker : pc[w] = "waits" /\ deaf[w] /\ child[w] = "asked"
    /\ main = "asked" ~> main = "exited" \/ handling
=============================================================================
