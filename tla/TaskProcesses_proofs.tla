------------------------- MODULE TaskProcesses_proofs -------------------------
(***************************************************************************)
(* Theorems about TaskProcesses for every set of worker threads, every     *)
(* number of child attempts and every number of signals.                   *)
(***************************************************************************)
EXTENDS TaskProcesses, TLAPS

-----------------------------------------------------------------------------
(* The inductive invariant.                                                *)

Owning == {"owned", "waits", "ending", "grace", "returned", "failed"}
LetGo == {"new", "launch", "returned", "failed", "decide", "sleep", "done"}

(* The exception of a handler has somewhere to go, and it cannot strike     *)
(* between the start of the preflight process and its registration.        *)
HandlerHasPlace ==
    handling => /\ main \notin {"atexit", "exited"}
                /\ main = "preflight" => pc[Main] # "spawned"

(* From its registration to the finally a group is in the registry.        *)
OwnedIsRegistered == \A t \in Thread : pc[t] \in Owning => t \in snapshot

(* A thread that has let go of its group leaves nothing it did not ask to   *)
(* end; a worker leaves nothing alive at all.                              *)
LetGoIsOver ==
    \A t \in Thread : pc[t] \in LetGo =>
        /\ child[t] # "runs"
        /\ t \in Worker => child[t] # "asked"

Registry == HandlerHasPlace /\ OwnedIsRegistered /\ LetGoIsOver

IInv == TypeOK /\ Registry

-----------------------------------------------------------------------------
(* TypeOK.                                                                 *)

LEMMA MainIsThread == Main \in Thread
BY DEF Thread

LEMMA AskTyped ==
    ASSUME TypeOK, NEW G, Ask(G)
    PROVE  /\ child' \in [Thread -> {"none", "runs", "asked", "gone"}]
           /\ \A t \in Thread : child'[t] = IF t \in G /\ child[t] = "runs" THEN "asked" ELSE child[t]
BY DEF Ask, TypeOK

LEMMA EndTyped ==
    ASSUME TypeOK, NEW G, End(G)
    PROVE  /\ child' \in [Thread -> {"none", "runs", "asked", "gone"}]
           /\ deaf' \in [Thread -> BOOLEAN]
           /\ \A t \in Thread : child'[t] = IF t \in G /\ child[t] # "none" THEN "gone" ELSE child[t]
<1>1. \A t \in Thread : (deaf[t] /\ t \notin G) \in BOOLEAN
  OBVIOUS
<1>2. deaf' \in [Thread -> BOOLEAN]
  BY <1>1 DEF End
<1> QED
  BY <1>2 DEF End, TypeOK

LEMMA ThreadTyped ==
    ASSUME TypeOK, NEW t \in Thread, ThreadStep(t)
    PROVE  TypeOK'
<1>1. CASE Popen(t)
  BY <1>1 DEF Popen, At, TypeOK, control
<1>2. CASE PopenFails(t) \/ Register(t) \/ Check(t) \/ Communicated(t)
  BY <1>2 DEF PopenFails, Register, Check, Communicated, At, TypeOK, control, groups
<1>3. CASE AskGroup(t)
  BY <1>3, AskTyped DEF AskGroup, At, TypeOK, control
<1>4. CASE EndGroup(t)
  BY <1>4, EndTyped DEF EndGroup, At, TypeOK, control
<1>5. CASE Discard(t)
  BY <1>5 DEF Discard, At, TypeOK, control, groups
<1>6. CASE Decide(t) \/ Wake(t)
  BY <1>6 DEF Decide, Wake, At, TypeOK, control, groups
<1> QED
  BY <1>1, <1>2, <1>3, <1>4, <1>5, <1>6 DEF ThreadStep

LEMMA MainTyped == ASSUME TypeOK, MainStep \/ MainFails PROVE TypeOK'
<1>1. CASE PreflightOver \/ Probed \/ Submit \/ LoopOver \/ Published \/ PoolIdle \/ Except \/ Exit
  BY <1>1, MainIsThread DEF PreflightOver, Probed, Submit, LoopOver, Published, PoolIdle, Except, Exit,
     Goto, At, TypeOK, control, groups, threads, Thread
<1>2. CASE AskActive
  BY <1>2, AskTyped DEF AskActive, Goto, TypeOK, control, threads
<1>3. CASE EndActive
  BY <1>3, EndTyped DEF EndActive, Goto, TypeOK, control, threads
<1>4. CASE MainFails
  BY <1>4 DEF MainFails, Unwind, TypeOK, control, groups, threads
<1> QED
  BY <1>1, <1>2, <1>3, <1>4 DEF MainStep

(* What the exception of a handler does to the main thread.                *)
LEMMA Raised ==
    ASSUME TypeOK, HandlerHasPlace, SignalGroups
    PROVE  /\ main' \in {"preflight", "shutdown", "except", "finally", "atexit"}
           /\ pc' \in [Thread -> Owning \cup LetGo \cup {"spawned"}]
           /\ \A t \in Worker : pc'[t] = pc[t]
           /\ \/ pc'[Main] = pc[Main]
              \/ pc[Main] \in {"owned", "waits"} /\ pc'[Main] = "ending"
              \/ pc[Main] = "ending" /\ pc'[Main] = "failed"
              \/ pc[Main] \in LetGo /\ pc'[Main] = "done"
<1>0. pc \in [Thread -> Owning \cup LetGo \cup {"spawned"}] /\ Main \in Thread /\ Main \notin Worker
  BY MainAssumption DEF TypeOK, Owning, LetGo, Thread
<1>1. CASE main # "preflight"
  <2>1. UNCHANGED pc /\ Unwind
    BY <1>1 DEF SignalGroups
  <2>2. main \in {"probe", "loop", "publish", "shutdown", "except", "finally", "asked"}
    BY <1>1 DEF HandlerHasPlace, SignalGroups, TypeOK
  <2>3. main' \in {"preflight", "shutdown", "except", "finally", "atexit"}
    BY <2>1, <2>2 DEF Unwind
  <2> QED
    BY <1>0, <2>1, <2>3
<1>2. CASE main = "preflight"
  <2>0. UnwindPreflight /\ pc[Main] # "spawned"
    BY <1>2 DEF SignalGroups, HandlerHasPlace
  <2>1. CASE pc[Main] \in {"owned", "waits"}
    BY <1>0, <1>2, <2>0, <2>1 DEF UnwindPreflight, At, Thread, Owning
  <2>2. CASE pc[Main] = "ending"
    BY <1>0, <1>2, <2>0, <2>2 DEF UnwindPreflight, At, Thread, Owning
  <2>3. CASE pc[Main] = "grace"
    BY <1>0, <1>2, <2>0, <2>3 DEF UnwindPreflight
  <2>4. CASE pc[Main] \notin {"owned", "waits", "ending", "grace"}
    <3>1. pc[Main] \in LetGo
      BY <1>0, <2>0, <2>4 DEF Owning, LetGo
    <3>2. At(Main, "done") /\ Unwind
      BY <2>0, <2>4 DEF UnwindPreflight
    <3>3. main' = "except"
      BY <1>2, <3>2 DEF Unwind
    <3> QED
      BY <1>0, <3>1, <3>2, <3>3 DEF At, Thread, LetGo
  <2> QED
    BY <2>1, <2>2, <2>3, <2>4
<1> QED
  BY <1>1, <1>2

LEMMA SignalTyped ==
    ASSUME TypeOK, HandlerHasPlace, Signal \/ Handler
    PROVE  TypeOK'
<1>1. CASE Signal \/ Interrupt
  <2>1. signals' \in 0..MaxSignals
    BY <1>1, BoundsAssumption DEF Signal, Interrupt, TypeOK
  <2> QED
    BY <1>1, <2>1, Zenon DEF Signal, Interrupt, TypeOK, groups, threads
<1>2. CASE SignalGroups
  <2>1. child' \in [Thread -> {"none", "runs", "asked", "gone"}]
    BY <1>2, AskTyped DEF SignalGroups
  <2> QED
    BY <1>2, <2>1, Raised DEF SignalGroups, TypeOK, Owning, LetGo
<1> QED
  BY <1>1, <1>2 DEF Handler

LEMMA ChildTyped == ASSUME TypeOK, NEW t \in Thread, ChildEnds(t) PROVE TypeOK'
BY EndTyped DEF ChildEnds, TypeOK, threads, control

-----------------------------------------------------------------------------
(* Registry.                                                               *)

LEMMA ThreadRegistry ==
    ASSUME IInv, NEW t \in Thread, ThreadStep(t)
    PROVE  Registry'
<1> USE DEF IInv, Registry, HandlerHasPlace, OwnedIsRegistered, LetGoIsOver, Owning, LetGo, Runs, At
<1>1. CASE Popen(t)
  BY <1>1, MainIsThread DEF Popen, TypeOK, control
<1>2. CASE PopenFails(t) \/ Check(t) \/ Communicated(t)
  BY <1>2, MainIsThread DEF PopenFails, Check, Communicated, TypeOK, control, groups
<1>3. CASE Register(t)
  BY <1>3, MainIsThread DEF Register, TypeOK, control, groups
<1>4. CASE AskGroup(t)
  BY <1>4, MainIsThread, AskTyped DEF AskGroup, TypeOK, control
<1>5. CASE EndGroup(t)
  BY <1>5, MainIsThread, EndTyped DEF EndGroup, TypeOK, control
<1>6. CASE Discard(t)
  BY <1>6, MainIsThread DEF Discard, TypeOK, control, groups
<1>7. CASE Decide(t) \/ Wake(t)
  BY <1>7, MainIsThread DEF Decide, Wake, TypeOK, control, groups
<1> QED
  BY <1>1, <1>2, <1>3, <1>4, <1>5, <1>6, <1>7 DEF ThreadStep

LEMMA MainRegistry == ASSUME IInv, MainStep \/ MainFails PROVE Registry'
<1> USE MainIsThread DEF IInv, Registry, HandlerHasPlace, OwnedIsRegistered, LetGoIsOver, Owning,
        LetGo, Goto
<1>1. CASE PreflightOver
  BY <1>1 DEF PreflightOver, At, TypeOK, control, groups
<1>2. CASE Submit
  BY <1>2 DEF Submit, At, TypeOK, control, groups, Thread
<1>3. CASE \/ Probed \/ LoopOver \/ Published \/ PoolIdle \/ Except \/ Exit
           \/ MainFails
  BY <1>3 DEF Probed, LoopOver, Published, PoolIdle, Except, Exit, MainFails, control, groups, threads
<1>4. CASE AskActive
  BY <1>4, AskTyped DEF AskActive, control, threads
<1>5. CASE EndActive
  BY <1>5, EndTyped DEF EndActive, control, threads
<1> QED
  BY <1>1, <1>2, <1>3, <1>4, <1>5 DEF MainStep

LEMMA SignalRegistry == ASSUME IInv, Signal \/ Handler PROVE Registry'
<1>1. CASE Signal
  BY <1>1 DEF Signal, IInv, Registry, HandlerHasPlace, OwnedIsRegistered, LetGoIsOver, groups, threads
<1>2. CASE Interrupt
  BY <1>2 DEF Interrupt, Handled, Deferred, IInv, Registry, HandlerHasPlace, OwnedIsRegistered,
     LetGoIsOver, groups, threads
<1>3. CASE SignalGroups
  <2>1. /\ \A t \in Thread : child'[t] = IF t \in snapshot /\ child[t] = "runs" THEN "asked" ELSE child[t]
        /\ snapshot' = snapshot
        /\ ~handling'
    BY <1>3, AskTyped DEF IInv, SignalGroups
  <2>2. /\ \A t \in Worker : pc'[t] = pc[t]
        /\ \/ pc'[Main] = pc[Main]
           \/ pc[Main] \in {"owned", "waits"} /\ pc'[Main] = "ending"
           \/ pc[Main] = "ending" /\ pc'[Main] = "failed"
           \/ pc[Main] \in LetGo /\ pc'[Main] = "done"
    BY <1>3, Raised DEF IInv, Registry
  <2>3. OwnedIsRegistered'
    BY <2>1, <2>2 DEF IInv, Registry, OwnedIsRegistered, Owning, LetGo, Thread
  <2>4. \A t \in Worker : pc'[t] \in LetGo => child'[t] \notin {"runs", "asked"}
    BY <2>1, <2>2 DEF IInv, Registry, LetGoIsOver, Thread
  <2>5. pc'[Main] \in LetGo => child'[Main] # "runs"
    BY <2>1, <2>2 DEF IInv, Registry, OwnedIsRegistered, LetGoIsOver, Owning, LetGo, Thread
  <2> QED
    BY <2>1, <2>3, <2>4, <2>5, MainAssumption DEF Registry, HandlerHasPlace, LetGoIsOver, Thread
<1> QED
  BY <1>1, <1>2, <1>3 DEF Handler

LEMMA ChildRegistry == ASSUME IInv, NEW t \in Thread, ChildEnds(t) PROVE Registry'
BY EndTyped DEF ChildEnds, IInv, Registry, HandlerHasPlace, OwnedIsRegistered, LetGoIsOver, threads, control

LEMMA InitInvariant == Init => IInv
<1> SUFFICES ASSUME Init PROVE IInv
  OBVIOUS
<1>1. /\ pc \in [Thread -> {"new", "launch"}] /\ launches \in [Thread -> Nat]
      /\ child \in [Thread -> {"none"}] /\ deaf \in [Thread -> BOOLEAN]
      /\ signals \in 0..MaxSignals
  BY BoundsAssumption DEF Init
<1>2. TypeOK
  BY <1>1 DEF Init, TypeOK
<1>3. Registry
  BY <1>1 DEF Init, Registry, HandlerHasPlace, OwnedIsRegistered, LetGoIsOver, Owning
<1> QED
  BY <1>2, <1>3 DEF IInv

LEMMA NextInvariant == IInv /\ [Next]_vars => IInv'
<1> SUFFICES ASSUME IInv, [Next]_vars PROVE IInv'
  OBVIOUS
<1>1. CASE UNCHANGED vars
  BY <1>1 DEF vars, threads, groups, control, IInv, TypeOK, Registry, HandlerHasPlace,
     OwnedIsRegistered, LetGoIsOver
<1>2. ASSUME NEW t \in Thread, ThreadStep(t) PROVE IInv'
  BY <1>2, ThreadTyped, ThreadRegistry DEF IInv
<1>3. ASSUME NEW t \in Thread, ChildEnds(t) PROVE IInv'
  BY <1>3, ChildTyped, ChildRegistry DEF IInv
<1>4. CASE MainStep \/ MainFails
  BY <1>4, MainTyped, MainRegistry DEF IInv
<1>5. CASE Signal \/ Handler
  BY <1>5, SignalTyped, SignalRegistry DEF IInv, Registry
<1> QED
  BY <1>1, <1>2, <1>3, <1>4, <1>5 DEF Next

LEMMA Invariance == Spec => []IInv
BY InitInvariant, NextInvariant, PTL DEF Spec

-----------------------------------------------------------------------------
(* NoGroupMissesTheSignal is inductive on top of the registry.             *)

LEMMA ThreadHears ==
    ASSUME IInv, NoGroupMissesTheSignal, NEW t \in Thread, ThreadStep(t)
    PROVE  NoGroupMissesTheSignal'
<1> USE DEF NoGroupMissesTheSignal, IInv, At, Runs
<1>1. CASE Popen(t)
  BY <1>1 DEF Popen, TypeOK, control
<1>2. CASE PopenFails(t) \/ Register(t) \/ Check(t) \/ Communicated(t)
  BY <1>2 DEF PopenFails, Register, Check, Communicated, TypeOK, control, groups
<1>3. CASE AskGroup(t)
  BY <1>3, AskTyped DEF AskGroup, TypeOK, control
<1>4. CASE EndGroup(t)
  BY <1>4, EndTyped DEF EndGroup, TypeOK, control
<1>5. CASE Discard(t)
  BY <1>5 DEF Discard, TypeOK, control, groups
<1>6. CASE Decide(t) \/ Wake(t)
  BY <1>6 DEF Decide, Wake, TypeOK, control, groups
<1> QED
  BY <1>1, <1>2, <1>3, <1>4, <1>5, <1>6 DEF ThreadStep

LEMMA MainHears ==
    ASSUME IInv, NoGroupMissesTheSignal, MainStep \/ MainFails
    PROVE  NoGroupMissesTheSignal'
<1> USE DEF NoGroupMissesTheSignal, IInv, Goto
<1>1. CASE PreflightOver \/ Submit
  BY <1>1 DEF PreflightOver, Submit, At, TypeOK, control, groups
<1>2. CASE \/ Probed \/ LoopOver \/ Published \/ PoolIdle \/ Except \/ Exit
           \/ MainFails
  BY <1>2 DEF Probed, LoopOver, Published, PoolIdle, Except, Exit, MainFails, control, groups, threads
<1>3. CASE AskActive
  BY <1>3, AskTyped DEF AskActive, control, threads, Registry, OwnedIsRegistered, Owning
<1>4. CASE EndActive
  BY <1>4, EndTyped DEF EndActive, control, threads
<1> QED
  BY <1>1, <1>2, <1>3, <1>4 DEF MainStep

LEMMA SignalHears ==
    ASSUME IInv, NoGroupMissesTheSignal, Signal \/ Handler
    PROVE  NoGroupMissesTheSignal'
<1>1. CASE Signal \/ Interrupt
  BY <1>1 DEF Signal, Interrupt, NoGroupMissesTheSignal, groups, threads
<1>2. CASE SignalGroups
  <2>1. \A t \in Thread : child'[t] = IF t \in snapshot /\ child[t] = "runs" THEN "asked" ELSE child[t]
    BY <1>2, AskTyped DEF IInv, SignalGroups
  <2>2. \A t \in Thread : pc'[t] = "waits" => pc[t] = "waits"
    BY <1>2, Raised DEF IInv, Registry, LetGo, Thread
  <2> QED
    BY <2>1, <2>2 DEF NoGroupMissesTheSignal, IInv, Registry, OwnedIsRegistered, Owning
<1> QED
  BY <1>1, <1>2 DEF Handler

LEMMA StepHears == IInv /\ NoGroupMissesTheSignal /\ [Next]_vars => NoGroupMissesTheSignal'
<1> SUFFICES ASSUME IInv, NoGroupMissesTheSignal, [Next]_vars PROVE NoGroupMissesTheSignal'
  OBVIOUS
<1>1. CASE UNCHANGED vars
  BY <1>1 DEF vars, threads, groups, control, NoGroupMissesTheSignal
<1>2. ASSUME NEW t \in Thread, ChildEnds(t) PROVE NoGroupMissesTheSignal'
  BY <1>2, EndTyped DEF ChildEnds, threads, control, IInv, NoGroupMissesTheSignal
<1> QED
  BY <1>1, <1>2, ThreadHears, MainHears, SignalHears DEF Next

-----------------------------------------------------------------------------
(* Every reachable state of the threads, groups and the main thread is      *)
(* typed: no exception of a handler leaves run_parallel nowhere.           *)
THEOREM TypeCorrect == Spec => []TypeOK
<1>1. IInv => TypeOK
  BY DEF IInv
<1> QED
  BY Invariance, <1>1, PTL

(* No path of run_task_process and run_parallel lets go of a group that     *)
(* runs: for any number of workers and signals the registry is complete.   *)
THEOREM RegistryComplete == Spec => []RegistryIsComplete
<1>1. IInv => RegistryIsComplete
  BY DEF IInv, TypeOK, Registry, OwnedIsRegistered, LetGoIsOver, RegistryIsComplete, Alive, Owning, LetGo
<1> QED
  BY Invariance, <1>1, PTL

(* However a start and a signal interleave, no thread is left waiting for a *)
(* group that nobody asked to end.                                         *)
THEOREM SignalReachesAll == Spec => []NoGroupMissesTheSignal
<1>1. Init => NoGroupMissesTheSignal
  BY DEF Init, NoGroupMissesTheSignal
<1> QED
  BY Invariance, StepHears, <1>1, PTL DEF Spec
=============================================================================
