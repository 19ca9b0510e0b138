------------------------ MODULE ContainerGuard_proofs -------------------------
(***************************************************************************)
(* Theorems about ContainerGuard for every finite set of runs and all sets  *)
(* of stops and prepares on one pidfile.                                   *)
(***************************************************************************)
EXTENDS ContainerGuard, FiniteSetTheorems, TLAPS

-----------------------------------------------------------------------------
(* The inductive invariant.                                                *)

(* Nothing of the session runs, and nothing of it will.                    *)
Quiet(r) == child[r] \in {"zombie", "gone"} /\ ~kids[r]

(* Until its fork a guard has no child; a guard that has reaped its child   *)
(* removes the record only without other members.                          *)
GuardsKnow ==
    \A r \in Run :
        /\ run[r] \in {"idle", "look", "fork"} => child[r] = "none"
        /\ run[r] \in {"reaped", "terminate", "remove"} => child[r] = "gone"
        /\ run[r] = "remove" => ~kids[r]

(* What has a record or had one that somebody read.                        *)
Known(r) == pidfile = r \/ \E c \in Caller : target[c] = r

KnownIsPast ==
    \A r \in Run : Known(r) => child[r] \in {"recorded", "exec", "zombie", "gone"}

(* What runs, or is about to, has its record in the pidfile.               *)
RunningIsRecorded ==
    \A r \in Run : child[r] = "recorded" \/ Executing(r) => pidfile = r

(* A stop or prepare signals the run it read, and lets go of it when quiet. *)
Ending == {"term_trusted", "kill_trusted", "term_untrusted", "kill_untrusted"}

CallersAim ==
    \A c \in Caller :
        /\ call[c] \in Ending => target[c] \in Run
        /\ call[c] \in {"remove", "await_lock"} => target[c] \in Run /\ Quiet(target[c])

IInv ==
    /\ TypeOK
    /\ GuardsKnow
    /\ KnownIsPast
    /\ RunningIsRecorded
    /\ CallersAim

LEMMA InitInvariant == Init => IInv
<1> SUFFICES ASSUME Init PROVE IInv
  OBVIOUS
<1>1. TypeOK
  BY DEF Init, TypeOK
<1>2. GuardsKnow /\ CallersAim
  BY DEF Init, GuardsKnow, CallersAim, Ending
<1>3. KnownIsPast /\ RunningIsRecorded
  BY GuardAssumption DEF Init, KnownIsPast, Known, RunningIsRecorded, Executing
<1> QED
  BY <1>1, <1>2, <1>3 DEF IInv

-----------------------------------------------------------------------------
(* The guard.                                                              *)

(* Steps of a guard that leave its child and the pidfile alone.            *)
LEMMA GuardMoves ==
    ASSUME IInv, NEW r \in Run,
           RunLocks(r) \/ RunLooks(r) \/ ReadRecord(r) \/ Settle(r)
              \/ Interrupt(r) \/ GuardKilled(r)
    PROVE  IInv'
<1> USE DEF RunLocks, RunLooks, ReadRecord, Settle, Interrupt, GuardKilled, GuardAt,
            session, callVars
<1>1. UNCHANGED <<child, kids, call, target, pidfile, cancel>>
  OBVIOUS
<1>2. TypeOK'
  BY <1>1 DEF IInv, TypeOK, Guarding
<1>3. GuardsKnow'
  BY <1>1 DEF IInv, TypeOK, GuardsKnow
<1>4. (KnownIsPast /\ RunningIsRecorded /\ CallersAim)'
  BY <1>1 DEF IInv, KnownIsPast, Known, RunningIsRecorded, Executing, CallersAim, Quiet
<1> QED
  BY <1>2, <1>3, <1>4 DEF IInv

LEMMA GuardForks ==
    ASSUME IInv, NEW r \in Run, RunForks(r)
    PROVE  IInv'
<1> USE DEF RunForks, GuardAt, ChildAt, callVars
<1>1. child[r] = "none" /\ ~kids[r] /\ ~Known(r)
  BY DEF IInv, TypeOK, GuardsKnow, KnownIsPast, RunningIsRecorded, Executing, Known
<1>2. TypeOK'
  BY DEF IInv, TypeOK, Guarding
<1>3. GuardsKnow'
  BY DEF IInv, TypeOK, GuardsKnow
<1>4. KnownIsPast'
  BY <1>1 DEF IInv, TypeOK, KnownIsPast, Known
<1>5. RunningIsRecorded'
  BY DEF IInv, TypeOK, RunningIsRecorded, Executing
<1>6. CallersAim'
  BY <1>1 DEF IInv, TypeOK, CallersAim, Quiet
<1> QED
  BY <1>2, <1>3, <1>4, <1>5, <1>6 DEF IInv

LEMMA GuardEnds ==
    ASSUME IInv, NEW r \in Run, Reap(r) \/ Terminate(r) \/ RunRemoves(r)
    PROVE  IInv'
<1> USE DEF Reap, Terminate, RunRemoves, GuardAt, ChildAt, KidsLeft, callVars, session
<1>1. TypeOK'
  BY DEF IInv, TypeOK, Guarding
<1>2. GuardsKnow'
  BY DEF IInv, TypeOK, GuardsKnow
<1>3. KnownIsPast'
  BY GuardAssumption DEF IInv, TypeOK, KnownIsPast, Known
<1>4. RunningIsRecorded'
  BY GuardAssumption DEF IInv, TypeOK, GuardsKnow, RunningIsRecorded, Executing
<1>5. CallersAim'
  BY DEF IInv, TypeOK, CallersAim, Quiet
<1> QED
  BY <1>1, <1>2, <1>3, <1>4, <1>5 DEF IInv

(* Signals to a session only move it towards its end.                      *)
LEMMA SignalsKeep ==
    ASSUME IInv, NEW r \in Run,
           NEW leader \in {child[r], Ended(r)}, ChildAt(r, leader), kids' \in KidsLeft(r),
           UNCHANGED <<target, pidfile>>
    PROVE  /\ child' \in [Run -> {"none", "forked", "born", "recorded", "exec", "zombie", "gone"}]
           /\ kids' \in [Run -> BOOLEAN]
           /\ KnownIsPast' /\ RunningIsRecorded'
           /\ \A q \in Run : Quiet(q) => Quiet(q)'
           /\ \A q \in Run : child[q] \in {"none", "gone"} => child'[q] = child[q]
           /\ \A q \in Run : ~kids[q] => ~kids'[q]
<1> USE DEF ChildAt, KidsLeft
<1>1. /\ leader \in {child[r], "zombie"}
      /\ child[r] \in {"none", "forked", "born", "gone"} => leader = child[r]
  BY DEF Ended
<1>2. /\ child' \in [Run -> {"none", "forked", "born", "recorded", "exec", "zombie", "gone"}]
      /\ kids' \in [Run -> BOOLEAN]
  BY <1>1 DEF IInv, TypeOK
<1>3. KnownIsPast'
  BY <1>1 DEF IInv, TypeOK, KnownIsPast, Known
<1>4. RunningIsRecorded'
  BY <1>1 DEF IInv, TypeOK, RunningIsRecorded, Executing
<1>5. /\ \A q \in Run : Quiet(q) => Quiet(q)'
      /\ \A q \in Run : child[q] \in {"none", "gone"} => child'[q] = child[q]
      /\ \A q \in Run : ~kids[q] => ~kids'[q]
  BY <1>1 DEF IInv, TypeOK, Quiet
<1> QED
  BY <1>2, <1>3, <1>4, <1>5

LEMMA GuardSignals ==
    ASSUME IInv, NEW r \in Run, SignalOwn(r)
    PROVE  IInv'
<1>1. PICK leader \in {child[r], Ended(r)} : ChildAt(r, leader)
  BY DEF SignalOwn
<1>2. kids' \in KidsLeft(r) /\ UNCHANGED <<run, rec, call, target, pidfile, cancel>>
  BY DEF SignalOwn, callVars
<1>3. asked' \in [Run -> {"no", "asked", "done", "failed"}]
  BY DEF SignalOwn, IInv, TypeOK
<1>4. TypeOK'
  BY <1>1, <1>2, <1>3, SignalsKeep DEF IInv, TypeOK
<1>5. GuardsKnow'
  BY <1>1, <1>2, SignalsKeep DEF IInv, GuardsKnow
<1>6. KnownIsPast' /\ RunningIsRecorded'
  BY <1>1, <1>2, SignalsKeep
<1>7. CallersAim'
  BY <1>1, <1>2, SignalsKeep DEF IInv, CallersAim
<1> QED
  BY <1>4, <1>5, <1>6, <1>7 DEF IInv

-----------------------------------------------------------------------------
(* The child and its command.                                              *)

LEMMA ChildSteps ==
    ASSUME IInv, NEW r \in Run,
           ChildStep(r) \/ CommandForks(r) \/ CommandExits(r) \/ KidsExit(r) \/ InitReaps(r)
    PROVE  IInv'
<1> USE DEF ChildStep, ChildCloses, ChildRecords, ChildStarts, CommandForks, CommandExits,
            KidsExit, InitReaps, ChildAt, guardVars, callVars
<1>1. UNCHANGED <<run, rec, asked, call, target, cancel>>
  OBVIOUS
<1>2. TypeOK'
  <2>1. child' \in [Run -> {"none", "forked", "born", "recorded", "exec", "zombie", "gone"}]
    BY DEF IInv, TypeOK
  <2>2. kids' \in [Run -> BOOLEAN]
    BY DEF IInv, TypeOK
  <2>3. pidfile' \in Run \cup {None}
    BY DEF IInv, TypeOK
  <2> QED
    BY <1>1, <2>1, <2>2, <2>3 DEF IInv, TypeOK
<1>3. GuardsKnow'
  BY <1>1 DEF IInv, TypeOK, GuardsKnow
<1>4. KnownIsPast'
  BY <1>1 DEF IInv, TypeOK, KnownIsPast, Known
<1>5. RunningIsRecorded'
  BY GuardAssumption DEF IInv, TypeOK, RunningIsRecorded, Executing
<1>6. CallersAim'
  BY <1>1 DEF IInv, TypeOK, CallersAim, Quiet
<1> QED
  BY <1>2, <1>3, <1>4, <1>5, <1>6 DEF IInv

-----------------------------------------------------------------------------
(* Stop and prepare.                                                       *)

(* Steps that neither signal nor remove a record.                          *)
LEMMA CallerMoves ==
    ASSUME IInv, NEW c \in Caller,
           \/ StopMarks(c) \/ StopLocks(c) \/ PrepareLocks(c) \/ Looks(c)
           \/ WaitsForRecord(c) \/ StopTimesOut(c) \/ Refused(c) \/ PrepareEnds(c)
           \/ CallKilled(c)
    PROVE  IInv'
<1> USE DEF StopMarks, StopLocks, PrepareLocks, Looks, WaitsForRecord, StopTimesOut, Refused,
            PrepareEnds, CallKilled, CallAt, guardVars, session
<1>1. UNCHANGED <<run, rec, asked, child, kids, pidfile>>
  OBVIOUS
<1>2. TypeOK'
  <2>1. call' \in [Caller -> Locking \cup {"idle", "marked", "wait", "term_trusted",
                                      "kill_trusted", "await_lock", "ok", "error", "killed"}]
    BY DEF IInv, TypeOK, Locking
  <2>2. target' \in [Caller -> Run \cup {None}]
    BY DEF IInv, TypeOK
  <2>3. cancel' \in BOOLEAN
    BY DEF IInv, TypeOK
  <2> QED
    BY <1>1, <2>1, <2>2, <2>3 DEF IInv, TypeOK
<1>3. GuardsKnow'
  BY <1>1 DEF IInv, GuardsKnow
<1>4. KnownIsPast'
  BY <1>1 DEF IInv, TypeOK, KnownIsPast, Known
<1>5. RunningIsRecorded'
  BY <1>1 DEF IInv, RunningIsRecorded, Executing
<1>6. CallersAim'
  BY <1>1 DEF IInv, TypeOK, CallersAim, Quiet, Ending
<1> QED
  BY <1>2, <1>3, <1>4, <1>5, <1>6 DEF IInv

LEMMA CallerSignals ==
    ASSUME IInv, NEW c \in Caller, Terms(c) \/ Kills(c) \/ KillFails(c)
    PROVE  IInv'
<1>1. target[c] \in Run
  BY DEF IInv, CallersAim, Ending, Terms, Kills, KillFails
<1>2. PICK leader \in {child[target[c]], Ended(target[c])} : ChildAt(target[c], leader)
  BY DEF Terms, Kills, KillFails
<1>3. kids' \in KidsLeft(target[c]) /\ UNCHANGED <<run, rec, asked, target, pidfile, cancel>>
  BY DEF Terms, Kills, KillFails, KidsLeft, guardVars
<1>4. TypeOK'
  <2>1. call' \in [Caller -> Locking \cup {"idle", "marked", "wait", "term_trusted",
                                      "kill_trusted", "await_lock", "ok", "error", "killed"}]
    BY DEF IInv, TypeOK, Locking, Terms, Kills, KillFails, CallAt
  <2>2. /\ child' \in [Run -> {"none", "forked", "born", "recorded", "exec", "zombie", "gone"}]
        /\ kids' \in [Run -> BOOLEAN]
    BY <1>1, <1>2, <1>3, SignalsKeep
  <2> QED
    BY <1>3, <2>1, <2>2 DEF IInv, TypeOK
<1>5. GuardsKnow'
  BY <1>1, <1>2, <1>3, SignalsKeep DEF IInv, GuardsKnow
<1>6. KnownIsPast' /\ RunningIsRecorded'
  BY <1>1, <1>2, <1>3, SignalsKeep
<1>7. CallersAim'
  <2>1. \A d \in Caller \ {c} : call'[d] = call[d]
    BY DEF IInv, TypeOK, Terms, Kills, KillFails, CallAt
  <2>2. \/ call'[c] \in {"kill_trusted", "kill_untrusted", "error"}
        \/ Kills(c) /\ call'[c] \in {"remove", "await_lock"}
    <3>1. CASE Kills(c)
      BY <3>1 DEF IInv, TypeOK, Kills, CallAt
    <3>2. CASE Terms(c)
      BY <3>2 DEF IInv, TypeOK, Terms, CallAt
    <3>3. CASE KillFails(c)
      BY <3>3 DEF IInv, TypeOK, KillFails, CallAt
    <3> QED
      BY <3>1, <3>2, <3>3
  <2>3. Kills(c) => Quiet(target[c])'
    <3>1. child[target[c]] \in {"recorded", "exec", "zombie", "gone"}
      BY <1>1 DEF IInv, KnownIsPast, Known
    <3> QED
      BY <1>1, <1>3, <3>1 DEF Kills, Quiet, ChildAt, Ended, IInv, TypeOK
  <2>4. \A r \in Run : Quiet(r) => Quiet(r)'
    BY <1>1, <1>2, <1>3, SignalsKeep
  <2> QED
    BY <1>1, <1>3, <2>1, <2>2, <2>3, <2>4 DEF IInv, CallersAim, Ending, Quiet
<1> QED
  BY <1>4, <1>5, <1>6, <1>7 DEF IInv

LEMMA CallerRemoves ==
    ASSUME IInv, NEW c \in Caller, Removes(c) \/ StopEnds(c)
    PROVE  IInv'
<1> USE DEF Removes, StopEnds, Unrecorded, CallAt, guardVars, session
<1>1. UNCHANGED <<run, rec, asked, child, kids, target, cancel>>
  OBVIOUS
<1>2. Quiet(target[c]) /\ pidfile' \in {pidfile, None} /\ (pidfile' # pidfile => pidfile = target[c])
  BY DEF IInv, CallersAim
<1>3. TypeOK'
  <2>1. call' \in [Caller -> Locking \cup {"idle", "marked", "wait", "term_trusted",
                                      "kill_trusted", "await_lock", "ok", "error", "killed"}]
    BY DEF IInv, TypeOK, Locking
  <2> QED
    BY <1>1, <1>2, <2>1 DEF IInv, TypeOK
<1>4. GuardsKnow'
  BY <1>1 DEF IInv, GuardsKnow
<1>5. KnownIsPast'
  BY <1>1, <1>2, GuardAssumption DEF IInv, KnownIsPast, Known
<1>6. RunningIsRecorded'
  BY <1>1, <1>2 DEF IInv, RunningIsRecorded, Executing, Quiet
<1>7. CallersAim'
  BY <1>1 DEF IInv, TypeOK, CallersAim, Quiet, Ending
<1> QED
  BY <1>3, <1>4, <1>5, <1>6, <1>7 DEF IInv

-----------------------------------------------------------------------------
LEMMA NextInvariant == IInv /\ [Next]_vars => IInv'
<1> SUFFICES ASSUME IInv, [Next]_vars PROVE IInv'
  OBVIOUS
<1>1. CASE UNCHANGED vars
  BY <1>1 DEF vars, guardVars, session, callVars, IInv, TypeOK, GuardsKnow, KnownIsPast,
         Known, RunningIsRecorded, Executing, CallersAim, Quiet
<1>2. ASSUME NEW r \in Run,
             \/ RunLocks(r) \/ GuardStep(r) \/ Interrupt(r) \/ GuardKilled(r)
             \/ ChildStep(r) \/ CommandForks(r) \/ CommandExits(r)
             \/ KidsExit(r) \/ InitReaps(r)
      PROVE  IInv'
  BY <1>2, GuardMoves, GuardForks, GuardEnds, GuardSignals, ChildSteps DEF GuardStep
<1>3. ASSUME NEW c \in Caller, CallStep(c) \/ CallKilled(c)
      PROVE  IInv'
  BY <1>3, CallerMoves, CallerSignals, CallerRemoves DEF CallStep
<1> QED
  BY <1>1, <1>2, <1>3 DEF Next

LEMMA Invariance == Spec => []IInv
BY InitInvariant, NextInvariant, PTL DEF Spec

-----------------------------------------------------------------------------
(* Every state is well typed.                                              *)
THEOREM TypeCorrect == Spec => []TypeOK
<1>1. IInv => TypeOK
  BY DEF IInv
<1> QED
  BY Invariance, <1>1, PTL

(* One pidfile never has two commands, however many runs, stops and         *)
(* prepares meet on it and whichever of them are killed.                   *)
THEOREM OneCommandRuns == Spec => []OneCommand
<1>1. IInv => OneCommand
  <2> SUFFICES ASSUME IInv PROVE OneCommand
    OBVIOUS
  <2>1. {r \in Run : Executing(r)} \subseteq {pidfile}
    BY DEF IInv, RunningIsRecorded
  <2>2. IsFiniteSet({pidfile}) /\ Cardinality({pidfile}) = 1
    BY FS_Singleton
  <2>3. /\ IsFiniteSet({r \in Run : Executing(r)})
        /\ Cardinality({r \in Run : Executing(r)}) <= Cardinality({pidfile})
    BY <2>1, <2>2, FS_Subset
  <2> QED
    BY <2>2, <2>3 DEF OneCommand
<1> QED
  BY Invariance, <1>1, PTL

(* A record is removed only from an empty session (_remove_owned_record).  *)
THEOREM RecordsOutliveSessions == Spec => RecordOutlivesSession
<1> DEFINE Kept == pidfile # None /\ pidfile' # pidfile => ~Executing(pidfile)
<1>1. IInv /\ [Next]_vars => [Kept]_vars
  <2> SUFFICES ASSUME IInv, Next, pidfile # None, pidfile' # pidfile
               PROVE  ~Executing(pidfile)
    OBVIOUS
  <2>1. CASE \E r \in Run : RunRemoves(r)
    BY <2>1 DEF RunRemoves, IInv, GuardsKnow, Executing
  <2>2. CASE \E c \in Caller : Removes(c) \/ StopEnds(c)
    BY <2>2 DEF Removes, StopEnds, Unrecorded, IInv, CallersAim, Quiet, Executing
  <2> QED
    BY <2>1, <2>2 DEF Next, GuardStep, RunLocks, RunLooks, RunForks, ReadRecord, SignalOwn,
       Reap, Settle, Terminate, Interrupt, GuardKilled, ChildStep, ChildCloses, ChildRecords,
       ChildStarts, CommandForks, CommandExits, KidsExit, InitReaps, CallStep, StopMarks,
       StopLocks, PrepareLocks, Looks, WaitsForRecord, StopTimesOut, Refused, Terms, Kills,
       KillFails, PrepareEnds, CallKilled
<1> QED
  BY Invariance, <1>1, PTL DEF Spec, RecordOutlivesSession
-----------------------------------------------------------------------------
(* What a stop achieves while its marker stays.                            *)

Aiming == Ending \cup {"remove", "await_lock"}

(* Only a prepare takes the marker away, and the first stop puts it.       *)
MarkerStays ==
    /\ \A s \in Stop : call[s] # "unlink"
    /\ (\A p \in Prepare : call[p] # "ok") => cancel \/ \A s \in Stop : call[s] = "idle"

(* Since its marker only what it aims at can be running.                   *)
StopCloses ==
    \A s \in Stop : StillMarked(s) =>
        /\ call[s] = "ok" => \A r \in Run : ~Executing(r)
        /\ call[s] \in Aiming => \A r \in Run : Executing(r) => r = target[s]

(* With the marker nothing starts: no step adds to what runs.              *)
LEMMA MarkerHoldsBack ==
    ASSUME IInv, [Next]_vars, cancel, NEW r \in Run, Executing(r)'
    PROVE  Executing(r)
<1>1. CASE UNCHANGED vars
  BY <1>1 DEF vars, session, Executing
<1>2. ASSUME NEW q \in Run,
             \/ RunLocks(q) \/ GuardStep(q) \/ Interrupt(q) \/ GuardKilled(q)
             \/ ChildStep(q) \/ CommandForks(q) \/ CommandExits(q)
             \/ KidsExit(q) \/ InitReaps(q)
      PROVE  Executing(r)
  BY <1>2 DEF IInv, TypeOK, Executing, RunLocks, GuardStep, RunLooks, RunForks, ReadRecord,
     SignalOwn, Reap, Settle, Terminate, RunRemoves, Interrupt, GuardKilled, ChildStep,
     ChildCloses, ChildRecords, ChildStarts, CommandForks, CommandExits, KidsExit, InitReaps,
     ChildAt, Ended, KidsLeft, session
<1>3. ASSUME NEW c \in Caller, Terms(c) \/ Kills(c) \/ KillFails(c)
      PROVE  Executing(r)
  <2>1. PICK leader \in {child[target[c]], Ended(target[c])} : ChildAt(target[c], leader)
    BY <1>3 DEF Terms, Kills, KillFails
  <2>2. kids' \in KidsLeft(target[c])
    BY <1>3 DEF Terms, Kills, KillFails, KidsLeft
  <2> QED
    BY <2>1, <2>2 DEF IInv, TypeOK, Executing, ChildAt, Ended, KidsLeft
<1>4. ASSUME NEW c \in Caller,
             \/ CallKilled(c) \/ StopMarks(c) \/ StopLocks(c) \/ PrepareLocks(c)
             \/ Looks(c) \/ WaitsForRecord(c) \/ StopTimesOut(c) \/ Refused(c)
             \/ Removes(c) \/ StopEnds(c) \/ PrepareEnds(c)
      PROVE  Executing(r)
  BY <1>4 DEF Executing, CallKilled, StopMarks, StopLocks, PrepareLocks, Looks,
     WaitsForRecord, StopTimesOut, Refused, Removes, StopEnds, PrepareEnds, session
<1> QED
  BY <1>1, <1>2, <1>3, <1>4 DEF Next, CallStep

(* A step of a run leaves every call and the marker alone.                 *)
LEMMA RunsLeaveCalls ==
    ASSUME NEW r \in Run,
           \/ RunLocks(r) \/ GuardStep(r) \/ Interrupt(r) \/ GuardKilled(r)
           \/ ChildStep(r) \/ CommandForks(r) \/ CommandExits(r)
           \/ KidsExit(r) \/ InitReaps(r)
    PROVE  UNCHANGED <<call, target, cancel>>
BY DEF RunLocks, GuardStep, RunLooks, RunForks, ReadRecord, SignalOwn, Reap, Settle,
   Terminate, RunRemoves, Interrupt, GuardKilled, ChildStep, ChildCloses, ChildRecords,
   ChildStarts, CommandForks, CommandExits, KidsExit, InitReaps, callVars

(* A step of a call changes that call alone.                               *)
LEMMA OneCallMoves ==
    ASSUME IInv, [Next]_vars, ~UNCHANGED <<call, target, cancel>>
    PROVE  \E c \in Caller :
               /\ CallStep(c) \/ CallKilled(c)
               /\ \A d \in Caller \ {c} : call'[d] = call[d] /\ target'[d] = target[d]
<1>1. PICK c \in Caller : CallStep(c) \/ CallKilled(c)
  BY RunsLeaveCalls DEF Next, vars, callVars
<1>2. \A d \in Caller \ {c} : call'[d] = call[d] /\ target'[d] = target[d]
  BY <1>1 DEF IInv, TypeOK, CallAt, CallStep, CallKilled, StopMarks, StopLocks,
     PrepareLocks, Looks, WaitsForRecord, StopTimesOut, Refused, Terms, Kills,
     KillFails, Removes, StopEnds, PrepareEnds
<1> QED
  BY <1>1, <1>2

(* No call starts again, and none that has ended goes on.                  *)
LEMMA CallsProgress ==
    ASSUME IInv, [Next]_vars, NEW c \in Caller
    PROVE  /\ call'[c] = "idle" => call[c] = "idle"
           /\ call[c] = "ok" => call'[c] = "ok"
<1>1. CASE UNCHANGED <<call, target, cancel>>
  BY <1>1
<1>2. CASE ~UNCHANGED <<call, target, cancel>>
  <2>1. PICK d \in Caller :
            /\ CallStep(d) \/ CallKilled(d)
            /\ \A e \in Caller \ {d} : call'[e] = call[e] /\ target'[e] = target[e]
    BY <1>2, OneCallMoves
  <2>2. call'[d] # "idle" /\ call[d] # "ok"
    BY <2>1 DEF IInv, TypeOK, CallAt, CallStep, CallKilled, StopMarks, StopLocks,
       PrepareLocks, Looks, WaitsForRecord, StopTimesOut, Refused, Terms, Kills,
       KillFails, Removes, StopEnds, PrepareEnds
  <2> QED
    BY <2>1, <2>2
<1> QED
  BY <1>1, <1>2

(* A marker that stands for s after a step and stood before it was its own. *)
LEMMA StillMarkedBefore ==
    ASSUME IInv, [Next]_vars, NEW s \in Stop, StillMarked(s)', cancel
    PROVE  StillMarked(s)
BY CallsProgress DEF StillMarked, Caller

LEMMA MarkerStaysStep == IInv /\ MarkerStays /\ [Next]_vars => MarkerStays'
<1> SUFFICES ASSUME IInv, MarkerStays, [Next]_vars PROVE MarkerStays'
  OBVIOUS
<1>1. CASE UNCHANGED <<call, target, cancel>>
  BY <1>1 DEF MarkerStays
<1>2. CASE ~UNCHANGED <<call, target, cancel>>
  <2>1. PICK c \in Caller :
            /\ CallStep(c) \/ CallKilled(c)
            /\ \A d \in Caller \ {c} : call'[d] = call[d] /\ target'[d] = target[d]
    BY <1>2, OneCallMoves
  <2>2. \A s \in Stop : call'[s] # "unlink"
    <3>1. c \in Stop => call'[c] # "unlink"
      BY <2>1, GuardAssumption DEF MarkerStays, IInv, TypeOK, CallAt, CallStep, CallKilled,
         StopMarks, StopLocks, PrepareLocks, Looks, WaitsForRecord, StopTimesOut, Refused,
         Terms, Kills, KillFails, Removes, StopEnds, PrepareEnds
    <3> QED
      BY <2>1, <3>1 DEF MarkerStays, Caller
  <2>3. ASSUME \A p \in Prepare : call'[p] # "ok", ~cancel'
        PROVE  \A s \in Stop : call'[s] = "idle"
    <3>1. \A p \in Prepare : call[p] # "ok"
      BY <2>3, CallsProgress DEF Caller
    <3>2. ~PrepareEnds(c)
      <4>1. PrepareEnds(c) => call'[c] = "ok" /\ call[c] = "unlink"
        BY DEF PrepareEnds, CallAt, IInv, TypeOK
      <4> QED
        BY <2>3, <4>1 DEF MarkerStays, Caller
    <3>3. ~cancel /\ ~StopMarks(c)
      BY <2>1, <2>3, <3>2 DEF CallStep, CallKilled, StopMarks, StopLocks, PrepareLocks, Looks,
         WaitsForRecord, StopTimesOut, Refused, Terms, Kills, KillFails, Removes, StopEnds
    <3>4. \A s \in Stop : call[s] = "idle"
      BY <3>1, <3>3 DEF MarkerStays
    <3>5. c \notin Stop
      BY <2>1, <3>2, <3>3, <3>4, GuardAssumption DEF CallStep, CallKilled, StopLocks, PrepareLocks,
         Looks, WaitsForRecord, StopTimesOut, Refused, Terms, Kills, KillFails, Removes, StopEnds
    <3> QED
      BY <2>1, <3>4, <3>5 DEF Caller
  <2> QED
    BY <2>2, <2>3 DEF MarkerStays
<1> QED
  BY <1>1, <1>2

LEMMA StopClosesStep == IInv /\ MarkerStays /\ StopCloses /\ [Next]_vars => StopCloses'
<1> SUFFICES ASSUME IInv, MarkerStays, StopCloses, [Next]_vars, NEW s \in Stop, StillMarked(s)'
             PROVE  /\ call'[s] = "ok" => \A r \in Run : ~Executing(r)'
                    /\ call'[s] \in Aiming => \A r \in Run : Executing(r)' => r = target'[s]
  BY DEF StopCloses
<1>1. CASE ~cancel
  <2>1. PICK c \in Stop : StopMarks(c)
    BY <1>1, RunsLeaveCalls DEF StillMarked, Next, vars, CallStep, CallKilled, StopMarks,
       StopLocks, PrepareLocks, Looks, WaitsForRecord, StopTimesOut, Refused, Terms, Kills,
       KillFails, Removes, StopEnds, PrepareEnds
  <2>2. call'[c] = "marked" /\ \A d \in Caller \ {c} : call'[d] = call[d]
    BY <2>1 DEF StopMarks, CallAt, IInv, TypeOK, Caller
  <2>3. call'[s] \in {"marked", "idle"}
    <3>1. CASE \A p \in Prepare : call'[p] # "ok"
      <4>1. \A p \in Prepare : call[p] # "ok"
        BY <3>1, CallsProgress DEF Caller
      <4> QED
        BY <1>1, <2>2, <4>1 DEF MarkerStays, Caller
    <3>2. CASE \A d \in Stop \ {s} : call'[d] = "idle"
      BY <2>2, <3>2
    <3> QED
      BY <3>1, <3>2 DEF StillMarked
  <2> QED
    BY <2>3 DEF Aiming, Ending
<1>2. CASE cancel
  <2>1. StillMarked(s) /\ \A r \in Run : Executing(r)' => Executing(r)
    BY <1>2, MarkerHoldsBack, StillMarkedBefore
  <2>2. CASE call'[s] = call[s] /\ target'[s] = target[s]
    BY <1>2, <2>1, <2>2 DEF StopCloses
  <2>3. CASE ~(call'[s] = call[s] /\ target'[s] = target[s])
    <3>1. CallStep(s) \/ CallKilled(s)
      <4>1. PICK c \in Caller :
                /\ CallStep(c) \/ CallKilled(c)
                /\ \A d \in Caller \ {c} : call'[d] = call[d] /\ target'[d] = target[d]
        BY <2>3, OneCallMoves
      <4> QED
        BY <2>3, <4>1 DEF Caller
    <3>2. s \in Caller /\ s \notin Prepare
      BY GuardAssumption DEF Caller
    <3>3. CASE StopMarks(s) \/ StopLocks(s) \/ StopTimesOut(s) \/ Refused(s)
                 \/ KillFails(s) \/ CallKilled(s)
      <4>1. call'[s] \in {"marked", "held", "wait", "error", "killed"}
        BY <3>2, <3>3 DEF StopMarks, StopLocks, StopTimesOut, Refused, KillFails, CallKilled,
           CallAt, IInv, TypeOK
      <4> QED
        BY <4>1 DEF Aiming, Ending
    <3>4. CASE Looks(s) \/ WaitsForRecord(s)
      <4>1. \/ call'[s] = "ok" /\ pidfile = None
            \/ call'[s] \in Ending /\ target'[s] = pidfile
        BY <3>2, <3>4 DEF Looks, WaitsForRecord, CallAt, IInv, TypeOK, Ending
      <4>2. \A r \in Run : Executing(r) => pidfile = r /\ pidfile # None
        BY GuardAssumption DEF IInv, RunningIsRecorded
      <4> QED
        BY <2>1, <4>1, <4>2 DEF Ending, Aiming
    <3>5. CASE Terms(s) \/ Kills(s)
      <4>1. call[s] \in Ending /\ call'[s] \in Aiming \ {"ok", "idle"} /\ target' = target
        BY <3>2, <3>5 DEF Terms, Kills, CallAt, IInv, TypeOK, Ending, Aiming
      <4> QED
        BY <1>2, <2>1, <4>1 DEF StopCloses, Aiming
    <3>6. CASE Removes(s) \/ StopEnds(s)
      <4>1. call[s] \in {"remove", "await_lock"} /\ call'[s] = "ok"
        BY <3>2, <3>6 DEF Removes, StopEnds, CallAt, IInv, TypeOK
      <4>2. ~Executing(target[s])
        BY <3>2, <4>1 DEF IInv, CallersAim, Quiet, Executing
      <4> QED
        BY <1>2, <2>1, <4>1, <4>2 DEF StopCloses, Aiming
    <3>7. ~PrepareLocks(s) /\ ~PrepareEnds(s)
      <4>1. PrepareEnds(s) => ~cancel'
        BY DEF PrepareEnds
      <4> QED
        BY <3>2, <4>1 DEF PrepareLocks, StillMarked
    <3> QED
      BY <3>1, <3>3, <3>4, <3>5, <3>6, <3>7 DEF CallStep
  <2> QED
    BY <2>2, <2>3
<1> QED
  BY <1>1, <1>2

(* After a stop has reported success its command and all it started have    *)
(* ended, and until a prepare nothing starts, whatever other stops do and   *)
(* whoever is killed (stop, _child_main).                                  *)
THEOREM StopIsQuiet == Spec => []StoppedMeansQuiet
<1>1. Init => MarkerStays /\ StopCloses
  BY DEF Init, MarkerStays, StopCloses, StillMarked, Caller
<1>2. IInv /\ MarkerStays /\ StopCloses /\ [Next]_vars => (MarkerStays /\ StopCloses)'
  BY MarkerStaysStep, StopClosesStep
<1>3. StopCloses => StoppedMeansQuiet
  BY DEF StopCloses, StoppedMeansQuiet
<1> QED
  BY Invariance, <1>1, <1>2, <1>3, PTL DEF Spec
=============================================================================
