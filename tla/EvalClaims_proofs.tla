-------------------------- MODULE EvalClaims_proofs --------------------------
(***************************************************************************)
(* Theorems about EvalClaims for every set of driver runs: without the     *)
(* three faults one evaluator at a time, and an announced one is named in  *)
(* the claim for as long as it lives.                                      *)
(***************************************************************************)
EXTENDS EvalClaims, FiniteSetTheorems, TLAPS

-----------------------------------------------------------------------------
(* The inductive invariant.  Everything but the types is claimed of the     *)
(* behaviours without a fault only.                                        *)

Early == {"unborn", "acquire", "inspect", "reclaim", "claim"}
Bidding == {"attempt", "launch", "unclaim"}

Claiming(d) == DriverRecord(d, "claiming")

(* The claim lock excludes.                                                *)
LockHeld == \A d \in Driver : driver[d] \in {"inspect", "reclaim", "claim"} => lock = d

(* A launch that is still on its way is within its grace.                  *)
GraceLasts ==
    \A d \in Driver :
        /\ driver[d] \in Early \cup {"attempt", "launch"} => d \notin aged
        /\ WrapperAlive(d) /\ claim = Claiming(d) => d \notin aged

(* A wrapper and its evaluator come after the driver's claim; every record  *)
(* is of a driver run that has claimed.                                    *)
Order ==
    /\ \A d \in Driver : driver[d] \in Early \cup Bidding => wrapper[d] = "none"
    /\ \A d \in Driver : wrapper[d] \in {"none", "starting"} => evaluator[d] = "none"
    /\ claim = NoFile \/ (claim.by \in Driver /\ driver[claim.by] \notin Early)

(* Whoever is launching, announcing or watching owns the claim: nobody has  *)
(* taken it over and nobody may.                                           *)
Stakes ==
    \A d \in Driver :
        /\ driver[d] \in Bidding => claim = Claiming(d)
        /\ wrapper[d] \in {"starting", "spawned"} => claim = Claiming(d)
        /\ wrapper[d] \in {"published", "watching", "beat", "final"} => claim = Started(d)
        /\ wrapper[d] = "failing" => claim \in {Claiming(d), Started(d)}

(* An evaluator group is named in the claim or about to be.                *)
GroupsAreNamed ==
    \A d \in Driver :
        GroupExists(d) =>
            claim.group = d \/ (claim = Claiming(d) /\ wrapper[d] \in {"spawned", "failing"})

(* What is about to be recorded names the group if there still is one.     *)
OutcomesAreTrue ==
    \A d \in Driver :
        wrapper[d] \in {"final", "failing"} =>
            /\ outcome[d].by = d /\ outcome[d].owner = "nobody"
            /\ outcome[d].status # "claiming"
            /\ outcome[d].group \in {None, d}
            /\ GroupExists(d) => outcome[d].group = d

(* The holder of the lock works on what it has seen.                       *)
HolderIsRight ==
    \A d \in Driver :
        /\ driver[d] = "reclaim" => ~Retained(claim)
        /\ driver[d] = "claim" => claim = NoFile

Claimed ==
    /\ LockHeld
    /\ GraceLasts
    /\ Order
    /\ Stakes
    /\ GroupsAreNamed
    /\ OutcomesAreTrue
    /\ HolderIsRight

IInv == TypeOK /\ (faults = {} => Claimed)

-----------------------------------------------------------------------------
(* The records.                                                            *)

LEMMA Records ==
    /\ \A d \in Driver : \A st \in Status :
          /\ DriverRecord(d, st) \in File /\ DriverRecord(d, st).by = d
          /\ DriverRecord(d, st).owner = "driver" /\ DriverRecord(d, st).status = st
          /\ DriverRecord(d, st).group = None
    /\ \A d \in Driver :
          /\ Started(d) \in File /\ Started(d).by = d /\ Started(d).owner = "wrapper"
          /\ Started(d).status = "started" /\ Started(d).group = d
          /\ FailedStart(d) \in File
    /\ NoFile \in File /\ NoFile.by = None /\ NoFile.owner = "nobody"
    /\ NoFile.status = "absent" /\ NoFile.group = None
    /\ "claiming" \in Status /\ "launching" \in Status
BY DEF DriverRecord, Started, FailedStart, NoFile, File, Status

LEMMA EndedRecord ==
    ASSUME NEW d \in Driver, NEW st \in {"completed", "technical_eval_failed"}, NEW quiet \in BOOLEAN
    PROVE  /\ Ended(d, st, quiet) \in File
           /\ Ended(d, st, quiet).by = d /\ Ended(d, st, quiet).owner = "nobody"
           /\ Ended(d, st, quiet).status = st
           /\ Ended(d, st, quiet).group = IF quiet THEN None ELSE d
<1>1. CASE quiet
  BY <1>1 DEF Ended, File, Status
<1>2. CASE ~quiet
  BY <1>2 DEF Ended, File, Status
<1> QED
  BY <1>1, <1>2

-----------------------------------------------------------------------------
(* TypeOK.                                                                 *)

LEMMA DriverTyped ==
    ASSUME TypeOK, NEW d \in Driver, DriverStep(d) \/ DriverExits(d)
    PROVE  TypeOK'
<1>1. CASE Summarize(d) \/ TakeLock(d) \/ Inspect(d) \/ Launch(d)
  BY <1>1 DEF Summarize, TakeLock, Inspect, Launch, TypeOK
<1>2. CASE Reclaim(d) \/ WriteClaim(d) \/ WriteAttempt(d) \/ LaunchFails(d) \/ Unclaim(d)
  BY <1>2, Records DEF Reclaim, WriteClaim, WriteAttempt, LaunchFails, Unclaim, TypeOK
<1>3. CASE DriverExits(d)
  BY <1>3 DEF DriverExits, TypeOK
<1> QED
  BY <1>1, <1>2, <1>3 DEF DriverStep

LEMMA WrapperTyped ==
    ASSUME TypeOK, NEW d \in Driver, \/ WrapperStep(d) \/ Heartbeat(d) \/ Fails(d) \/ WrapperKilled(d)
    PROVE  TypeOK'
<1>1. CASE Spawn(d) \/ Heartbeat(d) \/ WrapperKilled(d)
  BY <1>1 DEF Spawn, Heartbeat, WrapperKilled, TypeOK
<1>2. CASE PublishClaim(d) \/ PublishAttempt(d)
  BY <1>2, Records DEF PublishClaim, PublishAttempt, TypeOK
<1>3. CASE Reap(d) \/ Fails(d)
  <2>1. PICK quiet \in BOOLEAN, status \in {"completed", "technical_eval_failed"} :
            /\ Terminate(d, quiet)
            /\ outcome' = [outcome EXCEPT ![d] = Ended(d, status, quiet)]
    BY <1>3 DEF Reap, Fails
  <2>2. outcome' \in [Driver -> File] /\ evaluator' \in [Driver -> {"none", "live", "residual", "gone"}]
    BY <2>1, EndedRecord DEF TypeOK, Terminate
  <2> QED
    BY <1>3, <2>2 DEF Reap, Fails, TypeOK
<1>4. CASE RecordClaim(d) \/ RecordAttempt(d)
  BY <1>4 DEF RecordClaim, RecordAttempt, TypeOK
<1> QED
  BY <1>1, <1>2, <1>3, <1>4 DEF WrapperStep

LEMMA TimeTyped ==
    ASSUME TypeOK, NEW d \in Driver, EvaluatorExits(d) \/ ResidualEnds(d) \/ GracePasses(d)
    PROVE  TypeOK'
BY DEF EvaluatorExits, ResidualEnds, GracePasses, TypeOK

-----------------------------------------------------------------------------
(* Claimed: the drivers.                                                   *)

(* A record that is not retained names nobody with a stake in it.          *)
LEMMA NobodyStakes ==
    ASSUME TypeOK, Claimed, ~Retained(claim) \/ claim = NoFile
    PROVE  \A d \in Driver :
               /\ driver[d] \notin Bidding
               /\ wrapper[d] \in {"none", "recorded", "failed", "gone"}
               /\ ~GroupExists(d)
<1> TAKE d \in Driver
<1> USE Records, DriverAssumption DEF Claiming
<1>1. claim = DriverRecord(d, "claiming") => ~DriverAlive(d) /\ ~(WrapperAlive(d))
  BY DEF Retained, OwnerActive, Bootstrapping, Claimed, GraceLasts
<1>2. claim = Started(d) => ~WrapperAlive(d)
  BY DEF Retained, OwnerActive
<1>3. driver[d] \notin Bidding
  BY <1>1 DEF Claimed, Stakes, Bidding, DriverAlive
<1>4. wrapper[d] \in {"none", "recorded", "failed", "gone"}
  BY <1>1, <1>2 DEF Claimed, Stakes, WrapperAlive, TypeOK
<1>5. ~GroupExists(d)
  BY <1>1, <1>4 DEF Claimed, GroupsAreNamed, Retained, ResidualGroupLive
<1> QED
  BY <1>3, <1>4, <1>5

LEMMA DriverClaimed ==
    ASSUME TypeOK, Claimed, NEW d \in Driver, DriverStep(d) \/ DriverExits(d)
    PROVE  Claimed'
<1> USE Records, DriverAssumption DEF TypeOK, Claimed, Claiming, Early, Bidding, WrapperAlive, GroupExists
<1>1. CASE Summarize(d) \/ TakeLock(d)
  <2>1. LockHeld' /\ GraceLasts' /\ Order' /\ Stakes' /\ GroupsAreNamed' /\ OutcomesAreTrue'
    BY <1>1 DEF Summarize, TakeLock, LockHeld, GraceLasts, Order, Stakes, GroupsAreNamed, OutcomesAreTrue
  <2>2. HolderIsRight'
    BY <1>1 DEF Summarize, TakeLock, HolderIsRight, Retained, OwnerActive, ResidualGroupLive, Bootstrapping,
       DriverAlive, Order
  <2> QED
    BY <2>1, <2>2
<1>2. CASE Inspect(d)
  <2>1. LockHeld' /\ GraceLasts' /\ Order' /\ Stakes' /\ GroupsAreNamed' /\ OutcomesAreTrue'
    BY <1>2 DEF Inspect, LockHeld, GraceLasts, Order, Stakes, GroupsAreNamed, OutcomesAreTrue
  <2>2. HolderIsRight'
    BY <1>2 DEF Inspect, HolderIsRight, LockHeld, Retained, OwnerActive, ResidualGroupLive, Bootstrapping,
       DriverAlive
  <2> QED
    BY <2>1, <2>2
<1>3. CASE Reclaim(d)
  <2>1. \A e \in Driver :
            /\ driver[e] \notin Bidding
            /\ wrapper[e] \in {"none", "recorded", "failed", "gone"}
            /\ ~GroupExists(e)
    BY <1>3, NobodyStakes DEF Reclaim, HolderIsRight
  <2> QED
    BY <1>3, <2>1 DEF Reclaim, LockHeld, GraceLasts, Order, Stakes, GroupsAreNamed, OutcomesAreTrue,
       HolderIsRight
<1>4. CASE WriteClaim(d)
  <2>1. \A e \in Driver :
            /\ driver[e] \notin Bidding
            /\ wrapper[e] \in {"none", "recorded", "failed", "gone"}
            /\ ~GroupExists(e)
    BY <1>4, NobodyStakes DEF WriteClaim, HolderIsRight
  <2>2. wrapper[d] = "none" /\ d \notin aged
    BY <1>4 DEF WriteClaim, Order, GraceLasts
  <2> QED
    BY <1>4, <2>1, <2>2 DEF WriteClaim, LockHeld, GraceLasts, Order, Stakes, GroupsAreNamed, OutcomesAreTrue,
       HolderIsRight
<1>5. CASE WriteAttempt(d) \/ Launch(d) \/ LaunchFails(d)
  <2>1. LockHeld' /\ GraceLasts' /\ Order' /\ Stakes' /\ GroupsAreNamed' /\ OutcomesAreTrue'
    BY <1>5 DEF WriteAttempt, Launch, LaunchFails, LockHeld, GraceLasts, Order, Stakes, GroupsAreNamed,
       OutcomesAreTrue
  <2>2. HolderIsRight'
    BY <1>5 DEF WriteAttempt, Launch, LaunchFails, HolderIsRight, Stakes, Retained, OwnerActive,
       ResidualGroupLive, Bootstrapping, DriverAlive
  <2> QED
    BY <2>1, <2>2
<1>6. CASE Unclaim(d)
  BY <1>6 DEF Unclaim, LockHeld, GraceLasts, Order, Stakes, GroupsAreNamed, OutcomesAreTrue, HolderIsRight,
     Retained, OwnerActive, DriverAlive
<1>7. CASE DriverExits(d)
  <2>1. LockHeld' /\ GraceLasts' /\ Order' /\ Stakes' /\ GroupsAreNamed' /\ OutcomesAreTrue'
    BY <1>7 DEF DriverExits, LockHeld, GraceLasts, Order, Stakes, GroupsAreNamed, OutcomesAreTrue
  <2>2. HolderIsRight'
    BY <1>7 DEF DriverExits, HolderIsRight, Retained, OwnerActive, ResidualGroupLive, Bootstrapping, DriverAlive
  <2> QED
    BY <2>1, <2>2
<1> QED
  BY <1>1, <1>2, <1>3, <1>4, <1>5, <1>6, <1>7 DEF DriverStep

-----------------------------------------------------------------------------
(* Claimed: the wrappers, their evaluators and the clock.                  *)

(* While somebody has a stake in the claim, nobody holds the lock to take   *)
(* it over or to write a new one.                                          *)
LEMMA StakeKeepsHolderOff ==
    ASSUME TypeOK, Claimed, NEW e \in Driver,
           \/ wrapper[e] \in {"starting", "spawned", "published", "watching", "beat", "final", "failing"}
           \/ GroupExists(e)
    PROVE  \A d \in Driver : driver[d] \notin {"reclaim", "claim"}
<1>1. Retained(claim) /\ claim # NoFile
  BY NobodyStakes
<1> QED
  BY <1>1 DEF Claimed, HolderIsRight

LEMMA WrapperStarts ==
    ASSUME TypeOK, Claimed, NEW d \in Driver,
           Spawn(d) \/ PublishClaim(d) \/ PublishAttempt(d) \/ Heartbeat(d)
    PROVE  Claimed'
<1> USE Records, DriverAssumption DEF TypeOK, Claimed, Claiming, Early, Bidding, WrapperAlive, GroupExists
<1>1. wrapper[d] \in {"starting", "spawned", "published", "watching", "beat"}
  BY DEF Spawn, PublishClaim, PublishAttempt, Heartbeat
<1>2. HolderIsRight'
  <2>1. \A e \in Driver : driver[e] \notin {"reclaim", "claim"}
    BY <1>1, StakeKeepsHolderOff
  <2> QED
    BY <2>1 DEF Spawn, PublishClaim, PublishAttempt, Heartbeat, HolderIsRight
<1>3. CASE Spawn(d)
  BY <1>2, <1>3 DEF Spawn, LockHeld, GraceLasts, Order, Stakes, GroupsAreNamed, OutcomesAreTrue
<1>4. CASE PublishClaim(d)
  BY <1>2, <1>4 DEF PublishClaim, LockHeld, GraceLasts, Order, Stakes, GroupsAreNamed, OutcomesAreTrue
<1>5. CASE PublishAttempt(d) \/ Heartbeat(d)
  BY <1>2, <1>5 DEF PublishAttempt, Heartbeat, LockHeld, GraceLasts, Order, Stakes, GroupsAreNamed,
     OutcomesAreTrue
<1> QED
  BY <1>3, <1>4, <1>5

LEMMA WrapperSettles ==
    ASSUME TypeOK, Claimed, faults = {}, NEW d \in Driver, Reap(d) \/ Fails(d)
    PROVE  Claimed'
<1> USE Records, DriverAssumption DEF TypeOK, Claimed, Claiming, Early, Bidding, WrapperAlive
<1>1. wrapper[d] \in {"starting", "spawned", "published", "watching", "beat", "final"}
  BY DEF Reap, Fails
<1>2. HolderIsRight'
  <2>1. \A e \in Driver : driver[e] \notin {"reclaim", "claim"}
    BY <1>1, StakeKeepsHolderOff
  <2> QED
    BY <2>1 DEF Reap, Fails, HolderIsRight
<1>3. PICK quiet \in BOOLEAN, status \in {"completed", "technical_eval_failed"} :
          /\ Terminate(d, quiet)
          /\ outcome' = [outcome EXCEPT ![d] = Ended(d, status, quiet)]
  BY DEF Reap, Fails
<1>4. UNCHANGED <<faults, driver, lock, aged, claim>>
  BY DEF Reap, Fails
<1>5. \/ /\ wrapper' = [wrapper EXCEPT ![d] = IF Reap(d) THEN "final" ELSE "failing"]
         /\ Reap(d) => wrapper[d] = "watching"
      \/ wrapper' = [wrapper EXCEPT ![d] = "failing"]
  BY DEF Reap, Fails
<1>6. /\ outcome'[d].by = d /\ outcome'[d].owner = "nobody" /\ outcome'[d].status # "claiming"
      /\ outcome'[d].group = IF quiet THEN None ELSE d
      /\ \A e \in Driver \ {d} : outcome'[e] = outcome[e]
  BY <1>3, EndedRecord
<1>7. /\ GroupExists(d)' => GroupExists(d) /\ ~quiet
      /\ wrapper[d] = "starting" => evaluator'[d] = "none"
      /\ \A e \in Driver \ {d} : evaluator'[e] = evaluator[e]
  BY <1>3 DEF Terminate, GroupExists, Order
<1>8. wrapper'[d] = "failing" \/ (wrapper'[d] = "final" /\ wrapper[d] = "watching")
  BY DEF Reap, Fails
<1>9. \A e \in Driver \ {d} : wrapper'[e] = wrapper[e]
  BY DEF Reap, Fails
<1>10. LockHeld' /\ GraceLasts' /\ Order'
  BY <1>1, <1>4, <1>7, <1>8, <1>9 DEF LockHeld, GraceLasts, Order
<1>11. Stakes'
  BY <1>1, <1>4, <1>8, <1>9 DEF Stakes
<1>12. GroupsAreNamed'
  BY <1>1, <1>4, <1>7, <1>8, <1>9 DEF GroupsAreNamed, GroupExists, Stakes
<1>13. OutcomesAreTrue'
  BY <1>6, <1>7, <1>8, <1>9 DEF OutcomesAreTrue, GroupExists
<1> QED
  BY <1>2, <1>10, <1>11, <1>12, <1>13

LEMMA WrapperRecords ==
    ASSUME TypeOK, Claimed, faults = {}, NEW d \in Driver,
           RecordClaim(d) \/ RecordAttempt(d) \/ WrapperKilled(d)
    PROVE  Claimed'
<1> USE Records, DriverAssumption DEF TypeOK, Claimed, Claiming, Early, Bidding, WrapperAlive, GroupExists
<1>1. CASE RecordClaim(d)
  <2>1. wrapper[d] \in {"final", "failing"} /\ UNCHANGED <<faults, driver, lock, outcome, evaluator, aged>>
    BY <1>1 DEF RecordClaim
  <2>2. \/ claim' = outcome[d]
        \/ claim' = claim /\ (claim = DriverRecord(d, "claiming") => ~GroupExists(d))
    BY <1>1 DEF RecordClaim, MayLose, Unannounced
  <2>3. wrapper'[d] \in {"recorded", "failed"} /\ \A e \in Driver \ {d} : wrapper'[e] = wrapper[e]
    BY <1>1 DEF RecordClaim
  <2>4. \A e \in Driver \ {d} :
            /\ driver[e] \notin Bidding
            /\ wrapper[e] \in {"none", "recorded", "failed", "gone"}
            /\ ~GroupExists(e)
    BY <2>1 DEF Stakes, GroupsAreNamed
  <2>5. driver[d] \notin Early \cup Bidding
    BY <2>1 DEF Order
  <2>6. \A e \in Driver : driver[e] \notin {"reclaim", "claim"}
    BY <2>1, StakeKeepsHolderOff
  <2>7. LockHeld' /\ OutcomesAreTrue' /\ HolderIsRight'
    BY <2>1, <2>3, <2>6 DEF LockHeld, OutcomesAreTrue, HolderIsRight
  <2>8. GraceLasts' /\ Order'
    BY <2>1, <2>2, <2>3, <2>4, <2>5 DEF GraceLasts, Order, OutcomesAreTrue
  <2>9. Stakes'
    BY <2>1, <2>3, <2>4, <2>5 DEF Stakes
  <2>10. GroupsAreNamed'
    BY <2>1, <2>2, <2>4 DEF GroupsAreNamed, OutcomesAreTrue
  <2> QED
    BY <2>7, <2>8, <2>9, <2>10
<1>2. CASE RecordAttempt(d)
  BY <1>2 DEF RecordAttempt, LockHeld, GraceLasts, Order, Stakes, GroupsAreNamed, OutcomesAreTrue,
     HolderIsRight, Retained, OwnerActive, ResidualGroupLive, Bootstrapping, DriverAlive
<1>3. CASE WrapperKilled(d)
  <2>1. claim = DriverRecord(d, "claiming") => ~GroupExists(d)
    BY <1>3 DEF WrapperKilled, MayLose, Unannounced
  <2>2. LockHeld' /\ GraceLasts' /\ Order' /\ Stakes' /\ GroupsAreNamed' /\ OutcomesAreTrue'
    BY <1>3, <2>1 DEF WrapperKilled, LockHeld, GraceLasts, Order, Stakes, GroupsAreNamed, OutcomesAreTrue
  <2>3. HolderIsRight'
    BY <1>3 DEF WrapperKilled, HolderIsRight, Retained, OwnerActive, ResidualGroupLive, Bootstrapping,
       DriverAlive
  <2> QED
    BY <2>2, <2>3
<1> QED
  BY <1>1, <1>2, <1>3

LEMMA TimeClaimed ==
    ASSUME TypeOK, Claimed, faults = {}, NEW d \in Driver,
           EvaluatorExits(d) \/ ResidualEnds(d) \/ GracePasses(d)
    PROVE  Claimed'
<1> USE Records, DriverAssumption DEF TypeOK, Claimed, Claiming, Early, Bidding, WrapperAlive, GroupExists
<1>1. CASE EvaluatorExits(d) \/ ResidualEnds(d)
  <2>1. PICK after \in {"residual", "gone"} : evaluator' = [evaluator EXCEPT ![d] = after]
    BY <1>1 DEF EvaluatorExits, ResidualEnds
  <2>2. evaluator[d] \in {"live", "residual"}
    BY <1>1 DEF EvaluatorExits, ResidualEnds
  <2>3. \A e \in Driver : /\ GroupExists(e)' => GroupExists(e)
                          /\ evaluator[e] = "none" => evaluator'[e] = "none"
    BY <2>1, <2>2
  <2>4. UNCHANGED <<faults, driver, lock, wrapper, outcome, aged, claim>>
    BY <1>1 DEF EvaluatorExits, ResidualEnds
  <2>5. LockHeld' /\ GraceLasts' /\ Order' /\ Stakes' /\ GroupsAreNamed' /\ OutcomesAreTrue'
    BY <2>3, <2>4 DEF LockHeld, GraceLasts, Order, Stakes, GroupsAreNamed, OutcomesAreTrue
  <2>6. Retained(claim)' => Retained(claim)
    BY <2>3, <2>4 DEF Retained, OwnerActive, ResidualGroupLive, Bootstrapping, DriverAlive, File
  <2> QED
    BY <2>4, <2>5, <2>6 DEF HolderIsRight
<1>2. CASE GracePasses(d)
  <2>1. ~OnItsWay(d) /\ driver[d] # "unborn" /\ aged' = aged \cup {d}
    BY <1>2 DEF GracePasses
  <2>2. GraceLasts'
    BY <1>2, <2>1 DEF GracePasses, OnItsWay, GraceLasts
  <2> QED
    BY <1>2, <2>2 DEF GracePasses, LockHeld, Order, Stakes, GroupsAreNamed, OutcomesAreTrue,
       HolderIsRight, Retained, OwnerActive, ResidualGroupLive, Bootstrapping, DriverAlive
<1> QED
  BY <1>1, <1>2

-----------------------------------------------------------------------------
LEMMA InitInvariant == Init => IInv
<1> SUFFICES ASSUME Init PROVE IInv
  OBVIOUS
<1>1. TypeOK
  BY Records DEF Init, TypeOK
<1>2. Claimed
  BY Records, DriverAssumption DEF Init, Claimed, LockHeld, GraceLasts, Order, Stakes, GroupsAreNamed,
     OutcomesAreTrue, HolderIsRight, WrapperAlive, GroupExists, Early, Bidding
<1> QED
  BY <1>1, <1>2 DEF IInv

LEMMA FaultsAreFixed == Next => UNCHANGED faults
BY DEF Next, DriverStep, DriverExits, WrapperStep, Heartbeat, Fails, WrapperKilled, EvaluatorExits,
   ResidualEnds, GracePasses, Summarize, TakeLock, Inspect, Reclaim, WriteClaim, WriteAttempt, Launch,
   LaunchFails, Unclaim, Spawn, PublishClaim, PublishAttempt, Reap, RecordClaim, RecordAttempt

LEMMA NextInvariant == IInv /\ [Next]_vars => IInv'
<1> SUFFICES ASSUME IInv, [Next]_vars PROVE IInv'
  OBVIOUS
<1>1. CASE UNCHANGED vars
  BY <1>1 DEF vars, IInv, TypeOK, Claimed, LockHeld, GraceLasts, Order, Stakes, GroupsAreNamed,
     OutcomesAreTrue, HolderIsRight, Retained, OwnerActive, ResidualGroupLive, Bootstrapping,
     DriverAlive, WrapperAlive, GroupExists
<1>2. CASE Next
  <2>1. TypeOK'
    BY <1>2, DriverTyped, WrapperTyped, TimeTyped DEF Next, IInv
  <2>2. ASSUME faults = {} PROVE Claimed'
    BY <1>2, <2>2, DriverClaimed, WrapperStarts, WrapperSettles, WrapperRecords, TimeClaimed
    DEF Next, WrapperStep, IInv
  <2> QED
    BY <1>2, <2>1, <2>2, FaultsAreFixed DEF IInv
<1> QED
  BY <1>1, <1>2

LEMMA Invariance == Spec => []IInv
BY InitInvariant, NextInvariant, PTL DEF Spec

-----------------------------------------------------------------------------
(* Every reachable state of the drivers, wrappers, evaluators and files is  *)
(* typed, with and without the faults.                                     *)
THEOREM TypeCorrect == Spec => []TypeOK
<1>1. IInv => TypeOK
  BY DEF IInv
<1> QED
  BY Invariance, <1>1, PTL

(* However many driver runs decide from stale summaries, take over claims   *)
(* and die, one candidate has one evaluator at a time.                     *)
THEOREM EvaluatorsExclude == Spec => []OneEvaluator
<1>1. IInv => OneEvaluator
  <2> SUFFICES ASSUME IInv, faults = {}
               PROVE  Cardinality({d \in Driver : GroupExists(d)}) <= 1
    BY DEF OneEvaluator
  <2>1. \A d, e \in Driver : GroupExists(d) /\ GroupExists(e) => d = e
    BY Records, DriverAssumption DEF IInv, Claimed, GroupsAreNamed, Claiming
  <2>2. CASE {d \in Driver : GroupExists(d)} = {}
    BY <2>2, FS_EmptySet
  <2>3. CASE {d \in Driver : GroupExists(d)} # {}
    <3>1. PICK d \in Driver : GroupExists(d)
      BY <2>3
    <3>2. {e \in Driver : GroupExists(e)} = {d}
      BY <2>1, <3>1
    <3>3. Cardinality({d}) = 1
      BY FS_Singleton
    <3> QED
      BY <3>2, <3>3
  <2> QED
    BY <2>2, <2>3
<1> QED
  BY Invariance, <1>1, PTL

(* What may write the claim under an evaluator that lives.                 *)
LEMMA NamedStaysNamed ==
    ASSUME TypeOK, Claimed, faults = {}, Next,
           NEW d \in Driver, claim.group = d, evaluator'[d] \in {"live", "residual"}
    PROVE  claim'.group = d
<1> USE Records, DriverAssumption DEF Claiming
<1> SUFFICES ASSUME claim' # claim PROVE claim'.group = d
  OBVIOUS
<1>1. PICK e \in Driver :
          \/ Reclaim(e) \/ WriteClaim(e) \/ Unclaim(e) \/ PublishClaim(e) \/ RecordClaim(e)
  BY DEF Next, DriverStep, DriverExits, WrapperStep, Heartbeat, Fails, WrapperKilled, EvaluatorExits,
     ResidualEnds, GracePasses, Summarize, TakeLock, Inspect, WriteAttempt, Launch, LaunchFails, Spawn,
     PublishAttempt, Reap, RecordAttempt
<1>2. GroupExists(d)
  BY <1>1 DEF Reclaim, WriteClaim, Unclaim, PublishClaim, RecordClaim, GroupExists
<1>3. ~Reclaim(e) /\ ~WriteClaim(e)
  BY <1>2, NobodyStakes DEF Reclaim, WriteClaim, Claimed, HolderIsRight
<1>4. ~Unclaim(e)
  BY DEF Unclaim, Claimed, Stakes, Bidding
<1>5. CASE PublishClaim(e)
  BY <1>5 DEF PublishClaim, Claimed, Stakes
<1>6. CASE RecordClaim(e)
  <2>1. e = d
    BY <1>6 DEF RecordClaim, Claimed, Stakes
  <2> QED
    BY <1>2, <1>6, <2>1 DEF RecordClaim, Claimed, OutcomesAreTrue
<1> QED
  BY <1>1, <1>3, <1>4, <1>5, <1>6

(* No takeover, failed launch or late write takes the claim away from an    *)
(* announced evaluator of which a process still lives.                     *)
THEOREM AnnouncedStaysClaimed == Spec => AnnouncedEvaluatorStaysClaimed
<1> DEFINE Kept == \A d \in Driver :
                     faults = {} /\ claim.group = d /\ evaluator'[d] \in {"live", "residual"}
                        => claim'.group = d
<1>1. ASSUME IInv, Next PROVE Kept
  BY <1>1, NamedStaysNamed DEF IInv
<1>2. ASSUME UNCHANGED vars PROVE Kept
  BY <1>2 DEF vars
<1>3. IInv /\ [Next]_vars => [Kept]_vars
  BY <1>1, <1>2
<1> QED
  BY Invariance, <1>3, PTL DEF Spec, AnnouncedEvaluatorStaysClaimed
=============================================================================
