----------------------- MODULE BatchController_proofs -----------------------
(***************************************************************************)
(* Theorems about the batch controller for every set of indices, every     *)
(* worker policy and every set of outcomes: first its loop alone           *)
(* (ParallelRunner), then the loop with its recovery rounds, its files and *)
(* its restarts (TechnicalRecovery), for any number of rounds and restarts.*)
(***************************************************************************)
EXTENDS TechnicalRecovery, FiniteSetTheorems, TLAPS

-----------------------------------------------------------------------------
(* Lemmas about the operators of the model.                                *)

(* A read of the capacity file leaves a legal worker count.                *)
LEMMA CapacityType ==
    ASSUME NEW read \in CapacityReads, NEW n \in 1..MaxWorkers
    PROVE  CapacityControlWorkers(read, n) \in 1..MaxWorkers
BY WorkersAssumption, CapacityAssumption DEF CapacityControlWorkers, Smaller

(* A probed result is still a result.                                      *)
LEMMA ConfirmedType ==
    ASSUME NEW r \in Result, NEW evalOnly \in BOOLEAN, NEW c \in Confirmed(r, evalOnly)
    PROVE  c \in Result
BY DEF Confirmed, AfterProbe, Result, Scope, Probe

-----------------------------------------------------------------------------
(* Type correctness.  It is not inductive alone: a popped future must have  *)
(* a result, which only the worker that made it "finished" stored.          *)
TypeInv ==
    /\ TypeOK
    /\ waitDone \subseteq finished
    /\ \A i \in finished : result[i] \in Result

LEMMA InitTypeInv == Init => TypeInv
<1> SUFFICES ASSUME Init PROVE TypeInv
  OBVIOUS
<1>1. workers \in 1..MaxWorkers /\ accepted \in 0..MaxWorkers /\ streak \in 0..RecoveryTasks
  BY WorkersAssumption DEF Init, Smaller
<1>2. result \in [Index -> Result \cup {NoResult}] /\ tries \in [Index -> 0..RunnerAttempts]
  BY OutcomesAssumption DEF Init
<1>3. batch \in Seq(Index)
  BY DEF Init
<1>4. published \in [fact : {"none"}, status : {"running"}]
  BY DEF Init, Unpublished
<1> QED
  BY <1>1, <1>2, <1>3, <1>4 DEF Init, TypeInv, TypeOK, QueueTypeOK, NoIndex

LEMMA RefreshTypeInv == TypeInv /\ Refresh => TypeInv'
<1> SUFFICES ASSUME TypeInv, Refresh PROVE TypeInv'
  OBVIOUS
<1>1. workers' \in 1..MaxWorkers /\ accepted' \in 0..MaxWorkers
  BY CapacityType, WorkersAssumption DEF Refresh, RefreshCapacity, TypeInv, TypeOK, QueueTypeOK
<1> QED
  BY <1>1 DEF Refresh, TypeInv, TypeOK, QueueTypeOK, queueVars

LEMMA SubmitTypeInv == TypeInv /\ Submit => TypeInv'
<1> SUFFICES ASSUME TypeInv, Submit PROVE TypeInv'
  OBVIOUS
<1>1. PICK i \in pending : /\ pending' = pending \ {i}
                           /\ running' = running \cup {i}
                           /\ tries' = [tries EXCEPT ![i] = 1]
  BY DEF Submit, SubmitFirst
<1>2. tries' \in [Index -> 0..RunnerAttempts]
  BY <1>1, OutcomesAssumption DEF TypeInv, TypeOK, QueueTypeOK
<1> QED
  BY <1>1, <1>2 DEF Submit, SubmitFirst, TypeInv, TypeOK, QueueTypeOK, schedVars

LEMMA ProbeOneTypeInv == TypeInv /\ ProbeOne => TypeInv'
<1> SUFFICES ASSUME TypeInv, ProbeOne PROVE TypeInv'
  OBVIOUS
<1>0. PICK i \in waitDone :
          /\ waitDone' = waitDone \ {i}
          /\ finished' = finished \ {i}
          /\ batch' = Append(batch, i)
          /\ \E r \in Confirmed(result[i], FALSE) : result' = [result EXCEPT ![i] = r]
  BY DEF ProbeOne
<1>1. PICK r \in Confirmed(result[i], FALSE) : result' = [result EXCEPT ![i] = r]
  BY <1>0
<1>2. i \in Index /\ r \in Result
  BY <1>1, ConfirmedType DEF TypeInv, TypeOK, QueueTypeOK
<1>3. batch' \in Seq(Index)
  BY <1>0, <1>2 DEF TypeInv, TypeOK, QueueTypeOK
<1>4. /\ result' \in [Index -> Result \cup {NoResult}]
      /\ \A j \in finished' : result'[j] \in Result
  BY <1>0, <1>1, <1>2 DEF TypeInv, TypeOK, QueueTypeOK
<1>5. pc' \in {"settle", "probe"}
  BY DEF ProbeOne
<1> QED
  BY <1>0, <1>3, <1>4, <1>5 DEF ProbeOne, TypeInv, TypeOK, QueueTypeOK, schedVars

LEMMA SettleTypeInv == TypeInv /\ Settle => TypeInv'
<1> SUFFICES ASSUME TypeInv, Settle PROVE TypeInv'
  OBVIOUS
<1>1. Head(batch) \in Index /\ batch' \in Seq(Index)
  BY DEF Settle, TypeInv, TypeOK, QueueTypeOK
<1>2. workers' \in 1..MaxWorkers /\ streak' \in 0..RecoveryTasks
  BY WorkersAssumption
     DEF Settle, UpdateSchedulerState, Smaller, Larger, TypeInv, TypeOK, QueueTypeOK
<1>3. /\ halted' \in BOOLEAN
      /\ haltIndex' \in Index \cup {NoIndex}
      /\ notStarted' \subseteq Index
  BY <1>1 DEF Settle, HaltOn, TypeInv, TypeOK, QueueTypeOK
<1>4. pc' \in {"refresh", "settle"}
  BY DEF Settle
<1> QED
  BY <1>1, <1>2, <1>3, <1>4 DEF Settle, TypeInv, TypeOK, QueueTypeOK

LEMMA WorkerRetriesTypeInv == TypeInv /\ WorkerRetries => TypeInv'
<1> SUFFICES ASSUME TypeInv, NEW i \in Index, ChildRetried(i),
                    UNCHANGED <<schedVars, accepted, pc, published>>
             PROVE  TypeInv'
  BY DEF WorkerRetries
<1>1. tries' \in [Index -> 0..RunnerAttempts]
  BY OutcomesAssumption DEF ChildRetried, TypeInv, TypeOK, QueueTypeOK
<1> QED
  BY <1>1 DEF ChildRetried, TypeInv, TypeOK, QueueTypeOK, schedVars

LEMMA WorkerReturnsTypeInv ==
    ASSUME TypeInv, NEW i \in Index, WorkerReturns(i)
    PROVE  TypeInv'
<1>1. PICK r \in Outcomes : ChildReturns(i, r)
  BY DEF WorkerReturns
<1>2. r \in Result
  BY OutcomesAssumption DEF RunOneResult
<1>3. /\ result' \in [Index -> Result \cup {NoResult}]
      /\ \A j \in finished' : result'[j] \in Result
  BY <1>1, <1>2 DEF ChildReturns, TypeInv, TypeOK, QueueTypeOK
<1> QED
  BY <1>1, <1>3 DEF WorkerReturns, ChildReturns, TypeInv, TypeOK, QueueTypeOK, schedVars

LEMMA FinishTypeInv == TypeInv /\ Finish => TypeInv'
<1> SUFFICES ASSUME TypeInv, Finish PROVE TypeInv'
  OBVIOUS
<1>1. PICK fact \in FactReport :
          published' = [fact |-> fact, status |-> AggregateStatus(fact)]
  BY DEF Finish
<1>2. fact \in {"not_built_batch_halted", "not_built_incomplete_tasks", "done",
                "done_with_technical_failures", "validation_failure"}
  BY <1>1 DEF FactReport
<1>3. AggregateStatus(fact) \in {"running", "done", "done_with_technical_failures",
                                 "done_with_report_validation_failure",
                                 "halted_on_technical_failure"}
  <2>1. CASE fact \in {"not_built_batch_halted", "not_built_incomplete_tasks"}
    <3>1. halted \/ Incomplete # {}
      BY <1>1, <2>1 DEF FactReport
    <3> QED
      BY <3>1 DEF AggregateStatus
  <2>2. CASE fact \in {"done", "done_with_technical_failures", "validation_failure"}
    BY <2>2 DEF AggregateStatus
  <2> QED
    BY <1>2, <2>1, <2>2
<1> QED
  BY <1>1, <1>2, <1>3 DEF Finish, TypeInv, TypeOK, QueueTypeOK, queueVars, schedVars

LEMMA NextTypeInv == TypeInv /\ [Next]_vars => TypeInv'
<1> SUFFICES ASSUME TypeInv, [Next]_vars PROVE TypeInv'
  OBVIOUS
<1>1. CASE Refresh
  BY <1>1, RefreshTypeInv
<1>2. CASE Submit
  BY <1>2, SubmitTypeInv
<1>3. CASE LeaveSubmit
  BY <1>3 DEF LeaveSubmit, TypeInv, TypeOK, QueueTypeOK, queueVars, schedVars
<1>4. CASE WaitReturns
  BY <1>4 DEF WaitReturns, TypeInv, TypeOK, QueueTypeOK, schedVars
<1>5. CASE WaitTimesOut
  BY <1>5 DEF WaitTimesOut, TypeInv, TypeOK, QueueTypeOK, queueVars, schedVars
<1>6. CASE ProbeOne
  BY <1>6, ProbeOneTypeInv
<1>7. CASE Settle
  BY <1>7, SettleTypeInv
<1>8. CASE Finish
  BY <1>8, FinishTypeInv
<1>9. CASE WorkerRetries
  BY <1>9, WorkerRetriesTypeInv
<1>10. CASE \E i \in Index : WorkerReturns(i)
  BY <1>10, WorkerReturnsTypeInv
<1>11. CASE UNCHANGED vars
  BY <1>11 DEF vars, queueVars, schedVars, TypeInv, TypeOK, QueueTypeOK
<1> QED
  BY <1>1, <1>2, <1>3, <1>4, <1>5, <1>6, <1>7, <1>8, <1>9, <1>10, <1>11
     DEF Next, Controller

(* Type correctness of the controller, for every batch and worker policy.  *)
THEOREM TypeCorrect == Spec => []TypeOK
<1>1. TypeInv => TypeOK
  BY DEF TypeInv
<1> QED
  BY <1>1, InitTypeInv, NextTypeInv, PTL DEF Spec

-----------------------------------------------------------------------------
(* The elements of a batch after a result is appended or settled.          *)
LEMMA AppendElements ==
    ASSUME NEW S, NEW b \in Seq(S), NEW e \in S
    PROVE  {Append(b, e)[k] : k \in 1..Len(Append(b, e))} = {b[k] : k \in 1..Len(b)} \cup {e}
<1> DEFINE c == Append(b, e)
<1>1. /\ Len(c) = Len(b) + 1 /\ Len(b) \in Nat
      /\ c[Len(b) + 1] = e
      /\ \A k \in 1..Len(b) : c[k] = b[k]
  OBVIOUS
<1>2. 1..Len(c) = 1..Len(b) \cup {Len(b) + 1}
  BY <1>1
<1> HIDE DEF c
<1>3. {c[k] : k \in 1..Len(c)} = {b[k] : k \in 1..Len(b)} \cup {e}
  BY <1>1, <1>2
<1> QED
  BY <1>3 DEF c

LEMMA TailElements ==
    ASSUME NEW S, NEW b \in Seq(S), b # <<>>,
           \A k, m \in 1..Len(b) : b[k] = b[m] => k = m
    PROVE  /\ {Tail(b)[k] : k \in 1..Len(Tail(b))} = {b[k] : k \in 1..Len(b)} \ {Head(b)}
           /\ Head(b) \in {b[k] : k \in 1..Len(b)}
           /\ \A k, m \in 1..Len(Tail(b)) : Tail(b)[k] = Tail(b)[m] => k = m
<1> DEFINE c == Tail(b)
<1>1. /\ Len(b) \in Nat /\ Len(b) >= 1 /\ Len(c) = Len(b) - 1
      /\ Head(b) = b[1]
      /\ \A k \in 1..Len(c) : c[k] = b[k + 1]
  OBVIOUS
<1> HIDE DEF c
<1>2. \A k \in 1..Len(c) : k + 1 \in 1..Len(b) /\ k + 1 # 1
  BY <1>1
<1>3. \A m \in 1..Len(b) : m # 1 => m - 1 \in 1..Len(c) /\ c[m - 1] = b[m]
  BY <1>1
<1>4. {c[k] : k \in 1..Len(c)} \subseteq {b[k] : k \in 1..Len(b)} \ {Head(b)}
  BY <1>1, <1>2
<1>5. {b[k] : k \in 1..Len(b)} \ {Head(b)} \subseteq {c[k] : k \in 1..Len(c)}
  BY <1>1, <1>3
<1>6. \A k, m \in 1..Len(c) : c[k] = c[m] => k = m
  BY <1>1, <1>2
<1>7. Head(b) \in {b[k] : k \in 1..Len(b)}
  BY <1>1
<1> QED
  BY <1>4, <1>5, <1>6, <1>7 DEF c

LEMMA AppendInjective ==
    ASSUME NEW S, NEW b \in Seq(S), NEW e \in S,
           \A k, m \in 1..Len(b) : b[k] = b[m] => k = m,
           e \notin {b[k] : k \in 1..Len(b)}
    PROVE  \A k, m \in 1..Len(Append(b, e)) : Append(b, e)[k] = Append(b, e)[m] => k = m
<1> DEFINE c == Append(b, e)
<1>1. /\ Len(c) = Len(b) + 1 /\ Len(b) \in Nat
      /\ c[Len(b) + 1] = e
      /\ \A k \in 1..Len(b) : c[k] = b[k]
  OBVIOUS
<1> HIDE DEF c
<1>2. \A k \in 1..Len(c) : k \in 1..Len(b) \/ k = Len(b) + 1
  BY <1>1
<1>3. \A k \in 1..Len(b) : c[k] # e
  BY <1>1
<1>4. \A k, m \in 1..Len(c) : c[k] = c[m] => k = m
  BY <1>1, <1>2, <1>3
<1> QED
  BY <1>4 DEF c

-----------------------------------------------------------------------------
(* Census is inductive relative to the type invariant: each action moves   *)
(* one index from one place to the next.                                   *)
LEMMA ProbeOneCensus == TypeInv /\ Census /\ ProbeOne => Census'
<1> SUFFICES ASSUME TypeInv, Census, ProbeOne PROVE Census'
  OBVIOUS
<1>1. PICK i \in waitDone : finished' = finished \ {i} /\ batch' = Append(batch, i)
  BY DEF ProbeOne
<1>2. i \in finished /\ i \in Index /\ batch \in Seq(Index)
  BY DEF TypeInv, TypeOK, QueueTypeOK
<1>3. BatchSet' = BatchSet \cup {i}
  BY <1>1, <1>2, AppendElements DEF BatchSet
<1>4. \A k, m \in 1..Len(batch') : batch'[k] = batch'[m] => k = m
  BY <1>1, <1>2, AppendInjective DEF BatchSet, Census
<1> QED
  BY <1>1, <1>2, <1>3, <1>4 DEF ProbeOne, Census

LEMMA SettleCensus == TypeInv /\ Census /\ Settle => Census'
<1> SUFFICES ASSUME TypeInv, Census, Settle PROVE Census'
  OBVIOUS
<1>1. batch # <<>> /\ batch' = Tail(batch) /\ settled' = settled \cup {Head(batch)}
  BY DEF Settle
<1>2. batch \in Seq(Index)
  BY DEF TypeInv, TypeOK, QueueTypeOK
<1>3. /\ BatchSet' = BatchSet \ {Head(batch)}
      /\ Head(batch) \in BatchSet
      /\ \A k, m \in 1..Len(batch') : batch'[k] = batch'[m] => k = m
  BY <1>1, <1>2, TailElements DEF BatchSet, Census
<1> QED
  BY <1>1, <1>3 DEF Settle, Census

LEMMA InitCensus == Init => Census
BY DEF Init, Census, BatchSet

LEMMA NextCensus == TypeInv /\ Census /\ [Next]_vars => Census'
<1> SUFFICES ASSUME TypeInv, Census, [Next]_vars PROVE Census'
  OBVIOUS
<1>1. CASE Submit
  <2>1. PICK i \in pending : pending' = pending \ {i} /\ running' = running \cup {i}
    BY <1>1 DEF Submit, SubmitFirst
  <2> QED
    BY <1>1, <2>1 DEF Submit, SubmitFirst, Census, BatchSet
<1>2. CASE ProbeOne
  BY <1>2, ProbeOneCensus
<1>3. CASE Settle
  BY <1>3, SettleCensus
<1>4. CASE \E i \in Index : WorkerReturns(i)
  <2>1. PICK i \in Index : WorkerReturns(i)
    BY <1>4
  <2>2. /\ i \in running
        /\ running' = running \ {i} /\ finished' = finished \cup {i}
        /\ UNCHANGED <<pending, batch, settled>>
    BY <2>1 DEF WorkerReturns, ChildReturns
  <2> QED
    BY <2>2 DEF Census, BatchSet
<1>5. CASE UNCHANGED <<pending, running, finished, batch, settled>>
  BY <1>5 DEF Census, BatchSet
<1>6. CASE Refresh \/ LeaveSubmit \/ WaitTimesOut \/ Finish
  BY <1>5, <1>6 DEF Refresh, LeaveSubmit, WaitTimesOut, Finish, queueVars
<1>7. CASE WaitReturns \/ WorkerRetries
  BY <1>5, <1>7 DEF WaitReturns, WorkerRetries, ChildRetried
<1>8. CASE UNCHANGED vars
  BY <1>5, <1>8 DEF vars, queueVars
<1> QED
  BY <1>1, <1>2, <1>3, <1>4, <1>6, <1>7, <1>8 DEF Next, Controller

(* No index is lost or settled twice on its way from the queue through the *)
(* futures, the done batch and the results.                                *)
THEOREM CensusHolds == Spec => []Census
<1>1. TypeInv /\ Census /\ [Next]_vars => TypeInv' /\ Census'
  BY NextTypeInv, NextCensus
<1> QED
  BY <1>1, InitTypeInv, InitCensus, PTL DEF Spec

-----------------------------------------------------------------------------
(* The pool: a submission happens below the current worker count, which is *)
(* at most MaxWorkers; no other action adds a future.                      *)
LEMMA InFlightFinite ==
    ASSUME TypeInv
    PROVE  IsFiniteSet(InFlight) /\ Cardinality(InFlight) \in Nat
<1>1. InFlight \subseteq Index /\ IsFiniteSet(Index)
  BY IndexAssumption DEF InFlight, TypeInv, TypeOK, QueueTypeOK
<1> QED
  BY <1>1, FS_Subset, FS_CardinalityType

LEMMA ShrinkingPool ==
    ASSUME TypeInv, PoolNeverOversubscribed, InFlight' \subseteq InFlight
    PROVE  PoolNeverOversubscribed'
<1>1. Cardinality(InFlight') <= Cardinality(InFlight) /\ Cardinality(InFlight') \in Nat
  BY InFlightFinite, FS_Subset, FS_CardinalityType
<1> QED
  BY <1>1, InFlightFinite, WorkersAssumption DEF PoolNeverOversubscribed

LEMMA SubmitPool == TypeInv /\ Submit => PoolNeverOversubscribed'
<1> SUFFICES ASSUME TypeInv, Submit PROVE PoolNeverOversubscribed'
  OBVIOUS
<1>1. PICK i \in pending : running' = running \cup {i}
  BY DEF Submit, SubmitFirst
<1>2. Cardinality(InFlight) < workers /\ finished' = finished
  BY DEF Submit, SubmitFirst, CanSubmit
<1>3. InFlight' = InFlight \cup {i}
  BY <1>1, <1>2 DEF InFlight
<1>4. /\ Cardinality(InFlight \cup {i}) <= Cardinality(InFlight) + 1
      /\ Cardinality(InFlight \cup {i}) \in Nat
  <2>1. IsFiniteSet(InFlight) /\ Cardinality(InFlight) \in Nat
    BY InFlightFinite
  <2>2. /\ IsFiniteSet(InFlight \cup {i})
        /\ \/ Cardinality(InFlight \cup {i}) = Cardinality(InFlight)
           \/ Cardinality(InFlight \cup {i}) = Cardinality(InFlight) + 1
    BY <2>1, FS_AddElement
  <2> QED
    BY <2>1, <2>2
<1>5. workers \in 1..MaxWorkers
  BY DEF TypeInv, TypeOK, QueueTypeOK
<1> QED
  BY <1>2, <1>3, <1>4, <1>5, InFlightFinite, WorkersAssumption DEF PoolNeverOversubscribed

LEMMA InitPool == Init => PoolNeverOversubscribed
<1> SUFFICES ASSUME Init PROVE PoolNeverOversubscribed
  OBVIOUS
<1>1. InFlight = {}
  BY DEF Init, InFlight
<1> QED
  BY <1>1, FS_EmptySet, WorkersAssumption DEF PoolNeverOversubscribed

LEMMA NextPool == TypeInv /\ PoolNeverOversubscribed /\ [Next]_vars => PoolNeverOversubscribed'
<1> SUFFICES ASSUME TypeInv, PoolNeverOversubscribed, [Next]_vars
             PROVE  PoolNeverOversubscribed'
  OBVIOUS
<1>1. CASE Submit
  BY <1>1, SubmitPool
<1>2. CASE ProbeOne
  <2>1. running' = running /\ finished' \subseteq finished
    BY <1>2 DEF ProbeOne
  <2> QED
    BY <2>1, ShrinkingPool DEF InFlight
<1>3. CASE \E i \in Index : WorkerReturns(i)
  <2>1. PICK i \in running : running' = running \ {i} /\ finished' = finished \cup {i}
    BY <1>3 DEF WorkerReturns, ChildReturns
  <2> QED
    BY <2>1, ShrinkingPool DEF InFlight
<1>4. CASE Refresh \/ LeaveSubmit \/ WaitReturns \/ WaitTimesOut \/ Settle
           \/ Finish \/ WorkerRetries \/ UNCHANGED vars
  <2>1. UNCHANGED <<running, finished>>
    BY <1>4 DEF Refresh, LeaveSubmit, WaitReturns, WaitTimesOut, Settle, Finish,
                WorkerRetries, ChildRetried, vars, queueVars
  <2> QED
    BY <2>1, ShrinkingPool DEF InFlight
<1> QED
  BY <1>1, <1>2, <1>3, <1>4 DEF Next, Controller

(* The pool never holds more futures than it has threads.                  *)
THEOREM PoolBound == Spec => []PoolNeverOversubscribed
<1>1. /\ TypeInv /\ PoolNeverOversubscribed /\ [Next]_vars
      => TypeInv' /\ PoolNeverOversubscribed'
  BY NextTypeInv, NextPool
<1> QED
  BY <1>1, InitTypeInv, InitPool, PTL DEF Spec

-----------------------------------------------------------------------------
(* The halt.                                                               *)
LEMMA InitHalt == Init => HaltFreezesQueue
BY DEF Init, HaltFreezesQueue

LEMMA NextHalt ==
    TypeInv /\ Census /\ HaltFreezesQueue /\ [Next]_vars => HaltFreezesQueue'
<1> SUFFICES ASSUME TypeInv, Census, HaltFreezesQueue, [Next]_vars, halted'
             PROVE  /\ notStarted' = pending' /\ notStarted' # {}
                    /\ haltIndex' \in settled'
                    /\ ResourceReasons(result'[haltIndex']) # {}
  BY DEF HaltFreezesQueue
<1>1. CASE Settle
  <2>1. settled' = settled \cup {Head(batch)} /\ UNCHANGED <<pending, result>>
    BY <1>1 DEF Settle
  <2>2. CASE UNCHANGED <<halted, haltIndex, notStarted>>
    BY <2>1, <2>2 DEF HaltFreezesQueue
  <2>3. CASE ~UNCHANGED <<halted, haltIndex, notStarted>>
    <3>1. /\ pending # {} /\ notStarted' = pending
          /\ haltIndex' = Head(batch)
          /\ ResourceReasons(result[Head(batch)]) # {}
      BY <1>1, <2>3 DEF Settle, HaltOn
    <3> QED
      BY <2>1, <3>1
  <2> QED
    BY <2>2, <2>3
<1>2. CASE ~Settle
  <2>1. UNCHANGED <<halted, haltIndex, notStarted>> /\ settled' = settled
    BY <1>2 DEF Next, Controller, Refresh, Submit, SubmitFirst, LeaveSubmit, WaitReturns,
                WaitTimesOut, ProbeOne, Finish, WorkerRetries, ChildRetried,
                WorkerReturns, ChildReturns, vars, queueVars, schedVars
  <2>2. halted /\ haltIndex \in settled
    BY <2>1 DEF HaltFreezesQueue
  <2>3. pending' = pending
    BY <1>2, <2>2 DEF Next, Controller, Refresh, Submit, SubmitFirst, CanSubmit, LeaveSubmit,
                WaitReturns, WaitTimesOut, ProbeOne, Finish, WorkerRetries, ChildRetried,
                WorkerReturns, ChildReturns, vars, queueVars
  <2>4. result'[haltIndex] = result[haltIndex]
    <3>1. haltIndex \in Index /\ haltIndex \notin running \cup finished
      BY <2>2 DEF Census, TypeInv, TypeOK, QueueTypeOK
    <3>2. CASE ProbeOne
      <4>1. PICK i \in waitDone : \E r \in Confirmed(result[i], FALSE) :
                                     result' = [result EXCEPT ![i] = r]
        BY <3>2 DEF ProbeOne
      <4>2. i # haltIndex
        BY <3>1 DEF TypeInv
      <4> QED
        BY <4>1, <4>2, <3>1 DEF TypeInv, TypeOK, QueueTypeOK
    <3>3. CASE \E i \in Index : WorkerReturns(i)
      <4>1. PICK i \in running : \E r \in Outcomes : result' = [result EXCEPT ![i] = r]
        BY <3>3 DEF WorkerReturns, ChildReturns
      <4> QED
        BY <4>1, <3>1 DEF TypeInv, TypeOK, QueueTypeOK
    <3>4. CASE ~ProbeOne /\ ~\E i \in Index : WorkerReturns(i)
      BY <1>2, <3>4 DEF Next, Controller, Refresh, Submit, SubmitFirst, LeaveSubmit,
                WaitReturns, WaitTimesOut, Finish, WorkerRetries, ChildRetried,
                vars, queueVars
    <3> QED
      BY <3>2, <3>3, <3>4
  <2> QED
    BY <2>1, <2>2, <2>3, <2>4 DEF HaltFreezesQueue
<1> QED
  BY <1>1, <1>2

(* What a halt reports as not started stays the queue, for every schedule.  *)
THEOREM HaltIsFinal == Spec => []HaltFreezesQueue
<1>1. /\ TypeInv /\ Census /\ HaltFreezesQueue /\ [Next]_vars
      => TypeInv' /\ Census' /\ HaltFreezesQueue'
  BY NextTypeInv, NextCensus, NextHalt
<1> QED
  BY <1>1, InitTypeInv, InitCensus, InitHalt, PTL DEF Spec

-----------------------------------------------------------------------------
(* What is published.  The controller leaves its loop with nothing in      *)
(* flight and a queue that is empty or halted, and only then publishes.    *)
Control ==
    /\ batch # <<>> => pc \in {"probe", "settle"}
    /\ pc \in {"finish", "exit"} =>
          running = {} /\ finished = {} /\ (pending = {} \/ halted)
    /\ pc # "exit" => published = Unpublished

LEMMA InitControl == Init => Control /\ PublishedIsEarned
BY DEF Init, Control, PublishedIsEarned, Unpublished

LEMMA NextControl == TypeInv /\ Control /\ [Next]_vars => Control'
<1> SUFFICES ASSUME TypeInv, Control, [Next]_vars PROVE Control'
  OBVIOUS
<1>1. CASE Refresh \/ Submit \/ LeaveSubmit
  BY <1>1 DEF Control, Refresh, Submit, SubmitFirst, LeaveSubmit, InFlight, queueVars, schedVars
<1>2. CASE WaitReturns \/ WaitTimesOut
  BY <1>2 DEF Control, WaitReturns, WaitTimesOut, queueVars, schedVars
<1>3. CASE ProbeOne
  BY <1>3 DEF Control, ProbeOne
<1>4. CASE Settle
  BY <1>4 DEF Control, Settle
<1>5. CASE Finish
  BY <1>5 DEF Control, Finish, queueVars, schedVars
<1>6. CASE WorkerRetries \/ \E i \in Index : WorkerReturns(i)
  BY <1>6 DEF Control, WorkerRetries, ChildRetried, WorkerReturns, ChildReturns, schedVars
<1>7. CASE UNCHANGED vars
  BY <1>7 DEF Control, vars, queueVars, schedVars
<1> QED
  BY <1>1, <1>2, <1>3, <1>4, <1>5, <1>6, <1>7 DEF Next, Controller

(* All that a conclusion needs of a halt.                                   *)
HaltKeepsQueue == halted => notStarted = pending

LEMMA FinishEarns ==
    TypeInv /\ Census /\ HaltKeepsQueue /\ Control /\ Finish => PublishedIsEarned'
<1> SUFFICES ASSUME TypeInv, Census, HaltKeepsQueue, Control, Finish
             PROVE  PublishedIsEarned'
  OBVIOUS
<1>1. PICK fact \in FactReport :
        published' = [fact |-> fact, status |-> AggregateStatus(fact)]
  BY DEF Finish
<1>2. UNCHANGED <<settled, result, halted>> /\ pc' = "exit"
  BY DEF Finish, queueVars, schedVars
<1>3. pending = {} => settled = Index
  <2>1. pc = "finish" /\ batch = <<>> /\ running = {} /\ finished = {}
    BY DEF Finish, Control
  <2>2. BatchSet = {}
    BY <2>1 DEF BatchSet
  <2> QED
    BY <2>1, <2>2 DEF Control, Census
<1>4. ASSUME fact \in {"done", "done_with_technical_failures", "validation_failure"}
      PROVE  pending = {} /\ Incomplete = {}
  <2>1. Incomplete = {} /\ ~(halted /\ notStarted # {})
    BY <1>4 DEF FactReport
  <2>2. pending = {} \/ halted
    BY DEF Control, Finish
  <2> QED
    BY <2>1, <2>2 DEF HaltKeepsQueue
<1>5. fact \in {"done", "done_with_technical_failures", "validation_failure"} =>
        /\ settled' = Index
        /\ \A i \in Index : Completed(result'[i])
  BY <1>2, <1>3, <1>4 DEF Incomplete
<1>6. ASSUME AggregateStatus(fact) = "done"
      PROVE  ~halted /\ settled = Index /\ \A i \in Index : result[i].status = "done"
  <2>1. ~halted /\ settled = Index /\ Incomplete = {} /\ ~AnyTechnical
    BY <1>6 DEF AggregateStatus
  <2> QED
    BY <2>1 DEF Incomplete, AnyTechnical, Completed, Technical
<1>7. ASSUME AggregateStatus(fact) = "running"
      PROVE  \E i \in settled : ~Completed(result[i])
  <2>1. ~halted /\ (settled # Index \/ Incomplete # {})
    BY <1>7 DEF AggregateStatus, FactReport
  <2>2. pending = {}
    BY <2>1 DEF Control, Finish
  <2> QED
    BY <2>1, <2>2, <1>3 DEF Incomplete
<1>8. published'.fact = fact /\ published'.status = AggregateStatus(fact)
  BY <1>1
<1> QED
  BY <1>2, <1>5, <1>6, <1>7, <1>8 DEF PublishedIsEarned

LEMMA NextEarned ==
    /\ TypeInv /\ Census /\ HaltFreezesQueue /\ Control /\ PublishedIsEarned
    /\ [Next]_vars
    => PublishedIsEarned'
<1> SUFFICES ASSUME TypeInv, Census, HaltFreezesQueue, Control, PublishedIsEarned, [Next]_vars
             PROVE  PublishedIsEarned'
  OBVIOUS
<1>1. CASE Finish
  BY <1>1, FinishEarns DEF HaltFreezesQueue, HaltKeepsQueue
<1>2. CASE ~Finish /\ pc = "exit"
  <2>1. UNCHANGED <<published, settled, result, halted, pc>>
    BY <1>2 DEF Control, Next, Controller, Refresh, Submit, LeaveSubmit, WaitReturns,
                WaitTimesOut, ProbeOne, Settle, WorkerRetries, ChildRetried,
                WorkerReturns, ChildReturns, vars, queueVars, schedVars
  <2> QED
    BY <2>1 DEF PublishedIsEarned, Completed
<1>3. CASE ~Finish /\ pc # "exit"
  <2>1. published' = Unpublished /\ pc' # "exit"
    BY <1>3 DEF Control, Next, Controller, Refresh, Submit, LeaveSubmit, WaitReturns,
                WaitTimesOut, ProbeOne, Settle, WorkerRetries, WorkerReturns,
                vars, queueVars, schedVars
  <2> QED
    BY <2>1 DEF PublishedIsEarned, Unpublished
<1> QED
  BY <1>1, <1>2, <1>3

(* A published conclusion is earned, for every batch, policy and schedule: *)
(* it rests on the census (nothing is lost on the way), on the halt (a     *)
(* halted batch reports its queue) and on where the loop may be left.      *)
THEOREM PublicationEarned == Spec => []PublishedIsEarned
<1>1. /\ TypeInv /\ Census /\ HaltFreezesQueue /\ Control /\ PublishedIsEarned
      /\ [Next]_vars
      => /\ TypeInv' /\ Census' /\ HaltFreezesQueue' /\ Control'
         /\ PublishedIsEarned'
  BY NextTypeInv, NextCensus, NextHalt, NextControl, NextEarned
<1> QED
  BY <1>1, InitTypeInv, InitCensus, InitHalt, InitControl, PTL DEF Spec

-----------------------------------------------------------------------------
(* The refill.  A settled systemic result leaves no live queue behind.     *)
Systemic(i) == ResourceReasons(result[i]) # {}

NoLiveQueue == (\E i \in settled : Systemic(i)) => halted \/ pending = {}

LEMMA InitNoLiveQueue == Init => NoLiveQueue
BY DEF Init, NoLiveQueue

LEMMA SettledResultKept ==
    ASSUME TypeInv, Census, [Next]_vars, NEW i \in settled
    PROVE  result'[i] = result[i]
<1>1. i \in Index /\ i \notin running \cup finished
  BY DEF Census, TypeInv, TypeOK, QueueTypeOK
<1>2. CASE ProbeOne
  <2>1. PICK j \in waitDone : \E r \in Confirmed(result[j], FALSE) :
                                 result' = [result EXCEPT ![j] = r]
    BY <1>2 DEF ProbeOne
  <2>2. i # j
    BY <1>1 DEF TypeInv
  <2> QED
    BY <2>1, <2>2, <1>1 DEF TypeInv, TypeOK, QueueTypeOK
<1>3. CASE \E j \in Index : WorkerReturns(j)
  <2>1. PICK j \in running : \E r \in Outcomes : result' = [result EXCEPT ![j] = r]
    BY <1>3 DEF WorkerReturns, ChildReturns
  <2> QED
    BY <2>1, <1>1 DEF TypeInv, TypeOK, QueueTypeOK
<1>4. CASE ~ProbeOne /\ ~\E j \in Index : WorkerReturns(j)
  <2>1. UNCHANGED result
    BY <1>4 DEF Next, Controller, Refresh, Submit, SubmitFirst, LeaveSubmit, WaitReturns,
                WaitTimesOut, Settle, Finish, WorkerRetries, ChildRetried, vars, queueVars
  <2> QED
    BY <2>1
<1> QED
  BY <1>2, <1>3, <1>4

LEMMA NextNoLiveQueue ==
    TypeInv /\ Census /\ NoLiveQueue /\ [Next]_vars => NoLiveQueue'
<1> SUFFICES ASSUME TypeInv, Census, NoLiveQueue, [Next]_vars,
                    NEW i \in settled', ResourceReasons(result'[i]) # {}
             PROVE  halted' \/ pending' = {}
  BY DEF NoLiveQueue, Systemic
<1>1. CASE Settle
  <2>1. /\ settled' = settled \cup {Head(batch)}
        /\ UNCHANGED <<pending, result>>
        /\ HaltOn(Head(batch), result[Head(batch)], pending # {})
    BY <1>1 DEF Settle
  <2>2. CASE i = Head(batch)
    BY <2>1, <2>2 DEF HaltOn
  <2>3. CASE i \in settled
    BY <2>1, <2>3 DEF HaltOn, NoLiveQueue, Systemic
  <2> QED
    BY <2>1, <2>2, <2>3
<1>2. CASE ~Settle
  <2>1. UNCHANGED <<halted, settled>> /\ pending' \subseteq pending
    BY <1>2 DEF Next, Controller, Refresh, Submit, SubmitFirst, LeaveSubmit, WaitReturns,
                WaitTimesOut, ProbeOne, Finish, WorkerRetries, ChildRetried,
                WorkerReturns, ChildReturns, vars, queueVars, schedVars
  <2>2. Systemic(i)
    BY <2>1, SettledResultKept DEF Systemic
  <2> QED
    BY <2>1, <2>2 DEF NoLiveQueue
<1> QED
  BY <1>1, <1>2

LEMMA StartsOnlyBefore ==
    /\ TypeInv /\ Control /\ NoLiveQueue /\ [Next]_vars
    /\ (\E i \in BatchSet \cup settled : ResourceReasons(result[i]) # {})
    => running' \subseteq running
<1> SUFFICES ASSUME TypeInv, Control, NoLiveQueue, [Next]_vars,
                    NEW i \in BatchSet \cup settled, ResourceReasons(result[i]) # {}
             PROVE  running' \subseteq running
  OBVIOUS
<1>1. CASE Submit
  <2>1. pc = "submit" /\ pending # {} /\ ~halted
    BY <1>1 DEF Submit, SubmitFirst, CanSubmit
  <2>2. batch = <<>>
    BY <2>1 DEF Control
  <2>3. BatchSet = {}
    BY <2>2 DEF BatchSet
  <2> QED
    BY <2>1, <2>3 DEF NoLiveQueue, Systemic
<1>2. CASE ~Submit
  BY <1>2 DEF Next, Controller, Refresh, LeaveSubmit, WaitReturns, WaitTimesOut, ProbeOne,
              Settle, Finish, WorkerRetries, ChildRetried, WorkerReturns, ChildReturns,
              vars, queueVars
<1> QED
  BY <1>1, <1>2

(* No task starts once a collected result is systemic: the pool is refilled *)
(* only after the whole batch is settled, and settling it halts the queue.  *)
THEOREM SystemicStopsStarts == Spec => NoStartAfterSystemicResult
<1> DEFINE Inv == TypeInv /\ Census /\ Control /\ NoLiveQueue
<1>1. Init => Inv
  BY InitTypeInv, InitCensus, InitControl, InitNoLiveQueue
<1>2. Inv /\ [Next]_vars => Inv'
  BY NextTypeInv, NextCensus, NextControl, NextNoLiveQueue
<1>3. Inv /\ [Next]_vars =>
        [(\E i \in BatchSet \cup settled : ResourceReasons(result[i]) # {})
            => running' \subseteq running]_vars
  BY StartsOnlyBefore
<1> QED
  BY <1>1, <1>2, <1>3, PTL DEF Spec, NoStartAfterSystemicResult
-----------------------------------------------------------------------------
(***************************************************************************)
(* TechnicalRecovery: the same controller with its recovery rounds, its    *)
(* files and its restarts.                                                 *)
(***************************************************************************)

(* What the loop does inside a round is a step of ParallelRunner; the rest  *)
(* of the recovery keeps the queue as it is or moves whole sets.            *)
Payload == [parent : Slot, digest : Nat, evidence : Evidence \cup {"none"},
            result : Result \cup {NoResult}]

TRTypeInv ==
    /\ QueueTypeOK
    /\ waitDone \subseteq finished
    /\ \A i \in finished : result[i] \in Result
    /\ ordinal \in 0..MaxRecoveries /\ restarts \in 0..MaxRestarts
    /\ toPlan \subseteq Index /\ planned \subseteq Index
    /\ slot \in [Index -> Slot]
    /\ evidence \in [Index -> Evidence \cup {"none"}]
    /\ events \subseteq Event /\ manifest \subseteq Event
    /\ report \in [Index -> [Slot -> Result \cup {NoResult}]]
    /\ version \in [Index -> [Slot -> Nat]]
    /\ decision \in [Index -> [AttemptSlot -> Payload \cup {NoDecision}]]

(* Where the controller can be, round by round: nothing is in flight while  *)
(* a round is planned or the batch reported, only a live controller plans,  *)
(* and the main loop is over with an empty batch.                           *)
Phases ==
    /\ \/ /\ phase = "main" /\ ordinal = 0
          /\ pc \in {"refresh", "submit", "wait", "probe", "settle", "finish"}
          /\ slot = [i \in Index |-> Primary]
       \/ /\ phase = "plan" /\ ordinal >= 1
          /\ pc \in {"plan", "error"}
       \/ /\ phase = "tail" /\ ordinal >= 1
          /\ pc \in {"refresh", "submit", "wait", "probe", "finish"}
       \/ /\ phase = "report"
          /\ pc \in {"conclude", "finish", "exit"}
    /\ phase # "main" => batch = <<>>
    /\ phase \in {"plan", "report"} =>
          running = {} /\ finished = {} /\ (pending = {} \/ halted)
    /\ phase = "plan" => ~halted
    /\ phase # "plan" => planned = {}
    /\ Control

Ledger == phase \in {"plan", "tail"} \/ pc = "conclude" => manifest \subseteq events

(* A planned index is bound to its attempt before the round may start.      *)
Planned ==
    \A i \in planned :
        /\ i \notin toPlan
        /\ slot[i] \in AttemptSlot /\ slot[i][1] = ordinal
        /\ decision[i][slot[i]] # NoDecision
        /\ <<"scheduled", i, slot[i]>> \in events
        /\ BlockReason(result[i]) = ""

Bound == Planned /\ DecisionBeforeLaunch

(* Attempts this life of the controller has not reported on yet.            *)
Ahead(i, s) ==
    \/ s[1] > ordinal
    \/ s[1] = ordinal /\ phase = "plan"
    \/ s = slot[i] /\ i \in pending \cup running

OncePerLife ==
    /\ \A i \in Index : slot[i][1] <= ordinal
    /\ \A i \in Index : \A s \in Slot :
          /\ version[i][s] <= restarts + 1
          /\ Ahead(i, s) => version[i][s] <= restarts

-----------------------------------------------------------------------------
(* The attempts a batch may make.                                          *)
LEMMA Slots ==
    /\ MaxRecoveries \in Nat /\ MaxRestarts \in Nat
    /\ Primary \in Slot /\ Primary[1] = 0
    /\ \A s \in Slot : s[1] \in 0..MaxRecoveries /\ s # NoSlot
    /\ \A s \in AttemptSlot : s \in Slot /\ s[1] \in 1..MaxRecoveries
BY RecoveryAssumption DEF Slot, Primary, AttemptSlot, Mode, NoSlot

LEMMA PlannedSlotType ==
    ASSUME NEW i, ordinal \in 1..MaxRecoveries
    PROVE  PlannedSlot(i) \in AttemptSlot /\ PlannedSlot(i)[1] = ordinal
BY DEF PlannedSlot, AttemptSlot, Mode

LEMMA EventTypes ==
    ASSUME NEW i \in Index
    PROVE  /\ <<"blocked", i, NoSlot>> \in Event
           /\ <<"exhausted", i, NoSlot>> \in Event
           /\ \A s \in AttemptSlot : /\ <<"scheduled", i, s>> \in Event
                                     /\ <<"completed", i, s>> \in Event
BY DEF Event

LEMMA ReusableType ==
    ASSUME NEW r \in Result \cup {NoResult}, NEW b, Reusable(r, b)
    PROVE  r \in Result
BY DEF Reusable, NoResult

LEMMA LeftOnDiskType ==
    ASSUME NEW i, NEW r \in Outcomes, report[i][slot[i]] \in Result \cup {NoResult},
           NEW left \in LeftOnDisk(i, r)
    PROVE  left \in Result \cup {NoResult}
<1>1. r \in Result /\ r.status \in Status
  BY OutcomesAssumption DEF RunOneResult, Result
<1>2. CleanReport \in Result
  BY DEF CleanReport, NoResult, Result, Status, Terminal, Scope, Probe, Candidate
<1>3. CASE r.status \in Terminal \cup {"preflight_failed"}
  BY <1>1, <1>3 DEF LeftOnDisk, Terminal
<1>4. CASE r.status = "rejected"
  BY <1>1, <1>2, <1>4 DEF LeftOnDisk, Terminal
<1>5. CASE r.status = "missing_report"
  BY <1>5 DEF LeftOnDisk, Terminal
<1>6. CASE r.status = "orchestrator_exception"
  BY <1>2, <1>6 DEF LeftOnDisk, Terminal
<1> QED
  BY <1>1, <1>3, <1>4, <1>5, <1>6 DEF Status, NoReport

-----------------------------------------------------------------------------
(* The steps the recovery shares with the plain loop.                       *)
LEMMA LoopState ==
    ASSUME TRTypeInv, Phases, phase \in {"main", "tail"} \/ pc = "finish"
    PROVE  TypeInv
BY DEF TRTypeInv, Phases, TypeInv, TypeOK

LEMMA LoopSteps ==
    ASSUME MainLoop \/ TailQueue \/ Report
    PROVE  /\ Next
           /\ phase # "plan" /\ (phase = "report" => pc = "finish")
           /\ UNCHANGED <<phase, ordinal, toPlan, planned, slot, events,
                          diskVars, restarts>>
<1>1. CASE MainLoop
  BY <1>1 DEF MainLoop, MainProbe, Next, Controller, tailVars
<1>2. CASE TailQueue
  BY <1>2 DEF TailQueue, Next, Controller, tailVars
<1>3. CASE Report
  BY <1>3 DEF Report, Finish, Next, Controller, tailVars
<1> QED
  BY <1>1, <1>2, <1>3

LEMMA WorkerSteps ==
    ASSUME TRTypeInv, Phases, NEW i \in Index, TRWorkerReturns(i)
    PROVE  /\ i \in running /\ phase \in {"main", "tail"}
           /\ running' = running \ {i} /\ finished' = finished \cup {i}
           /\ \E r \in Result : result' = [result EXCEPT ![i] = r]
           /\ UNCHANGED <<pending, waitDone, batch, settled, tries, schedVars, accepted,
                          pc, published, tailVars, decision, manifest, restarts>>
<1>1. CASE ReportReused(i)
  <2>1. report[i][slot[i]] \in Result
    BY <1>1, ReusableType DEF ReportReused, Reuses, TRTypeInv
  <2> QED
    BY <1>1, <2>1 DEF ReportReused, TRWorkerReturns, Phases
<1>2. CASE ReportWritten(i)
  <2>1. PICK r \in OutcomesOf(i) : ChildReturns(i, r)
    BY <1>2 DEF ReportWritten
  <2>2. r \in Result
    BY <2>1, OutcomesAssumption DEF OutcomesOf, RunOneResult
  <2> QED
    BY <2>1, <2>2 DEF ChildReturns, TRWorkerReturns, Phases
<1> QED
  BY <1>1, <1>2 DEF TRWorkerReturns

-----------------------------------------------------------------------------
(* Types of the recovery, one lemma for each action that moves data.        *)
LEMMA InitTRType == TRInit => TRTypeInv
<1> SUFFICES ASSUME TRInit PROVE TRTypeInv
  OBVIOUS
<1>1. QueueTypeOK /\ waitDone = {} /\ finished = {}
  BY InitTypeInv DEF TRInit, TypeInv, TypeOK, Init
<1>2. NoResult \in Result \cup {NoResult} /\ NoDecision \in Payload \cup {NoDecision}
  OBVIOUS
<1> QED
  BY <1>1, <1>2, Slots DEF TRInit, TRTypeInv

LEMMA LoopTRType ==
    ASSUME TRTypeInv, Phases, MainLoop \/ TailQueue \/ Report
    PROVE  TRTypeInv'
<1>1. TypeInv'
  BY LoopSteps, LoopState, NextTypeInv DEF Phases
<1>2. evidence' \in [Index -> Evidence \cup {"none"}]
  BY DEF MainLoop, MainProbe, TailQueue, Report, tailVars, TRTypeInv
<1> QED
  BY <1>1, <1>2, LoopSteps DEF TRTypeInv, TypeInv, TypeOK, diskVars

LEMMA WorkerTRType ==
    ASSUME TRTypeInv, Phases, NEW i \in Index, TRWorkerReturns(i)
    PROVE  TRTypeInv'
<1>1. /\ i \in running
      /\ running' = running \ {i} /\ finished' = finished \cup {i}
      /\ UNCHANGED <<pending, waitDone, batch, settled, tries, schedVars, accepted,
                     pc, published, tailVars, decision, manifest, restarts>>
  BY WorkerSteps
<1>2. PICK r \in Result : result' = [result EXCEPT ![i] = r]
  BY WorkerSteps
<1>3. /\ result' \in [Index -> Result \cup {NoResult}]
      /\ \A j \in finished' : result'[j] \in Result
  BY <1>1, <1>2 DEF TRTypeInv, QueueTypeOK
<1>4. /\ report' \in [Index -> [Slot -> Result \cup {NoResult}]]
      /\ version' \in [Index -> [Slot -> Nat]]
  <2>1. CASE ReportReused(i)
    BY <2>1 DEF ReportReused, TRTypeInv
  <2>2. CASE ReportWritten(i)
    <3>1. slot[i] \in Slot /\ report[i][slot[i]] \in Result \cup {NoResult}
      BY DEF TRTypeInv
    <3>2. PICK o \in OutcomesOf(i) : \E left \in LeftOnDisk(i, o) :
                report' = [report EXCEPT ![i][slot[i]] = left]
      BY <2>2 DEF ReportWritten
    <3>3. PICK left \in LeftOnDisk(i, o) : report' = [report EXCEPT ![i][slot[i]] = left]
      BY <3>2
    <3>4. o \in Outcomes
      BY <3>2 DEF OutcomesOf
    <3>5. left \in Result \cup {NoResult}
      BY <3>1, <3>3, <3>4, LeftOnDiskType
    <3>6. report' \in [Index -> [Slot -> Result \cup {NoResult}]]
      BY <3>1, <3>3, <3>5 DEF TRTypeInv
    <3>7. version' = [version EXCEPT ![i][slot[i]] = version[i][slot[i]] + 1]
      BY <2>2 DEF ReportWritten
    <3>8. version' \in [Index -> [Slot -> Nat]]
      BY <3>1, <3>7 DEF TRTypeInv
    <3> QED
      BY <3>6, <3>8
  <2> QED
    BY <2>1, <2>2 DEF TRWorkerReturns
<1> QED
  BY <1>1, <1>3, <1>4 DEF TRTypeInv, QueueTypeOK, schedVars, tailVars

LEMMA PlanTRType ==
    ASSUME TRTypeInv, Phases, PlanOne
    PROVE  TRTypeInv'
<1>1. PICK i \in toPlan : Plan(i, PlannedSlot(i))
  BY DEF PlanOne
<1>2. i \in Index /\ ordinal \in 1..MaxRecoveries
  BY Slots DEF TRTypeInv, Phases, PlanOne
<1> DEFINE s == PlannedSlot(i)
<1>3. s \in AttemptSlot /\ s \in Slot
  BY <1>2, PlannedSlotType, Slots
<1>4. DecisionPayload(i) \in Payload
  <2>1. /\ slot[i] \in Slot /\ version[i][slot[i]] \in Nat
        /\ evidence[i] \in Evidence \cup {"none"}
        /\ result[i] \in Result \cup {NoResult}
    BY <1>2 DEF TRTypeInv, QueueTypeOK
  <2> QED
    BY <2>1 DEF DecisionPayload, Payload
<1>5. /\ toPlan' = toPlan \ {i}
      /\ planned' \in {planned, planned \cup {i}}
      /\ slot' = slot \/ slot' = [slot EXCEPT ![i] = s]
      /\ decision' = decision \/ decision' = [decision EXCEPT ![i][s] = DecisionPayload(i)]
      /\ events' \in {events, Recorded("blocked", i, NoSlot), Recorded("scheduled", i, s)}
  BY <1>1 DEF Plan
<1> HIDE DEF s
<1>6. toPlan' \subseteq Index /\ planned' \subseteq Index
  BY <1>2, <1>5 DEF TRTypeInv
<1>7. slot' \in [Index -> Slot]
  <2>1. slot \in [Index -> Slot]
    BY DEF TRTypeInv
  <2> QED
    BY <2>1, <1>3, <1>5
<1>8. decision' \in [Index -> [AttemptSlot -> Payload \cup {NoDecision}]]
  <2>1. decision \in [Index -> [AttemptSlot -> Payload \cup {NoDecision}]]
    BY DEF TRTypeInv
  <2>2. CASE decision' = [decision EXCEPT ![i][s] = DecisionPayload(i)]
    <3>1. [decision[i] EXCEPT ![s] = DecisionPayload(i)]
             \in [AttemptSlot -> Payload \cup {NoDecision}]
      BY <2>1, <1>2, <1>4
    <3> QED
      BY <2>1, <2>2, <3>1
  <2> QED
    BY <2>1, <2>2, <1>5
<1>9. events' \subseteq Event
  <2>1. <<"blocked", i, NoSlot>> \in Event /\ <<"scheduled", i, s>> \in Event
    BY <1>2, <1>3, EventTypes
  <2> QED
    BY <2>1, <1>5 DEF Recorded, TRTypeInv
<1> QED
  BY <1>6, <1>7, <1>8, <1>9 DEF PlanOne, TRTypeInv, QueueTypeOK, queueVars, schedVars

LEMMA PlanDoneTRType ==
    ASSUME TRTypeInv, Phases, PlanDone
    PROVE  TRTypeInv'
<1>1. tries' \in [Index -> 0..RunnerAttempts]
  BY OutcomesAssumption DEF PlanDone, TRTypeInv, QueueTypeOK
<1> QED
  BY <1>1 DEF PlanDone, TRTypeInv, QueueTypeOK, schedVars

LEMMA TailResultTRType ==
    ASSUME TRTypeInv, Phases, DecisionBeforeLaunch, TailResult
    PROVE  TRTypeInv'
<1>1. PICK i \in waitDone : \E r \in Confirmed(result[i], slot[i][2] = "eval_only") :
         \E e \in Evidence :
          /\ waitDone' = waitDone \ {i}
          /\ finished' = finished \ {i}
          /\ settled' = settled \cup {i}
          /\ result' = [result EXCEPT ![i] = r]
          /\ evidence' = [evidence EXCEPT ![i] = IF r.probe = "none" THEN "none" ELSE e]
          /\ events' = Recorded("completed", i, slot[i])
          /\ UpdateSchedulerState(r)
          /\ HaltOn(i, r, TRUE)
  BY DEF TailResult
<1>2. PICK r \in Confirmed(result[i], slot[i][2] = "eval_only") :
         \E e \in Evidence :
          /\ waitDone' = waitDone \ {i}
          /\ finished' = finished \ {i}
          /\ settled' = settled \cup {i}
          /\ result' = [result EXCEPT ![i] = r]
          /\ evidence' = [evidence EXCEPT ![i] = IF r.probe = "none" THEN "none" ELSE e]
          /\ events' = Recorded("completed", i, slot[i])
          /\ UpdateSchedulerState(r)
          /\ HaltOn(i, r, TRUE)
  BY <1>1
<1>3. i \in Index /\ i \in finished /\ result[i] \in Result /\ slot[i] \in AttemptSlot
  BY DEF TRTypeInv, QueueTypeOK, DecisionBeforeLaunch, InFlight, TailResult
<1>4. r \in Result
  BY <1>3, ConfirmedType
<1>5. /\ result' \in [Index -> Result \cup {NoResult}]
      /\ \A j \in finished' : result'[j] \in Result
  BY <1>2, <1>3, <1>4 DEF TRTypeInv, QueueTypeOK
<1>6. workers' \in 1..MaxWorkers /\ streak' \in 0..RecoveryTasks
  BY <1>2, WorkersAssumption
     DEF UpdateSchedulerState, Smaller, Larger, TRTypeInv, QueueTypeOK
<1>7. /\ halted' \in BOOLEAN /\ haltIndex' \in Index \cup {NoIndex}
      /\ notStarted' \subseteq Index
  BY <1>2, <1>3 DEF HaltOn, TRTypeInv, QueueTypeOK
<1>8. events' \subseteq Event
  <2>1. <<"completed", i, slot[i]>> \in Event
    BY <1>3, EventTypes
  <2>2. events' = events \cup {<<"completed", i, slot[i]>>}
    BY <1>2 DEF Recorded
  <2> QED
    BY <2>1, <2>2 DEF TRTypeInv
<1>9. evidence' \in [Index -> Evidence \cup {"none"}]
  BY <1>2, <1>3 DEF TRTypeInv
<1> QED
  BY <1>2, <1>3, <1>5, <1>6, <1>7, <1>8, <1>9 DEF TailResult, TRTypeInv, QueueTypeOK

LEMMA RestartTRType ==
    ASSUME TRTypeInv, Restart
    PROVE  TRTypeInv'
<1>1. workers' \in 1..MaxWorkers /\ 0 \in 0..RecoveryTasks /\ 0 \in 0..MaxWorkers
  BY WorkersAssumption DEF Restart, Smaller
<1>2. /\ result' \in [Index -> Result \cup {NoResult}]
      /\ tries' \in [Index -> 0..RunnerAttempts]
      /\ slot' \in [Index -> Slot]
      /\ evidence' \in [Index -> Evidence \cup {"none"}]
  BY OutcomesAssumption, Slots DEF Restart
<1>3. batch' \in Seq(Index) /\ haltIndex' = NoIndex /\ halted' = FALSE
  BY DEF Restart
<1>4. published' \in [fact : {"none"}, status : {"running"}]
  BY DEF Restart, Unpublished
<1>5. QueueTypeOK'
  BY <1>1, <1>2, <1>3, <1>4 DEF Restart, QueueTypeOK
<1>6. restarts' \in 0..MaxRestarts /\ ordinal' \in 0..MaxRecoveries
  BY Slots DEF Restart, TRTypeInv
<1> QED
  BY <1>2, <1>5, <1>6 DEF Restart, TRTypeInv, diskVars

LEMMA NextTRType ==
    ASSUME TRTypeInv, Phases, DecisionBeforeLaunch, [TRNext]_allVars
    PROVE  TRTypeInv'
<1>1. CASE MainLoop \/ TailQueue \/ Report
  BY <1>1, LoopTRType
<1>2. CASE \E i \in Index : TRWorkerReturns(i)
  BY <1>2, WorkerTRType
<1>3. CASE PlanOne
  BY <1>3, PlanTRType
<1>4. CASE PlanDone
  BY <1>4, PlanDoneTRType
<1>5. CASE TailResult
  BY <1>5, TailResultTRType
<1>6. CASE Restart
  BY <1>6, RestartTRType
<1>7. CASE EnterTail
  <2>1. /\ UNCHANGED <<queueVars, schedVars, accepted, published, planned, slot, evidence,
                       diskVars, restarts>>
        /\ ordinal' \in {ordinal, 1} /\ toPlan' \in {toPlan, Index}
        /\ events' \in {events, manifest}
        /\ ordinal' = 1 => MaxRecoveries # 0 \/ ordinal = 1
    BY <1>7 DEF EnterTail, SkipTail, LoadManifestEvents
  <2>2. ordinal' \in 0..MaxRecoveries
    BY <2>1, Slots DEF TRTypeInv
  <2> QED
    BY <2>1, <2>2 DEF TRTypeInv, QueueTypeOK, queueVars, schedVars, diskVars
<1>8. CASE TailLeaveSubmit
  BY <1>8 DEF TailLeaveSubmit, TRTypeInv, QueueTypeOK, queueVars, schedVars, tailVars
<1>9. CASE EndRound
  <2>1. /\ UNCHANGED <<queueVars, schedVars, accepted, published, planned, slot, evidence,
                       events, diskVars, restarts>>
        /\ toPlan' \in {toPlan, Index}
        /\ ordinal' = ordinal \/ (ordinal' = ordinal + 1 /\ ordinal < MaxRecoveries)
    BY <1>9 DEF EndRound, RoundsLeft
  <2>2. ordinal' \in 0..MaxRecoveries
    BY <2>1, Slots DEF TRTypeInv
  <2> QED
    BY <2>1, <2>2 DEF TRTypeInv, QueueTypeOK, queueVars, schedVars, diskVars
<1>10. CASE Conclude
  <2>1. /\ UNCHANGED <<queueVars, schedVars, accepted, published, phase, ordinal, toPlan,
                       planned, slot, evidence, report, version, decision, restarts>>
        /\ \/ UNCHANGED <<events, manifest>>
           \/ /\ events' = events \cup {<<"exhausted", i, NoSlot>> : i \in Exhausted}
              /\ manifest' = events'
    BY <1>10 DEF Conclude
  <2>2. {<<"exhausted", i, NoSlot>> : i \in Exhausted} \subseteq Event
    BY EventTypes DEF Exhausted
  <2>3. events' \subseteq Event /\ manifest' \subseteq Event
    BY <2>1, <2>2 DEF TRTypeInv
  <2> QED
    BY <2>1, <2>3 DEF TRTypeInv, QueueTypeOK, queueVars, schedVars
<1>11. CASE UNCHANGED allVars
  BY <1>11 DEF allVars, vars, queueVars, schedVars, tailVars, diskVars, TRTypeInv, QueueTypeOK
<1> QED
  BY <1>1, <1>2, <1>3, <1>4, <1>5, <1>6, <1>7, <1>8, <1>9, <1>10, <1>11
     DEF TRNext, TRController

-----------------------------------------------------------------------------
(* The phases follow each other as the code's loops do.                     *)
LEMMA InitPhases == TRInit => Phases
BY InitControl DEF TRInit, Phases, Init

LEMMA LoopPhases ==
    ASSUME TRTypeInv, Phases, MainLoop \/ TailQueue \/ Report
    PROVE  Phases'
<1>1. Control'
  BY LoopSteps, LoopState, NextControl DEF Phases
<1>2. UNCHANGED <<phase, ordinal, planned, slot>>
  BY LoopSteps
<1>3. CASE MainLoop
  <2>1. phase = "main"
    BY <1>3 DEF MainLoop
  <2>2. pc' \in {"refresh", "submit", "wait", "probe", "settle", "finish"}
    BY <1>3 DEF MainLoop, MainProbe, ProbeOne, Refresh, Submit, LeaveSubmit, WaitReturns,
                WaitTimesOut, Settle, Phases
  <2> QED
    BY <1>1, <1>2, <2>1, <2>2 DEF Phases
<1>4. CASE TailQueue
  <2>1. phase = "tail" /\ batch' = batch
    BY <1>4 DEF TailQueue, Refresh, Submit, SubmitFirst, WaitReturns, WaitTimesOut, queueVars
  <2>2. pc' \in {"refresh", "submit", "wait", "probe"}
    BY <1>4 DEF TailQueue, Refresh, Submit, WaitReturns, WaitTimesOut
  <2> QED
    BY <1>1, <1>2, <2>1, <2>2 DEF Phases
<1>5. CASE Report
  BY <1>1, <1>2, <1>5 DEF Report, Finish, Phases, queueVars, schedVars
<1> QED
  BY <1>3, <1>4, <1>5

(* The round is left with nothing in flight and, unless halted, nothing     *)
(* queued: with a worker to spare, a live queue would have submitted.       *)
LEMMA LeaveTailPhases ==
    ASSUME TRTypeInv, Phases, TailLeaveSubmit
    PROVE  Phases'
<1>1. /\ phase = "tail" /\ pc = "submit" /\ ~CanSubmit
      /\ pc' = IF waitDone # {} THEN "probe"
               ELSE IF InFlight # {} THEN "wait" ELSE "finish"
      /\ UNCHANGED <<queueVars, schedVars, accepted, published, tailVars, restarts>>
  BY DEF TailLeaveSubmit
<1>2. ASSUME pc' = "finish"
      PROVE  InFlight = {} /\ (pending = {} \/ halted)
  <2>1. InFlight = {}
    BY <1>1, <1>2
  <2>2. workers >= 1 /\ Cardinality(InFlight) = 0
    BY <2>1, FS_EmptySet, WorkersAssumption DEF TRTypeInv, QueueTypeOK
  <2>3. Cardinality(InFlight) < workers
    <3>1. workers \in Nat
      BY WorkersAssumption DEF TRTypeInv, QueueTypeOK
    <3> QED
      BY <2>2, <3>1
  <2> QED
    BY <1>1, <2>1, <2>3 DEF CanSubmit
<1>3. Control'
  BY <1>1, <1>2 DEF Control, Phases, InFlight, queueVars, schedVars
<1> QED
  BY <1>1, <1>3 DEF Phases, queueVars, schedVars, tailVars

LEMMA NextPhases ==
    ASSUME TRTypeInv, Phases, [TRNext]_allVars
    PROVE  Phases'
<1>1. CASE MainLoop \/ TailQueue \/ Report
  BY <1>1, LoopPhases
<1>2. CASE \E i \in Index : TRWorkerReturns(i)
  <2>1. PICK i \in Index : TRWorkerReturns(i)
    BY <1>2
  <2> QED
    BY <2>1, WorkerSteps DEF Phases, Control, tailVars, schedVars
<1>3. CASE TailLeaveSubmit
  BY <1>3, LeaveTailPhases
<1>4. CASE EnterTail
  <2>1. batch = <<>> /\ running = {} /\ finished = {} /\ (pending = {} \/ halted)
    BY <1>4 DEF EnterTail, Phases, Control
  <2>2. CASE SkipTail
    BY <1>4, <2>1, <2>2 DEF EnterTail, Phases, Control, queueVars, schedVars
  <2>3. CASE ~SkipTail
    BY <1>4, <2>1, <2>3 DEF EnterTail, SkipTail, Phases, Control, queueVars, schedVars
  <2> QED
    BY <2>2, <2>3
<1>5. CASE PlanOne
  <2>1. pc' \in {"plan", "error"}
    BY <1>5 DEF PlanOne, Plan
  <2> QED
    BY <1>5, <2>1 DEF PlanOne, Phases, Control, queueVars, schedVars
<1>6. CASE PlanDone
  <2>1. CASE planned = {}
    BY <1>6, <2>1 DEF PlanDone, Phases, Control, schedVars
  <2>2. CASE planned # {}
    BY <1>6, <2>2 DEF PlanDone, Phases, Control, schedVars
  <2> QED
    BY <2>1, <2>2
<1>7. CASE TailResult
  BY <1>7 DEF TailResult, Phases, Control
<1>8. CASE EndRound
  <2>1. /\ phase = "tail" /\ pc = "finish" /\ batch = <<>>
        /\ running = {} /\ finished = {} /\ (pending = {} \/ halted)
        /\ ordinal + 1 >= 1
    BY <1>8 DEF EndRound, Phases, Control, TRTypeInv
  <2>2. CASE halted \/ ~RoundsLeft
    BY <1>8, <2>1, <2>2 DEF EndRound, Phases, Control, queueVars, schedVars
  <2>3. CASE ~(halted \/ ~RoundsLeft)
    BY <1>8, <2>1, <2>3 DEF EndRound, Phases, Control, queueVars, schedVars
  <2> QED
    BY <2>2, <2>3
<1>9. CASE Conclude
  BY <1>9 DEF Conclude, Phases, Control, queueVars, schedVars
<1>10. CASE Restart
  BY <1>10 DEF Restart, Phases, Control
<1>11. CASE UNCHANGED allVars
  BY <1>11 DEF allVars, vars, queueVars, schedVars, tailVars, Phases, Control
<1> QED
  BY <1>1, <1>2, <1>3, <1>4, <1>5, <1>6, <1>7, <1>8, <1>9, <1>10, <1>11
     DEF TRNext, TRController

-----------------------------------------------------------------------------
(* The census of ParallelRunner over the recovery rounds: a round takes its *)
(* indices out of the results and puts them back.                          *)
LEMMA NextTRCensus ==
    ASSUME TRTypeInv, Phases, Census, [TRNext]_allVars
    PROVE  Census'
<1>1. CASE MainLoop \/ TailQueue \/ Report
  BY <1>1, LoopSteps, LoopState, NextCensus DEF Phases
<1>2. CASE \E i \in Index : TRWorkerReturns(i)
  <2>1. PICK i \in Index : /\ i \in running
                           /\ running' = running \ {i} /\ finished' = finished \cup {i}
                           /\ UNCHANGED <<pending, batch, settled>>
    BY <1>2, WorkerSteps
  <2> QED
    BY <2>1 DEF Census, BatchSet
<1>3. CASE PlanDone
  <2>1. /\ phase = "plan"
        /\ pending' = planned /\ settled' = settled \ planned
        /\ UNCHANGED <<running, finished, batch>>
    BY <1>3 DEF PlanDone
  <2>2. running = {} /\ finished = {} /\ pending = {} /\ batch = <<>>
    BY <2>1 DEF Phases
  <2>3. BatchSet = {} /\ BatchSet' = {}
    BY <2>1, <2>2 DEF BatchSet
  <2>4. settled = Index /\ planned \subseteq Index
    BY <2>2, <2>3 DEF Census, TRTypeInv
  <2>5. \A k, m \in 1..Len(batch') : batch'[k] = batch'[m] => k = m
    BY <2>1 DEF Census
  <2> QED
    BY <2>1, <2>2, <2>3, <2>4, <2>5 DEF Census
<1>4. CASE TailResult
  <2>1. PICK i \in waitDone : finished' = finished \ {i} /\ settled' = settled \cup {i}
    BY <1>4 DEF TailResult
  <2>2. i \in finished /\ UNCHANGED <<pending, running, batch>>
    BY <1>4, <2>1 DEF TailResult, TRTypeInv
  <2> QED
    BY <2>1, <2>2 DEF Census, BatchSet
<1>5. CASE Restart
  <2>1. /\ pending' = Index /\ running' = {} /\ finished' = {} /\ settled' = {}
        /\ batch' = <<>>
    BY <1>5 DEF Restart
  <2> QED
    BY <2>1 DEF Census, BatchSet
<1>6. CASE EnterTail \/ PlanOne \/ TailLeaveSubmit \/ EndRound \/ Conclude
           \/ UNCHANGED allVars
  <2>1. UNCHANGED queueVars
    BY <1>6 DEF EnterTail, PlanOne, TailLeaveSubmit, EndRound, Conclude, allVars, vars
  <2> QED
    BY <2>1 DEF queueVars, Census, BatchSet
<1> QED
  BY <1>1, <1>2, <1>3, <1>4, <1>5, <1>6 DEF TRNext, TRController

-----------------------------------------------------------------------------
(* What is published, halted in the main loop or in a recovery round.       *)
LEMMA LoopHalt ==
    ASSUME HaltKeepsQueue, Next
    PROVE  HaltKeepsQueue'
<1>1. CASE Settle
  BY <1>1 DEF Settle, HaltOn, HaltKeepsQueue
<1>2. CASE Submit
  BY <1>2 DEF Submit, SubmitFirst, CanSubmit, HaltKeepsQueue, schedVars
<1>3. CASE ~Settle /\ ~Submit
  BY <1>3 DEF Next, Controller, Refresh, LeaveSubmit, WaitReturns, WaitTimesOut, ProbeOne,
              Finish, WorkerRetries, ChildRetried, WorkerReturns, ChildReturns,
              queueVars, schedVars, HaltKeepsQueue
<1> QED
  BY <1>1, <1>2, <1>3

LEMMA NextTRHalt ==
    ASSUME TRTypeInv, Phases, HaltKeepsQueue, [TRNext]_allVars
    PROVE  HaltKeepsQueue'
<1>1. CASE MainLoop \/ TailQueue \/ Report
  BY <1>1, LoopSteps, LoopHalt
<1>2. CASE \E i \in Index : TRWorkerReturns(i)
  <2>1. UNCHANGED <<pending, schedVars>>
    BY <1>2, WorkerSteps
  <2> QED
    BY <2>1 DEF HaltKeepsQueue, schedVars
<1>3. CASE PlanDone
  BY <1>3 DEF PlanDone, Phases, HaltKeepsQueue, schedVars
<1>4. CASE TailResult
  BY <1>4 DEF TailResult, HaltOn, HaltKeepsQueue
<1>5. CASE Restart
  BY <1>5 DEF Restart, HaltKeepsQueue
<1>6. CASE EnterTail \/ PlanOne \/ TailLeaveSubmit \/ EndRound \/ Conclude
           \/ UNCHANGED allVars
  <2>1. UNCHANGED <<pending, halted, notStarted>>
    BY <1>6 DEF EnterTail, PlanOne, TailLeaveSubmit, EndRound, Conclude, allVars, vars,
                queueVars, schedVars
  <2> QED
    BY <2>1 DEF HaltKeepsQueue
<1> QED
  BY <1>1, <1>2, <1>3, <1>4, <1>5, <1>6 DEF TRNext, TRController

LEMMA NextTREarned ==
    ASSUME TRTypeInv, Phases, Census, HaltKeepsQueue, PublishedIsEarned, [TRNext]_allVars
    PROVE  PublishedIsEarned'
<1>1. CASE Report
  BY <1>1, LoopState, FinishEarns DEF Report, Finish, Phases
<1>2. CASE Restart
  BY <1>2 DEF Restart, PublishedIsEarned, Unpublished
<1>3. CASE ~Report /\ ~Restart /\ pc = "exit"
  <2>1. phase = "report" /\ running = {}
    BY <1>3 DEF Phases
  <2>2. UNCHANGED <<published, settled, result, halted, pc>>
    <3>1. ~\E i \in Index : TRWorkerReturns(i)
      BY <2>1, WorkerSteps
    <3> QED
      BY <1>3, <2>1, <3>1
         DEF TRNext, TRController, MainLoop, EnterTail, PlanOne, PlanDone, TailQueue,
             TailLeaveSubmit, TailResult, EndRound, Conclude, allVars, vars, queueVars, schedVars
  <2> QED
    BY <2>2 DEF PublishedIsEarned, Completed
<1>4. CASE ~Report /\ ~Restart /\ pc # "exit"
  <2>1. published = Unpublished
    BY <1>4 DEF Phases, Control
  <2>2. CASE MainLoop \/ TailQueue
    <3>1. published' = published /\ pc' # "exit"
      BY <2>2 DEF MainLoop, MainProbe, TailQueue, ProbeOne, Refresh, Submit, LeaveSubmit,
                  WaitReturns, WaitTimesOut, Settle
    <3> QED
      BY <2>1, <3>1 DEF PublishedIsEarned, Unpublished
  <2>3. CASE \E i \in Index : TRWorkerReturns(i)
    <3>1. published' = published /\ pc' = pc
      BY <2>3, WorkerSteps
    <3> QED
      BY <1>4, <2>1, <3>1 DEF PublishedIsEarned, Unpublished
  <2>4. CASE EnterTail \/ PlanOne \/ PlanDone \/ TailLeaveSubmit \/ TailResult \/ EndRound
             \/ Conclude \/ UNCHANGED allVars
    <3>1. published' = published /\ pc' # "exit"
      BY <1>4, <2>4 DEF EnterTail, PlanOne, Plan, PlanDone, TailLeaveSubmit, TailResult,
                        EndRound, Conclude, allVars, vars
    <3> QED
      BY <2>1, <3>1 DEF PublishedIsEarned, Unpublished
  <2> QED
    BY <1>4, <2>2, <2>3, <2>4 DEF TRNext, TRController
<1> QED
  BY <1>1, <1>2, <1>3, <1>4

-----------------------------------------------------------------------------
(* The ledger in memory contains the durable one from planning to the end,  *)
(* so every manifest written contains the one it replaces.                  *)
LEMMA NextLedger ==
    ASSUME TRTypeInv, Phases, Ledger, [TRNext]_allVars
    PROVE  Ledger' /\ (manifest \subseteq manifest')
<1>1. CASE MainLoop \/ TailQueue \/ Report
  <2>1. UNCHANGED <<phase, events, manifest>>
    BY <1>1, LoopSteps DEF diskVars
  <2>2. pc' # "conclude"
    BY <1>1 DEF MainLoop, MainProbe, TailQueue, ProbeOne, Refresh, Submit, LeaveSubmit,
                WaitReturns, WaitTimesOut, Settle, Report, Finish
  <2> QED
    BY <2>1, <2>2 DEF Ledger
<1>2. CASE \E i \in Index : TRWorkerReturns(i)
  <2>1. UNCHANGED <<pc, tailVars, manifest>>
    BY <1>2, WorkerSteps
  <2> QED
    BY <2>1 DEF Ledger, tailVars
<1>3. CASE EnterTail
  BY <1>3 DEF EnterTail, LoadManifestEvents, Ledger, diskVars
<1>4. CASE PlanOne
  <2>1. PICK i \in toPlan : Plan(i, PlannedSlot(i))
    BY <1>4 DEF PlanOne
  <2>2. events \subseteq events'
    BY <2>1 DEF Plan, Recorded
  <2> QED
    BY <1>4, <2>2 DEF PlanOne, Ledger
<1>5. CASE PlanDone
  BY <1>5 DEF PlanDone, Ledger
<1>6. CASE TailLeaveSubmit
  BY <1>6 DEF TailLeaveSubmit, Ledger, tailVars
<1>7. CASE TailResult
  <2>1. events \subseteq events' /\ manifest' = manifest /\ phase = "tail" /\ pc' = "refresh"
    BY <1>7 DEF TailResult, Recorded
  <2> QED
    BY <2>1 DEF Ledger
<1>8. CASE EndRound
  BY <1>8 DEF EndRound, Ledger, diskVars
<1>9. CASE Conclude
  <2>1. manifest \subseteq events /\ phase' = "report" /\ pc' = "finish"
    BY <1>9 DEF Conclude, Ledger
  <2>2. manifest' = manifest \/ (manifest' = events' /\ events \subseteq events')
    BY <1>9 DEF Conclude
  <2> QED
    BY <2>1, <2>2 DEF Ledger
<1>10. CASE Restart
  BY <1>10 DEF Restart, Ledger, diskVars
<1>11. CASE UNCHANGED allVars
  BY <1>11 DEF allVars, vars, tailVars, diskVars, Ledger
<1> QED
  BY <1>1, <1>2, <1>3, <1>4, <1>5, <1>6, <1>7, <1>8, <1>9, <1>10, <1>11
     DEF TRNext, TRController

-----------------------------------------------------------------------------
(* An index is bound to its attempt, on disk, from its planning to its      *)
(* result.                                                                  *)
LEMMA PlanBound ==
    ASSUME TRTypeInv, Phases, Bound, PlanOne
    PROVE  Bound'
<1>1. PICK i \in toPlan : Plan(i, PlannedSlot(i))
  BY DEF PlanOne
<1> DEFINE s == PlannedSlot(i)
<1>2. /\ i \in Index /\ i \notin planned
      /\ ordinal \in 1..MaxRecoveries
      /\ phase = "plan" /\ phase' = "plan" /\ ordinal' = ordinal /\ result' = result
  <2>1. i \in Index /\ i \notin planned
    BY DEF TRTypeInv, Bound, Planned
  <2>2. phase = "plan" /\ phase' = "plan" /\ ordinal' = ordinal /\ result' = result
    BY DEF PlanOne, queueVars
  <2>3. ordinal \in 1..MaxRecoveries
    BY <2>2, Slots DEF Phases, TRTypeInv
  <2> QED
    BY <2>1, <2>2, <2>3
<1>3. s \in AttemptSlot /\ s[1] = ordinal
  BY <1>2, PlannedSlotType
<1>4. DecisionPayload(i) # NoDecision
  <2>1. slot[i] # NoSlot
    BY <1>2, Slots DEF TRTypeInv
  <2> QED
    BY <2>1 DEF DecisionPayload, NoDecision
<1>5. \/ UNCHANGED <<planned, slot, decision>> /\ events \subseteq events'
      \/ /\ BlockReason(result[i]) = ""
         /\ decision' = [decision EXCEPT ![i][s] = DecisionPayload(i)]
         /\ events' = events \cup {<<"scheduled", i, s>>}
         /\ planned' = planned \cup {i}
         /\ slot' = [slot EXCEPT ![i] = s]
  BY <1>1 DEF Plan, Recorded
<1>6. toPlan' = toPlan \ {i}
  BY <1>1 DEF Plan
<1> HIDE DEF s
<1>7. slot \in [Index -> Slot] /\ planned \subseteq Index
      /\ decision \in [Index -> [AttemptSlot -> Payload \cup {NoDecision}]]
  BY DEF TRTypeInv
<1>8. CASE UNCHANGED <<planned, slot, decision>> /\ events \subseteq events'
  <2>1. DecisionBeforeLaunch'
    BY <1>2 DEF DecisionBeforeLaunch
  <2> QED
    BY <1>2, <1>6, <1>8, <2>1 DEF Bound, Planned
<1>9. CASE /\ BlockReason(result[i]) = ""
           /\ decision' = [decision EXCEPT ![i][s] = DecisionPayload(i)]
           /\ events' = events \cup {<<"scheduled", i, s>>}
           /\ planned' = planned \cup {i}
           /\ slot' = [slot EXCEPT ![i] = s]
  <2>1. slot'[i] = s /\ decision'[i][s] = DecisionPayload(i)
    BY <1>2, <1>3, <1>7, <1>9
  <2>2. \A j \in planned : slot'[j] = slot[j] /\ decision'[j] = decision[j]
    BY <1>2, <1>7, <1>9
  <2>3. events \subseteq events' /\ <<"scheduled", i, s>> \in events'
    BY <1>9
  <2>4. Planned'
    <3> SUFFICES ASSUME NEW j \in planned'
                 PROVE  /\ j \notin toPlan'
                        /\ slot'[j] \in AttemptSlot /\ slot'[j][1] = ordinal'
                        /\ decision'[j][slot'[j]] # NoDecision
                        /\ <<"scheduled", j, slot'[j]>> \in events'
                        /\ BlockReason(result'[j]) = ""
      BY DEF Planned
    <3>1. CASE j = i
      <4>1. i \notin toPlan' /\ slot'[i] \in AttemptSlot /\ slot'[i][1] = ordinal'
        BY <1>2, <1>3, <1>6, <2>1
      <4>2. decision'[i][slot'[i]] # NoDecision
        BY <1>4, <2>1
      <4>3. <<"scheduled", i, slot'[i]>> \in events'
        BY <2>1, <2>3
      <4>4. BlockReason(result'[i]) = ""
        <5>1. result'[i] = result[i]
          BY <1>2
        <5>2. BlockReason(result[i]) = ""
          BY <1>9
        <5> QED
          BY <5>1, <5>2
      <4> QED
        BY <3>1, <4>1, <4>2, <4>3, <4>4
    <3>2. CASE j \in planned
      <4>1. slot'[j] = slot[j] /\ decision'[j] = decision[j]
        BY <2>2, <3>2
      <4>2. j \notin toPlan' /\ slot'[j] \in AttemptSlot /\ slot'[j][1] = ordinal'
        BY <1>2, <1>6, <3>2, <4>1 DEF Bound, Planned
      <4>3. decision'[j][slot'[j]] # NoDecision
        BY <3>2, <4>1 DEF Bound, Planned
      <4>4. <<"scheduled", j, slot'[j]>> \in events'
        <5>1. <<"scheduled", j, slot[j]>> \in events
          BY <3>2 DEF Bound, Planned
        <5> QED
          BY <2>3, <4>1, <5>1
      <4>5. BlockReason(result'[j]) = ""
        <5>1. result'[j] = result[j]
          BY <1>2
        <5>2. BlockReason(result[j]) = ""
          BY <3>2 DEF Bound, Planned
        <5> QED
          BY <5>1, <5>2
      <4> QED
        BY <4>2, <4>3, <4>4, <4>5
    <3> QED
      BY <1>9, <3>1, <3>2
  <2> QED
    BY <1>2, <2>4 DEF Bound, DecisionBeforeLaunch
<1> QED
  BY <1>5, <1>8, <1>9

LEMMA NextBound ==
    ASSUME TRTypeInv, Phases, Ledger, Bound, [TRNext]_allVars
    PROVE  Bound'
<1>1. ASSUME UNCHANGED <<phase, planned, slot, decision>>, phase # "plan",
             manifest \subseteq manifest',
             phase = "tail" => InFlight' \cup pending' \subseteq InFlight \cup pending
      PROVE  Bound'
  <2>1. planned' = {}
    BY <1>1 DEF Phases
  <2> QED
    BY <1>1, <2>1 DEF Bound, Planned, DecisionBeforeLaunch
<1>2. ASSUME phase' # "tail", planned' = {}
      PROVE  Bound'
  BY <1>2 DEF Bound, Planned, DecisionBeforeLaunch
<1>3. CASE MainLoop \/ TailQueue \/ Report
  <2>1. /\ UNCHANGED <<phase, planned, slot, decision, manifest>> /\ phase # "plan"
    BY <1>3, LoopSteps DEF diskVars
  <2>2. CASE phase = "tail"
    <3>1. TailQueue
      BY <1>3, <2>2 DEF MainLoop, Report
    <3>2. InFlight' \cup pending' \subseteq InFlight \cup pending
      BY <3>1 DEF TailQueue, Refresh, Submit, SubmitFirst, WaitReturns, WaitTimesOut,
                  InFlight, queueVars
    <3> QED
      BY <1>1, <2>1, <3>2
  <2> QED
    BY <1>1, <2>1, <2>2
<1>4. CASE \E i \in Index : TRWorkerReturns(i)
  <2>1. PICK i \in Index : TRWorkerReturns(i)
    BY <1>4
  <2>2. /\ phase # "plan" /\ i \in running
        /\ running' = running \ {i} /\ finished' = finished \cup {i}
        /\ UNCHANGED <<pending, tailVars, decision, manifest>>
    BY <2>1, WorkerSteps
  <2>3. InFlight' = InFlight
    BY <2>2 DEF InFlight
  <2> QED
    BY <1>1, <2>2, <2>3 DEF tailVars
<1>5. CASE EnterTail
  <2>1. phase' # "tail" /\ planned' = {}
    BY <1>5 DEF EnterTail, Phases
  <2> QED
    BY <1>2, <2>1
<1>6. CASE PlanOne
  BY <1>6, PlanBound
<1>7. CASE PlanDone
  <2>1. /\ pending' = planned /\ manifest' = events /\ planned' = {}
        /\ UNCHANGED <<running, finished, slot, decision>>
        /\ running = {} /\ finished = {}
    BY <1>7 DEF PlanDone, Phases
  <2>2. InFlight' = {}
    BY <2>1 DEF InFlight
  <2> QED
    BY <2>1, <2>2 DEF Bound, Planned, DecisionBeforeLaunch
<1>8. CASE TailLeaveSubmit
  <2>1. manifest \subseteq manifest'
    BY <1>8, NextLedger
  <2>2. /\ phase = "tail" /\ UNCHANGED <<phase, planned, slot, decision>>
        /\ UNCHANGED <<running, finished, pending>>
    BY <1>8 DEF TailLeaveSubmit, queueVars, tailVars
  <2> QED
    BY <1>1, <2>1, <2>2 DEF InFlight
<1>9. CASE TailResult
  <2>1. /\ phase = "tail" /\ UNCHANGED <<phase, planned, slot, decision, manifest>>
        /\ UNCHANGED <<running, pending>> /\ finished' \subseteq finished
    BY <1>9 DEF TailResult
  <2> QED
    BY <1>1, <2>1 DEF InFlight
<1>10. CASE EndRound \/ Conclude \/ Restart
  <2>1. phase' # "tail" /\ planned' = {}
    BY <1>10 DEF EndRound, Conclude, Restart, Phases
  <2> QED
    BY <1>2, <2>1
<1>11. CASE UNCHANGED allVars
  <2>1. UNCHANGED <<phase, toPlan, ordinal, planned, slot, events, decision, manifest,
                    result, running, finished, pending>>
    BY <1>11 DEF allVars, vars, queueVars, tailVars, diskVars
  <2> QED
    BY <2>1 DEF Bound, Planned, DecisionBeforeLaunch, InFlight
<1> QED
  BY <1>3, <1>4, <1>5, <1>6, <1>7, <1>8, <1>9, <1>10, <1>11 DEF TRNext, TRController

-----------------------------------------------------------------------------
(* One controller writes the report of an attempt once: the attempts of a   *)
(* later round, or of an index not reported yet, are untouched in this life.*)
LEMMA SameReports ==
    ASSUME OncePerLife, UNCHANGED <<version, restarts>>,
           \A i \in Index : slot'[i][1] <= ordinal',
           \A i \in Index : \A s \in Slot : Ahead(i, s)' => Ahead(i, s)
    PROVE  OncePerLife'
BY DEF OncePerLife

LEMMA WorkerOnce ==
    ASSUME TRTypeInv, Phases, Census, OncePerLife, NEW i \in Index, TRWorkerReturns(i)
    PROVE  OncePerLife'
<1>1. /\ i \in running /\ phase \in {"main", "tail"}
      /\ running' = running \ {i} /\ pending' = pending
      /\ UNCHANGED <<phase, ordinal, slot, restarts>>
  BY WorkerSteps DEF tailVars
<1>2. slot[i] \in Slot /\ slot[i][1] <= ordinal /\ i \notin pending
  BY <1>1 DEF TRTypeInv, OncePerLife, Census
<1>3. \A j \in Index : slot'[j][1] <= ordinal'
  BY <1>1 DEF OncePerLife
<1>4. \A j \in Index : \A s \in Slot : Ahead(j, s)' => Ahead(j, s)
  BY <1>1 DEF Ahead
<1>5. CASE ReportReused(i)
  BY <1>1, <1>3, <1>4, <1>5, SameReports DEF ReportReused
<1>6. CASE ReportWritten(i)
  <2>1. version' = [version EXCEPT ![i][slot[i]] = version[i][slot[i]] + 1]
    BY <1>6 DEF ReportWritten
  <2>2. version \in [Index -> [Slot -> Nat]] /\ restarts \in Nat /\ ordinal \in Nat
    BY Slots DEF TRTypeInv
  <2>3. version[i][slot[i]] <= restarts
    BY <1>1, <1>2 DEF OncePerLife, Ahead
  <2>4. version'[i][slot[i]] <= restarts + 1
    BY <1>2, <2>1, <2>2, <2>3
  <2>5. ~Ahead(i, slot[i])'
    <3>1. slot[i][1] \in Nat /\ ~(slot[i][1] > ordinal)
      BY <1>2, <2>2, Slots
    <3>2. i \notin pending' \cup running'
      BY <1>1, <1>2
    <3> QED
      BY <1>1, <3>1, <3>2 DEF Ahead
  <2>6. \A j \in Index : \A s \in Slot :
           (j # i \/ s # slot[i]) => version'[j][s] = version[j][s]
    BY <1>2, <2>1, <2>2
  <2> SUFFICES ASSUME NEW j \in Index, NEW s \in Slot
               PROVE  /\ version'[j][s] <= restarts' + 1
                      /\ Ahead(j, s)' => version'[j][s] <= restarts'
    BY <1>3 DEF OncePerLife
  <2>7. CASE j = i /\ s = slot[i]
    BY <1>1, <2>4, <2>5, <2>7
  <2>8. CASE j # i \/ s # slot[i]
    BY <1>1, <1>4, <2>6, <2>8 DEF OncePerLife
  <2> QED
    BY <2>7, <2>8
<1> QED
  BY <1>5, <1>6 DEF TRWorkerReturns

LEMMA NextOnce ==
    ASSUME TRTypeInv, Phases, Census, Bound, OncePerLife, [TRNext]_allVars
    PROVE  OncePerLife'
<1>0. ordinal \in Nat /\ \A s \in Slot : s[1] \in Nat
  BY Slots DEF TRTypeInv
<1>1. ASSUME UNCHANGED <<version, restarts, ordinal, slot>>,
             phase' = phase \/ phase' # "plan",
             pending' \cup running' \subseteq pending \cup running
      PROVE  OncePerLife'
  <2>1. \A i \in Index : slot'[i][1] <= ordinal'
    BY <1>1 DEF OncePerLife
  <2>2. \A i \in Index : \A s \in Slot : Ahead(i, s)' => Ahead(i, s)
    BY <1>1 DEF Ahead
  <2> QED
    BY <1>1, <2>1, <2>2, SameReports
<1>2. CASE MainLoop \/ TailQueue \/ Report
  <2>1. UNCHANGED <<phase, version, restarts, ordinal, slot>>
    BY <1>2, LoopSteps DEF diskVars
  <2>2. pending' \cup running' \subseteq pending \cup running
    BY <1>2 DEF MainLoop, MainProbe, TailQueue, ProbeOne, Refresh, Submit, SubmitFirst,
                LeaveSubmit, WaitReturns, WaitTimesOut, Settle, Report, Finish, queueVars
  <2> QED
    BY <1>1, <2>1, <2>2
<1>3. CASE \E i \in Index : TRWorkerReturns(i)
  BY <1>3, WorkerOnce
<1>4. CASE EnterTail
  <2>1. CASE SkipTail
    BY <1>1, <1>4, <2>1 DEF EnterTail, queueVars, diskVars
  <2>2. CASE ~SkipTail
    <3>1. /\ UNCHANGED <<version, restarts, slot, pending, running>>
          /\ ordinal = 0 /\ ordinal' = 1
      BY <1>4, <2>2 DEF EnterTail, Phases, queueVars, diskVars
    <3>2. \A i \in Index : slot[i] \in Slot /\ slot[i][1] <= 0
      BY <3>1 DEF OncePerLife, TRTypeInv
    <3>3. \A i \in Index : slot'[i][1] <= ordinal'
      BY <1>0, <3>1, <3>2
    <3>4. \A i \in Index : \A s \in Slot : Ahead(i, s)' => Ahead(i, s)
      BY <1>0, <3>1 DEF Ahead
    <3> QED
      BY <3>1, <3>3, <3>4, SameReports
  <2> QED
    BY <2>1, <2>2
<1>5. CASE PlanOne
  <2>1. PICK i \in toPlan : Plan(i, PlannedSlot(i))
    BY <1>5 DEF PlanOne
  <2>2. /\ phase = "plan" /\ phase' = "plan"
        /\ UNCHANGED <<ordinal, version, restarts, pending, running>>
        /\ pending = {} /\ running = {}
    BY <1>5 DEF PlanOne, Phases, queueVars
  <2>3. PlannedSlot(i)[1] = ordinal /\ i \in Index
    BY <1>5, <2>2, PlannedSlotType, Slots DEF Phases, TRTypeInv
  <2>4. slot' = slot \/ slot' = [slot EXCEPT ![i] = PlannedSlot(i)]
    BY <2>1 DEF Plan
  <2>5. \A j \in Index : slot'[j] = slot[j] \/ slot'[j] = PlannedSlot(i)
    <3>1. slot \in [Index -> Slot]
      BY DEF TRTypeInv
    <3> QED
      BY <2>3, <2>4, <3>1
  <2>6. \A j \in Index : slot'[j][1] <= ordinal'
    <3> SUFFICES ASSUME NEW j \in Index PROVE slot'[j][1] <= ordinal
      BY <2>2
    <3>1. CASE slot'[j] = slot[j]
      BY <3>1 DEF OncePerLife
    <3>2. CASE slot'[j] = PlannedSlot(i)
      BY <1>0, <2>3, <3>2
    <3> QED
      BY <2>5, <3>1, <3>2
  <2>7. \A j \in Index : \A s \in Slot : Ahead(j, s)' => Ahead(j, s)
    BY <2>2 DEF Ahead
  <2> QED
    BY <2>2, <2>6, <2>7, SameReports
<1>6. CASE PlanDone
  <2>1. /\ UNCHANGED <<ordinal, version, restarts, slot>>
        /\ phase = "plan" /\ phase' # "plan"
        /\ pending' = planned /\ running' = {}
    BY <1>6 DEF PlanDone, Phases
  <2>2. \A i \in planned : slot[i][1] = ordinal
    BY DEF Bound, Planned
  <2>3. \A i \in Index : \A s \in Slot : Ahead(i, s)' => Ahead(i, s)
    BY <2>1, <2>2 DEF Ahead
  <2>4. \A i \in Index : slot'[i][1] <= ordinal'
    BY <2>1 DEF OncePerLife
  <2> QED
    BY <2>1, <2>3, <2>4, SameReports
<1>7. CASE TailLeaveSubmit \/ TailResult \/ Conclude
  <2>1. UNCHANGED <<version, restarts, ordinal, slot, phase, pending, running>>
    BY <1>7 DEF TailLeaveSubmit, TailResult, Conclude, queueVars, tailVars
  <2> QED
    BY <1>1, <2>1
<1>8. CASE EndRound
  <2>1. /\ UNCHANGED <<version, restarts, slot, pending, running>>
        /\ \/ ordinal' = ordinal /\ phase' = "report"
           \/ ordinal' = ordinal + 1 /\ phase' = "plan"
    BY <1>8 DEF EndRound, queueVars, diskVars
  <2>2. \A i \in Index : slot[i] \in Slot /\ slot[i][1] <= ordinal
    BY DEF OncePerLife, TRTypeInv
  <2>3. \A i \in Index : slot'[i][1] <= ordinal'
    BY <1>0, <2>1, <2>2
  <2>4. \A i \in Index : \A s \in Slot : Ahead(i, s)' => Ahead(i, s)
    BY <1>0, <2>1 DEF Ahead
  <2> QED
    BY <2>1, <2>3, <2>4, SameReports
<1>9. CASE Restart
  <2>1. /\ version' = version /\ restarts' = restarts + 1
        /\ restarts \in Nat /\ ordinal' = 0
        /\ \A i \in Index : slot'[i][1] = 0
    BY <1>9, Slots DEF Restart, diskVars, TRTypeInv
  <2>2. \A i \in Index : \A s \in Slot :
            version[i][s] \in Nat /\ version[i][s] <= restarts + 1
    BY DEF OncePerLife, TRTypeInv
  <2> QED
    BY <2>1, <2>2 DEF OncePerLife
<1>10. CASE UNCHANGED allVars
  BY <1>1, <1>10 DEF allVars, vars, queueVars, tailVars, diskVars
<1> QED
  BY <1>2, <1>3, <1>4, <1>5, <1>6, <1>7, <1>8, <1>9, <1>10 DEF TRNext, TRController

-----------------------------------------------------------------------------
(* The inductive invariant of the recovery.                                 *)
TRInv ==
    /\ TRTypeInv /\ Phases /\ Census /\ HaltKeepsQueue /\ PublishedIsEarned
    /\ Ledger /\ Bound /\ OncePerLife

LEMMA InitTRInv == TRInit => TRInv
<1> SUFFICES ASSUME TRInit PROVE TRInv
  OBVIOUS
<1>1. Census /\ PublishedIsEarned /\ HaltKeepsQueue
  BY InitCensus, InitControl DEF TRInit, Init, HaltKeepsQueue
<1>2. Ledger /\ Bound
  BY DEF TRInit, Init, Ledger, Bound, Planned, DecisionBeforeLaunch
<1>3. OncePerLife
  BY Slots DEF TRInit, OncePerLife
<1> QED
  BY <1>1, <1>2, <1>3, InitTRType, InitPhases DEF TRInv

LEMMA NextTRInv == TRInv /\ [TRNext]_allVars => TRInv'
<1> SUFFICES ASSUME TRInv, [TRNext]_allVars PROVE TRInv'
  OBVIOUS
<1>1. /\ TRTypeInv /\ Phases /\ Census /\ HaltKeepsQueue /\ PublishedIsEarned
      /\ Ledger /\ Bound /\ DecisionBeforeLaunch /\ OncePerLife
  BY DEF TRInv, Bound
<1> QED
  BY <1>1, NextTRType, NextPhases, NextTRCensus, NextTRHalt, NextTREarned, NextLedger,
     NextBound, NextOnce DEF TRInv

LEMMA TRInvariant == TRSpec => []TRInv
BY InitTRInv, NextTRInv, PTL DEF TRSpec

(* Type correctness of the recovery; the bound on versions says that a      *)
(* report is written at most once in each life of the controller.           *)
THEOREM RecoveryTypeCorrect == TRSpec => []TRTypeOK
<1>1. TRInv => TRTypeOK
  <2> SUFFICES ASSUME TRInv PROVE TRTypeOK
    OBVIOUS
  <2>1. \A i \in Index : \A s \in Slot : version[i][s] \in 0..MaxRestarts + 1
    <3> SUFFICES ASSUME NEW i \in Index, NEW s \in Slot
                 PROVE  version[i][s] \in 0..MaxRestarts + 1
      OBVIOUS
    <3>1. version[i][s] \in Nat /\ restarts \in 0..MaxRestarts
      BY DEF TRInv, TRTypeInv
    <3>2. version[i][s] <= restarts + 1
      BY DEF TRInv, OncePerLife
    <3> QED
      BY <3>1, <3>2, Slots
  <2>2. /\ phase \in {"main", "plan", "tail", "report"}
        /\ pc \in {"refresh", "submit", "wait", "probe", "settle", "finish", "exit",
                   "plan", "conclude", "error"}
    BY DEF TRInv, Phases
  <2> QED
    BY <2>1, <2>2 DEF TRInv, TRTypeInv, TRTypeOK
<1> QED
  BY <1>1, TRInvariant, PTL

(* No index is lost, or settled twice, by the rounds of recovery, which     *)
(* take indices out of the results and put them back, nor by a restart.     *)
THEOREM RecoveryCensus == TRSpec => []Census
<1>1. TRInv => Census
  BY DEF TRInv
<1> QED
  BY <1>1, TRInvariant, PTL

(* What the report says at the end of the recovery is earned, also when the *)
(* halt struck in a round with nothing left to start.                       *)
THEOREM RecoveryPublicationEarned == TRSpec => []PublishedIsEarned
<1>1. TRInv => PublishedIsEarned
  BY DEF TRInv
<1> QED
  BY <1>1, TRInvariant, PTL

(* No recovery is launched, or may be launched, whose decision file and     *)
(* ledger entry are not durable: write_decision_once and the manifest of    *)
(* the round come before submit_ready.                                      *)
THEOREM DecisionsPrecedeLaunches == TRSpec => []DecisionBeforeLaunch
<1>1. TRInv => DecisionBeforeLaunch
  BY DEF TRInv, Bound
<1> QED
  BY <1>1, TRInvariant, PTL

(* The durable ledger only grows, over every life of the controller.        *)
THEOREM LedgerGrows == TRSpec => LedgerCumulative
<1>1. TRInv /\ [TRNext]_allVars => [manifest \subseteq manifest']_allVars
  BY NextLedger DEF TRInv
<1> QED
  BY <1>1, TRInvariant, PTL DEF TRSpec, LedgerCumulative

(* A report that a resumed controller would reuse is never overwritten.     *)
THEOREM ReportsKept == TRSpec => ReusableReportKept
<1>1. TRInv /\ [TRNext]_allVars =>
        [\A i \in Index : \A s \in Slot :
            Reusable(report[i][s], MaxRecoveries > 0) => report'[i][s] = report[i][s]]_allVars
  <2> SUFFICES ASSUME TRInv, TRNext, NEW i \in Index, NEW s \in Slot,
                      Reusable(report[i][s], MaxRecoveries > 0)
               PROVE  report'[i][s] = report[i][s]
    OBVIOUS
  <2>1. report \in [Index -> [Slot -> Result \cup {NoResult}]]
    BY DEF TRInv, TRTypeInv
  <2>2. CASE \E j \in Index : ReportWritten(j)
    <3>1. PICK j \in Index : ReportWritten(j)
      BY <2>2
    <3>2. ~Reuses(j) /\ \E left : report' = [report EXCEPT ![j][slot[j]] = left]
      BY <3>1 DEF ReportWritten
    <3>3. j # i \/ slot[j] # s
      BY <3>2 DEF Reuses
    <3> QED
      BY <2>1, <3>2, <3>3
  <2>3. CASE ~\E j \in Index : ReportWritten(j)
    <3>1. report' = report
      BY <2>3 DEF TRNext, TRController, TRWorkerReturns, ReportReused, MainLoop, EnterTail,
                  PlanOne, PlanDone, TailQueue, TailLeaveSubmit, TailResult, EndRound,
                  Conclude, Report, Restart, diskVars
    <3> QED
      BY <3>1
  <2> QED
    BY <2>2, <2>3
<1> QED
  BY <1>1, TRInvariant, PTL DEF TRSpec, ReusableReportKept

(* Once the main loop is over, a task with a verdict keeps it: a round only *)
(* takes back results it found recoverable, and a result that is settled    *)
(* has no worker or future left that could replace it.                      *)
THEOREM VerdictsKept == TRSpec => VerdictKept
<1>1. TRInv /\ [TRNext]_allVars =>
        [phase # "main" /\ restarts' = restarts =>
            \A i \in settled : ~Technical(result[i]) =>
                i \in settled' /\ result'[i] = result[i]]_allVars
  <2> SUFFICES ASSUME TRInv, TRNext, phase # "main", restarts' = restarts,
                      NEW i \in settled, ~Technical(result[i])
               PROVE  i \in settled' /\ result'[i] = result[i]
    OBVIOUS
  <2>1. /\ i \in Index /\ i \notin running /\ i \notin waitDone
        /\ result \in [Index -> Result \cup {NoResult}]
    BY DEF TRInv, TRTypeInv, QueueTypeOK, Census
  <2>2. CASE \E j \in Index : TRWorkerReturns(j)
    <3>1. PICK j \in Index : TRWorkerReturns(j)
      BY <2>2
    <3>2. /\ j \in running /\ settled' = settled
          /\ \E r \in Result : result' = [result EXCEPT ![j] = r]
      BY <3>1, WorkerSteps DEF TRInv
    <3> QED
      BY <2>1, <3>2
  <2>3. CASE PlanDone
    <3>1. settled' = settled \ planned /\ result' = result
      BY <2>3 DEF PlanDone
    <3>2. i \notin planned
      <4>1. BlockReason(result[i]) = "not_technical"
        BY DEF BlockReason
      <4> QED
        BY <4>1 DEF TRInv, Bound, Planned
    <3> QED
      BY <3>1, <3>2
  <2>4. CASE TailResult
    <3>1. PICK j \in waitDone : /\ settled' = settled \cup {j}
                                /\ \E r : result' = [result EXCEPT ![j] = r]
      BY <2>4 DEF TailResult
    <3> QED
      BY <2>1, <3>1
  <2>5. CASE Restart
    <3>1. restarts' = restarts + 1 /\ restarts \in Nat
      BY <2>5, Slots DEF Restart, TRInv, TRTypeInv
    <3> QED
      BY <3>1
  <2>6. CASE EnterTail \/ PlanOne \/ TailQueue \/ TailLeaveSubmit \/ EndRound \/ Conclude
             \/ Report
    <3>1. settled' = settled /\ result' = result
      BY <2>6 DEF EnterTail, PlanOne, TailQueue, TailLeaveSubmit, EndRound, Conclude, Report,
                  Refresh, Submit, SubmitFirst, WaitReturns, WaitTimesOut, Finish, queueVars
    <3> QED
      BY <3>1
  <2> QED
    BY <2>2, <2>3, <2>4, <2>5, <2>6 DEF TRNext, TRController, MainLoop
<1> QED
  BY <1>1, TRInvariant, PTL DEF TRSpec, VerdictKept
=============================================================================
