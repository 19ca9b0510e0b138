------------------------ MODULE PendingOutput_proofs ------------------------
(***************************************************************************)
(* Theorems about PendingOutput for every set of generators, whichever of  *)
(* them keep their containers and however many are killed or steps fail.   *)
(***************************************************************************)
EXTENDS PendingOutput, TLAPS

-----------------------------------------------------------------------------
(* The inductive invariant.                                                *)

Busy == {"compare", "swap", "remove", "unlink", "prediction", "metric", "drop"}
Publishing == {"prediction", "metric", "drop"}
Holding == {"swap"} \cup Publishing

(* A process between the steps of an item has the item; it holds the lock   *)
(* of the pending file while it promotes or publishes.                     *)
Walks ==
    \A p \in Proc :
        /\ at[p] \in Busy => item[p] \in Gen
        /\ at[p] \in Holding => lock[item[p]] = p /\ pending[item[p]]

(* What a generator has done is in its files.                              *)
Main0 == {"start", "recover", "create", "docker", "setup"}
Main1 == Main0 \cup {"model", "extracted"}

Holders == {"setup", "model", "extracted", "preserve", "confirm", "finalize"}

Stages ==
    \A g \in Gen :
        /\ pc[g] \in Main0 => candidate[g] = "none"
        /\ pc[g] \in Main1 => ~pending[g] /\ rows["prediction"][g] = 0
        /\ pc[g] = "model" => candidate[g] = "sole"
        /\ pc[g] = "extracted" => candidate[g] = "loose"
        /\ pc[g] \in {"extracted", "preserve"} => owner[g] = "active"
        /\ pc[g] \in Holders => container[g] = "there"
        /\ pc[g] = "confirm" => owner[g] \in {"preserving", "staged"}
        /\ pc[g] \in {"preserve", "confirm"} => pending[g]
        /\ pc[g] \in {"plain", "metric"} => candidate[g] \in {"none", "sole"}
        /\ aim[g] = "plain" => /\ pc[g] \in {"finalize", "remove", "unlink"}
                               /\ candidate[g] = "none"
        /\ pc[g] = "unlink" => container[g] = "gone"
        /\ pc[g] \in {"finalize", "remove", "unlink"} => candidate[g] # "sole"
        /\ pending[g] => candidate[g] = "saved"
        /\ candidate[g] = "sole" => owner[g] = "kept"
        /\ owner[g] = "none" => container[g] # "there"

(* A generator recovers before it starts and publishes its own file at the  *)
(* end; in between it looks after nobody.                                  *)
Mains ==
    \A g \in Gen :
        /\ at[g] # "off" => pc[g] \in {"recover", "publish"}
        /\ pc[g] = "publish" => /\ at[g] \in {"publish"} \cup Publishing
                                /\ todo[g] = {g}

(* Records are removed only of generators that ended without the sole copy. *)
Removals ==
    /\ \A p \in Proc :
          at[p] \in {"remove", "unlink"} =>
              /\ ~Live(item[p]) /\ candidate[item[p]] # "sole"
              /\ at[p] = "unlink" => container[item[p]] = "gone"
    /\ \A g \in Gen :
          /\ parent[g] \notin {"watch", "done"} => ~Live(g) /\ candidate[g] # "sole"
          /\ parent[g] \in {"mark", "write"} => owner[g] # "kept"
          /\ parent[g] = "unlink" => container[g] = "gone"

(* The rows of a candidate that is being published.                        *)
Rows ==
    /\ \A p \in Proc : at[p] \in {"metric", "drop"} => rows["prediction"][item[p]] > 0
    /\ \A p \in Proc : at[p] = "drop" => rows["metric"][item[p]] > 0
    /\ \A g \in Gen : pc[g] = "metric" => rows["prediction"][g] > 0

(* Its container is gone, or kept, from the lock on; a promotion that is    *)
(* about to write is of a staged candidate, not out with its container up.  *)
Finality ==
    \A p \in Proc :
        /\ at[p] \in Publishing =>
              container[item[p]] # "there" \/ owner[item[p]] = "kept"
        /\ at[p] = "swap" => pc[item[p]] # "preserve"
        /\ at[p] = "swap" /\ rows["prediction"][item[p]] > 0 =>
              container[item[p]] # "there"

IInv ==
    /\ TypeOK /\ Walks /\ Stages /\ Mains /\ Removals /\ Rows /\ Finality
    /\ PublishedOnce /\ CandidateSurvives /\ PublishedAfterFinalization

-----------------------------------------------------------------------------
USE GenAssumption, BoundsAssumption
    DEF Proc, File, main, disk, output, walk, Owned, Goes, Moves, Takes, Busy, Publishing,
        Holding, Main0, Main1, Holders

LEMMA InitInvariant == Init => IInv
BY DEF Init, IInv, TypeOK, Walks, Stages, Mains, Removals, Rows, Finality, PublishedOnce,
       CandidateSurvives, PublishedAfterFinalization

-----------------------------------------------------------------------------
(* Type correctness.                                                       *)

OutputTyped ==
    /\ rows \in [File -> [Gen -> Nat]]
    /\ tail \in [File -> {"end", "torn", "bare"}]
    /\ spoiled \in SUBSET File

WalkTyped ==
    /\ at \in [Proc -> {"off", "promote", "compare", "swap", "stale", "remove",
                        "unlink", "publish", "prediction", "metric", "drop"}]
    /\ todo \in [Proc -> SUBSET Gen] /\ item \in [Proc -> Gen \cup {None}]
    /\ clean \in [Proc -> BOOLEAN]

(* Every write of a row keeps the types of the two files.                  *)
LEMMA WritesTyped ==
    ASSUME OutputTyped, NEW f \in File, NEW g \in Gen,
           AppendOnce(f, g) \/ AppendPlain(f, g) \/ Tear(f, g) \/ UNCHANGED output
    PROVE  OutputTyped'
<1>1. CASE AppendOnce(f, g)
  <2>1. rows' \in [File -> [Gen -> Nat]]
    BY <1>1 DEF OutputTyped, AppendOnce
  <2>2. tail' \in [File -> {"end", "torn", "bare"}]
    BY <1>1 DEF OutputTyped, AppendOnce
  <2> QED
    BY <1>1, <2>1, <2>2 DEF OutputTyped, AppendOnce
<1>2. CASE AppendPlain(f, g)
  <2>1. CASE rows[f][g] > 0
    BY <1>2, <2>1 DEF OutputTyped, AppendPlain
  <2>2. CASE ~(rows[f][g] > 0)
    <3>1. /\ rows' = [rows EXCEPT ![f][g] = 1]
          /\ tail' = [tail EXCEPT ![f] = "end"]
          /\ spoiled' \in {spoiled, spoiled \cup {f}}
      BY <1>2, <2>2 DEF AppendPlain
    <3>2. rows' \in [File -> [Gen -> Nat]]
      BY <3>1 DEF OutputTyped
    <3>3. tail' \in [File -> {"end", "torn", "bare"}] /\ spoiled' \in SUBSET File
      BY <3>1 DEF OutputTyped
    <3> QED
      BY <3>2, <3>3 DEF OutputTyped
  <2> QED
    BY <2>1, <2>2
<1>3. CASE Tear(f, g)
  BY <1>3 DEF OutputTyped, Tear
<1>4. CASE UNCHANGED output
  BY <1>4 DEF OutputTyped
<1> QED
  BY <1>1, <1>2, <1>3, <1>4

LEMMA LeaveTyped ==
    ASSUME WalkTyped, NEW p \in Proc, NEW g, NEW phase, NEW ok,
           phase \in {"off", "promote", "stale", "publish"}, Leave(p, g, phase, ok)
    PROVE  WalkTyped'
<1>1. clean' \in [Proc -> BOOLEAN]
  BY DEF WalkTyped, Leave
<1>2. /\ at' = [at EXCEPT ![p] = phase]
      /\ item' = [item EXCEPT ![p] = None]
      /\ todo' = [todo EXCEPT ![p] = @ \ {g}]
  BY DEF Leave
<1> QED
  BY <1>1, <1>2 DEF WalkTyped

(* The end of a publication moves p on, and main when it was its own.      *)
LEMMA ReturnsTyped ==
    ASSUME WalkTyped, NEW p \in Proc, NEW g, NEW status, Returns(p, g, status)
    PROVE  /\ WalkTyped'
           /\ \/ pc' = pc
              \/ /\ p \in Gen
                 /\ \E where \in {"done", "failed"} : pc' = [pc EXCEPT ![p] = where]
<1>1. CASE p \in Gen /\ pc[p] = "publish"
  BY <1>1 DEF Returns, Leave, WalkTyped
<1>2. CASE ~(p \in Gen /\ pc[p] = "publish")
  <2>1. /\ at' = [at EXCEPT ![p] = "publish"]
        /\ item' = [item EXCEPT ![p] = None]
        /\ todo' = [todo EXCEPT ![p] = @ \ {g}]
        /\ pc' = pc
    BY <1>2 DEF Returns, Leave
  <2>2. clean' \in [Proc -> BOOLEAN]
    <3>1. CASE status = "raised"
      BY <1>2, <3>1 DEF Returns, Leave, WalkTyped
    <3>2. CASE status # "raised"
      BY <1>2, <3>2 DEF Returns, Leave, WalkTyped
    <3> QED
      BY <3>1, <3>2
  <2> QED
    BY <2>1, <2>2 DEF WalkTyped
<1> QED
  BY <1>1, <1>2

LEMMA TypeIsTyped == TypeOK => OutputTyped /\ WalkTyped
BY DEF TypeOK, OutputTyped, WalkTyped

LEMMA PromoteCompareTyped ==
    ASSUME TypeOK, Walks, NEW p \in Proc, PromoteCompare(p)
    PROVE  TypeOK'
<1>1. CASE pending[item[p]] /\ owner[item[p]] = "preserving"
  BY <1>1 DEF TypeOK, Walks, PromoteCompare
<1>2. CASE ~(pending[item[p]] /\ owner[item[p]] = "preserving")
  <2>1. WalkTyped'
    BY <1>2, LeaveTyped, TypeIsTyped DEF PromoteCompare
  <2> QED
    BY <1>2, <2>1 DEF TypeOK, WalkTyped, PromoteCompare
<1> QED
  BY <1>1, <1>2

LEMMA StaleReadTyped ==
    ASSUME TypeOK, Walks, NEW p \in Proc, StaleRead(p)
    PROVE  TypeOK'
<1>1. PICK g \in todo[p] :
          Leave(p, g, "stale", FALSE) \/ Leave(p, g, "stale", TRUE) \/ Takes(p, g, "remove")
  BY DEF StaleRead
<1>2. g \in Gen
  BY DEF TypeOK
<1>3. CASE Takes(p, g, "remove")
  BY <1>2, <1>3 DEF TypeOK, StaleRead
<1>4. CASE Leave(p, g, "stale", FALSE) \/ Leave(p, g, "stale", TRUE)
  <2>1. WalkTyped'
    <3>1. CASE Leave(p, g, "stale", FALSE)
      BY <3>1, TypeIsTyped DEF Leave, WalkTyped
    <3>2. CASE Leave(p, g, "stale", TRUE)
      BY <3>2, TypeIsTyped DEF Leave, WalkTyped
    <3> QED
      BY <1>4, <3>1, <3>2
  <2> QED
    BY <2>1 DEF TypeOK, WalkTyped, StaleRead
<1> QED
  BY <1>1, <1>3, <1>4

LEMMA PublishRaisesTyped ==
    ASSUME TypeOK, Walks, NEW p \in Proc, PublishRaises(p)
    PROVE  TypeOK'
<1>1. Returns(p, item[p], "raised")
  BY DEF PublishRaises
<1> QED
  <2>1. WalkTyped' /\ pc' \in [Gen -> {"start", "recover", "create", "docker", "setup", "model",
                       "extracted", "preserve", "confirm", "finalize", "remove", "unlink",
                       "publish", "plain", "metric", "done", "failed", "killed"}]
    BY <1>1, ReturnsTyped, TypeIsTyped DEF TypeOK
  <2>2. lock' \in [Gen -> Proc \cup {None}]
    BY DEF TypeOK, PublishRaises, Unlocked
  <2> QED
    BY <2>1, <2>2 DEF TypeOK, WalkTyped, PublishRaises

LEMMA StepFailsTyped ==
    ASSUME TypeOK, Walks, NEW p \in Proc, StepFails(p)
    PROVE  TypeOK'
<1>1. PICK g \in todo[p] :
        /\ \/ Leave(p, g, "promote", Superseded(g)) /\ UNCHANGED pc
           \/ Leave(p, g, "stale", FALSE) /\ UNCHANGED pc
           \/ Returns(p, g, "raised")
        /\ UNCHANGED output \/ (at[p] \in File /\ Tear(at[p], g))
  BY DEF StepFails
<1>2. g \in Gen
  BY DEF TypeOK
<1>3. WalkTyped' /\ pc' \in [Gen -> {"start", "recover", "create", "docker", "setup", "model",
                       "extracted", "preserve", "confirm", "finalize", "remove", "unlink",
                       "publish", "plain", "metric", "done", "failed", "killed"}]
  <2>1. CASE Returns(p, g, "raised")
    BY <2>1, ReturnsTyped, TypeIsTyped DEF TypeOK
  <2>2. CASE Leave(p, g, "promote", Superseded(g)) /\ UNCHANGED pc
    BY <2>2, LeaveTyped, TypeIsTyped DEF TypeOK
  <2>3. CASE Leave(p, g, "stale", FALSE) /\ UNCHANGED pc
    BY <2>3, TypeIsTyped DEF TypeOK, Leave, WalkTyped
  <2> QED
    BY <1>1, <2>1, <2>2, <2>3
<1>4. OutputTyped'
  BY <1>1, <1>2, WritesTyped, TypeIsTyped
<1>5. faults' \in 0..MaxFaults /\ lock' \in [Gen -> Proc \cup {None}]
  BY DEF StepFails, Fault, TypeOK, Unlocked
<1>6. UNCHANGED <<aim, disk, pending, parent>>
  BY DEF StepFails
<1> QED
  BY <1>3, <1>4, <1>5, <1>6 DEF TypeOK, WalkTyped, OutputTyped

LEMMA PlainTyped ==
    ASSUME TypeOK, Walks, NEW g \in Gen, Plain(g)
    PROVE  TypeOK'
<1>1. OutputTyped'
  BY WritesTyped, TypeIsTyped DEF Plain, PlainFile
<1> QED
  BY <1>1 DEF OutputTyped, TypeOK, Plain

LEMMA PlainFailsTyped ==
    ASSUME TypeOK, Walks, NEW g \in Gen, PlainFails(g)
    PROVE  TypeOK'
<1>1. OutputTyped'
  BY WritesTyped, TypeIsTyped DEF PlainFails, PlainFile
<1>2. faults' \in 0..MaxFaults
  BY DEF PlainFails, Fault, TypeOK
<1> QED
  BY <1>1, <1>2 DEF OutputTyped, TypeOK, PlainFails

LEMMA KillTyped ==
    ASSUME TypeOK, Walks, NEW g \in Gen, Kill(g)
    PROVE  TypeOK'
<1>1. OutputTyped'
  <2>1. at[g] \in File => item[g] \in Gen
    BY DEF Walks
  <2>2. pc[g] \in DOMAIN PlainFile => PlainFile[pc[g]] \in File
    BY DEF PlainFile
  <2> QED
    BY <2>1, <2>2, WritesTyped, TypeIsTyped DEF Kill
<1>2. faults' \in 0..MaxFaults
  BY DEF Kill, Fault, TypeOK
<1> QED
  BY <1>1, <1>2 DEF OutputTyped, TypeOK, Kill, Unlocked

LEMMA ProjectTyped ==
    ASSUME TypeOK, Walks, NEW g \in Gen, Project(g)
    PROVE  TypeOK'
<1>1. OutputTyped'
  BY WritesTyped, TypeIsTyped DEF Project
<1> QED
  BY <1>1 DEF OutputTyped, TypeOK, Project

-----------------------------------------------------------------------------
(* A row may be written of a candidate whose container is not in the way.  *)
MayWrite(f, g) ==
    IF f = "metric"
    THEN rows["prediction"][g] > 0
    ELSE /\ pc[g] \notin Main1
         /\ candidate[g] = "saved" => container[g] # "there" \/ owner[g] = "kept"
         /\ \A q \in Proc : at[q] = "swap" /\ item[q] = g => container[g] # "there"

LEMMA PublishingMayWrite ==
    ASSUME IInv, NEW p \in Proc, at[p] \in File
    PROVE  item[p] \in Gen /\ MayWrite(at[p], item[p])
<1> DEFINE g == item[p]
<1>1. /\ g \in Gen /\ lock[g] = p /\ pending[g]
  BY DEF IInv, Walks
<1>2. CASE at[p] = "metric"
  BY <1>1, <1>2 DEF IInv, Rows, MayWrite
<1>3. CASE at[p] = "prediction"
  <2>1. pc[g] \notin Main1
    BY <1>1 DEF IInv, Stages
  <2>2. container[g] # "there" \/ owner[g] = "kept"
    BY <1>1, <1>3 DEF IInv, Finality
  <2>3. \A q \in Proc : at[q] = "swap" => item[q] # g
    BY <1>1, <1>3 DEF IInv, Walks
  <2> QED
    BY <1>1, <1>3, <2>1, <2>2, <2>3 DEF MayWrite
<1> QED
  BY <1>2, <1>3

LEMMA PlainMayWrite ==
    ASSUME IInv, NEW g \in Gen, pc[g] \in {"plain", "metric"}
    PROVE  PlainFile[pc[g]] \in File /\ MayWrite(PlainFile[pc[g]], g)
BY DEF IInv, Walks, Stages, Rows, MayWrite, PlainFile

(* A step that at most ends the walk of some processes, moves main to its   *)
(* end and writes a row.                                                   *)
Ends ==
    /\ \A q \in Proc :
          \/ /\ at'[q] = at[q] /\ item'[q] = item[q]
             /\ \A g \in Gen : lock[g] = q => lock'[g] = q
          \/ at'[q] \notin Busy
    /\ \A g \in Gen :
          \/ /\ pc'[g] = pc[g] /\ aim'[g] = aim[g]
             /\ \/ at'[g] = at[g] /\ todo'[g] = todo[g]
                \/ at[g] # "off" /\ pc[g] # "publish"
          \/ /\ pc'[g] \in {"done", "failed", "killed"} /\ aim'[g] # "plain"
             /\ at'[g] = "off"
    /\ UNCHANGED <<disk, pending, parent>>

Writes ==
    \/ rows' = rows
    \/ \E f \in File, g \in Gen :
          /\ rows[f][g] = 0 /\ MayWrite(f, g)
          /\ rows' = [rows EXCEPT ![f][g] = 1] \/ rows' = rows

LEMMA EndingStep ==
    ASSUME IInv, TypeOK', Ends, Writes
    PROVE  IInv'
<1>0. \A f \in File, g \in Gen :
          \/ rows'[f][g] = rows[f][g]
          \/ rows[f][g] = 0 /\ rows'[f][g] = 1 /\ MayWrite(f, g)
  BY DEF Writes, IInv, TypeOK
<1>a. \A f \in File, g \in Gen : rows[f][g] \in Nat /\ rows'[f][g] \in Nat
  BY DEF IInv, TypeOK
<1>1. Walks'
  BY DEF IInv, Walks, Ends
<1>2. Stages'
  BY <1>0, <1>a DEF IInv, Stages, Ends, MayWrite
<1>3. Mains'
  BY DEF IInv, Mains, Ends
<1>4. Removals'
  BY DEF IInv, Walks, Removals, Ends, Live
<1>5. Rows'
  BY <1>0, <1>a DEF IInv, Walks, Rows, Ends
<1>6. Finality'
  BY <1>0, <1>a DEF IInv, Walks, Finality, Ends, MayWrite
<1>7. PublishedOnce'
  BY <1>0, <1>a DEF IInv, PublishedOnce, MayWrite
<1>8. CandidateSurvives'
  BY <1>0, <1>a DEF IInv, CandidateSurvives, Ends
<1>9. PublishedAfterFinalization'
  BY <1>0, <1>a DEF IInv, PublishedAfterFinalization, Ends, MayWrite
<1> QED
  BY <1>1, <1>2, <1>3, <1>4, <1>5, <1>6, <1>7, <1>8, <1>9 DEF IInv

-----------------------------------------------------------------------------
(* The steps of main, of the batch and of the recoveries, one by one.      *)

LEMMA StartStep ==
    ASSUME IInv, NEW g \in Gen, Start(g)
    PROVE  IInv'
<1>1. TypeOK'
  BY DEF IInv, TypeOK, Walks, Start, Begin, Records
<1>2. Walks' /\ Mains' /\ Rows'
  BY <1>1 DEF IInv, TypeOK, Walks, Mains, Rows, Stages, Start, Begin, Records
<1>3. Stages'
  BY <1>1 DEF IInv, TypeOK, Stages, Walks, Removals, Mains, Live, Start, Begin, Records
<1>4. Removals'
  BY <1>1 DEF IInv, TypeOK, Walks, Stages, Mains, Removals, Live, Start, Begin, Records
<1>5. Finality'
  BY <1>1 DEF IInv, TypeOK, Walks, Stages, Removals, Finality,
     PublishedAfterFinalization, Start, Begin, Records
<1>6. PublishedOnce' /\ CandidateSurvives' /\ PublishedAfterFinalization'
  BY <1>1 DEF IInv, TypeOK, Walks, Stages, Removals, Rows, Finality, PublishedOnce,
     CandidateSurvives, PublishedAfterFinalization, Start, Begin, Records
<1> QED
  BY <1>1, <1>2, <1>3, <1>4, <1>5, <1>6 DEF IInv

LEMMA CreateStep ==
    ASSUME IInv, NEW g \in Gen, Create(g)
    PROVE  IInv'
<1>1. TypeOK'
  BY DEF IInv, TypeOK, Walks, Create
<1>2. Walks' /\ Mains' /\ Rows'
  BY <1>1 DEF IInv, TypeOK, Walks, Mains, Rows, Stages, Create
<1>3. Stages'
  BY <1>1 DEF IInv, TypeOK, Stages, Walks, Removals, Mains, Live, Create
<1>4. Removals'
  BY <1>1 DEF IInv, TypeOK, Walks, Stages, Mains, Removals, Live, Create
<1>5. Finality'
  BY <1>1 DEF IInv, TypeOK, Walks, Stages, Removals, Finality,
     PublishedAfterFinalization, Create
<1>6. PublishedOnce' /\ CandidateSurvives' /\ PublishedAfterFinalization'
  BY <1>1 DEF IInv, TypeOK, Walks, Stages, Removals, Rows, Finality, PublishedOnce,
     CandidateSurvives, PublishedAfterFinalization, Create
<1> QED
  BY <1>1, <1>2, <1>3, <1>4, <1>5, <1>6 DEF IInv

LEMMA DockerStep ==
    ASSUME IInv, NEW g \in Gen, Docker(g)
    PROVE  IInv'
<1>1. TypeOK'
  BY DEF IInv, TypeOK, Walks, Docker
<1>2. Walks' /\ Mains' /\ Rows'
  BY <1>1 DEF IInv, TypeOK, Walks, Mains, Rows, Stages, Docker
<1>3. Stages'
  BY <1>1 DEF IInv, TypeOK, Stages, Walks, Removals, Mains, Live, Docker
<1>4. Removals'
  BY <1>1 DEF IInv, TypeOK, Walks, Stages, Mains, Removals, Live, Docker
<1>5. Finality'
  BY <1>1 DEF IInv, TypeOK, Walks, Stages, Removals, Finality,
     PublishedAfterFinalization, Docker
<1>6. PublishedOnce' /\ CandidateSurvives' /\ PublishedAfterFinalization'
  BY <1>1 DEF IInv, TypeOK, Walks, Stages, Removals, Rows, Finality, PublishedOnce,
     CandidateSurvives, PublishedAfterFinalization, Docker
<1> QED
  BY <1>1, <1>2, <1>3, <1>4, <1>5, <1>6 DEF IInv

LEMMA DockerFailsStep ==
    ASSUME IInv, NEW g \in Gen, DockerFails(g)
    PROVE  IInv'
<1>1. TypeOK'
  BY DEF IInv, TypeOK, Walks, DockerFails
<1>2. Walks' /\ Mains' /\ Rows'
  BY <1>1 DEF IInv, TypeOK, Walks, Mains, Rows, Stages, DockerFails
<1>3. Stages'
  BY <1>1 DEF IInv, TypeOK, Stages, Walks, Removals, Mains, Live, DockerFails
<1>4. Removals'
  BY <1>1 DEF IInv, TypeOK, Walks, Stages, Mains, Removals, Live, DockerFails
<1>5. Finality'
  BY <1>1 DEF IInv, TypeOK, Walks, Stages, Removals, Finality,
     PublishedAfterFinalization, DockerFails
<1>6. PublishedOnce' /\ CandidateSurvives' /\ PublishedAfterFinalization'
  BY <1>1 DEF IInv, TypeOK, Walks, Stages, Removals, Rows, Finality, PublishedOnce,
     CandidateSurvives, PublishedAfterFinalization, DockerFails
<1> QED
  BY <1>1, <1>2, <1>3, <1>4, <1>5, <1>6 DEF IInv

LEMMA SetupFailsStep ==
    ASSUME IInv, NEW g \in Gen, SetupFails(g)
    PROVE  IInv'
<1>1. TypeOK'
  BY DEF IInv, TypeOK, Walks, SetupFails
<1>2. Walks' /\ Mains' /\ Rows'
  BY <1>1 DEF IInv, TypeOK, Walks, Mains, Rows, Stages, SetupFails
<1>3. Stages'
  BY <1>1 DEF IInv, TypeOK, Stages, Walks, Removals, Mains, Live, SetupFails
<1>4. Removals'
  BY <1>1 DEF IInv, TypeOK, Walks, Stages, Mains, Removals, Live, SetupFails
<1>5. Finality'
  BY <1>1 DEF IInv, TypeOK, Walks, Stages, Removals, Finality,
     PublishedAfterFinalization, SetupFails
<1>6. PublishedOnce' /\ CandidateSurvives' /\ PublishedAfterFinalization'
  BY <1>1 DEF IInv, TypeOK, Walks, Stages, Removals, Rows, Finality, PublishedOnce,
     CandidateSurvives, PublishedAfterFinalization, SetupFails
<1> QED
  BY <1>1, <1>2, <1>3, <1>4, <1>5, <1>6 DEF IInv

LEMMA ArmStep ==
    ASSUME IInv, NEW g \in Gen, Arm(g)
    PROVE  IInv'
<1>1. TypeOK'
  BY DEF IInv, TypeOK, Walks, Arm
<1>2. Walks' /\ Mains' /\ Rows'
  BY <1>1 DEF IInv, TypeOK, Walks, Mains, Rows, Stages, Arm
<1>3. Stages'
  BY <1>1 DEF IInv, TypeOK, Stages, Walks, Removals, Mains, Live, Arm
<1>4. Removals'
  BY <1>1 DEF IInv, TypeOK, Walks, Stages, Mains, Removals, Live, Arm
<1>5. Finality'
  BY <1>1 DEF IInv, TypeOK, Walks, Stages, Removals, Finality,
     PublishedAfterFinalization, Arm
<1>6. PublishedOnce' /\ CandidateSurvives' /\ PublishedAfterFinalization'
  BY <1>1 DEF IInv, TypeOK, Walks, Stages, Removals, Rows, Finality, PublishedOnce,
     CandidateSurvives, PublishedAfterFinalization, Arm
<1> QED
  BY <1>1, <1>2, <1>3, <1>4, <1>5, <1>6 DEF IInv

LEMMA ModelEndsStep ==
    ASSUME IInv, NEW g \in Gen, ModelEnds(g)
    PROVE  IInv'
<1>1. TypeOK'
  BY DEF IInv, TypeOK, Walks, ModelEnds
<1>2. Walks' /\ Mains' /\ Rows'
  BY <1>1 DEF IInv, TypeOK, Walks, Mains, Rows, Stages, ModelEnds
<1>3. Stages'
  BY <1>1 DEF IInv, TypeOK, Stages, Walks, Removals, Mains, Live, ModelEnds
<1>4. Removals'
  BY <1>1 DEF IInv, TypeOK, Walks, Stages, Mains, Removals, Live, ModelEnds
<1>5. Finality'
  BY <1>1 DEF IInv, TypeOK, Walks, Stages, Removals, Finality,
     PublishedAfterFinalization, ModelEnds
<1>6. PublishedOnce' /\ CandidateSurvives' /\ PublishedAfterFinalization'
  BY <1>1 DEF IInv, TypeOK, Walks, Stages, Removals, Rows, Finality, PublishedOnce,
     CandidateSurvives, PublishedAfterFinalization, ModelEnds
<1> QED
  BY <1>1, <1>2, <1>3, <1>4, <1>5, <1>6 DEF IInv

LEMMA CompleteStep ==
    ASSUME IInv, NEW g \in Gen, Complete(g)
    PROVE  IInv'
<1>1. TypeOK'
  BY DEF IInv, TypeOK, Walks, Complete
<1>2. Walks' /\ Mains' /\ Rows'
  BY <1>1 DEF IInv, TypeOK, Walks, Mains, Rows, Stages, Complete
<1>3. Stages'
  BY <1>1 DEF IInv, TypeOK, Stages, Walks, Removals, Mains, Live, Complete
<1>4. Removals'
  BY <1>1 DEF IInv, TypeOK, Walks, Stages, Mains, Removals, Live, Complete
<1>5. Finality'
  BY <1>1 DEF IInv, TypeOK, Walks, Stages, Removals, Finality,
     PublishedAfterFinalization, Complete
<1>6. PublishedOnce' /\ CandidateSurvives' /\ PublishedAfterFinalization'
  BY <1>1 DEF IInv, TypeOK, Walks, Stages, Removals, Rows, Finality, PublishedOnce,
     CandidateSurvives, PublishedAfterFinalization, Complete
<1> QED
  BY <1>1, <1>2, <1>3, <1>4, <1>5, <1>6 DEF IInv

LEMMA EmptyPatchStep ==
    ASSUME IInv, NEW g \in Gen, EmptyPatch(g)
    PROVE  IInv'
<1>1. TypeOK'
  BY DEF IInv, TypeOK, Walks, EmptyPatch
<1>2. Walks' /\ Mains' /\ Rows'
  BY <1>1 DEF IInv, TypeOK, Walks, Mains, Rows, Stages, EmptyPatch
<1>3. Stages'
  BY <1>1 DEF IInv, TypeOK, Stages, Walks, Removals, Mains, Live, EmptyPatch
<1>4. Removals'
  BY <1>1 DEF IInv, TypeOK, Walks, Stages, Mains, Removals, Live, EmptyPatch
<1>5. Finality'
  BY <1>1 DEF IInv, TypeOK, Walks, Stages, Removals, Finality,
     PublishedAfterFinalization, EmptyPatch
<1>6. PublishedOnce' /\ CandidateSurvives' /\ PublishedAfterFinalization'
  BY <1>1 DEF IInv, TypeOK, Walks, Stages, Removals, Rows, Finality, PublishedOnce,
     CandidateSurvives, PublishedAfterFinalization, EmptyPatch
<1> QED
  BY <1>1, <1>2, <1>3, <1>4, <1>5, <1>6 DEF IInv

LEMMA StageStep ==
    ASSUME IInv, NEW g \in Gen, Stage(g)
    PROVE  IInv'
<1>1. TypeOK'
  BY DEF IInv, TypeOK, Walks, Stage
<1>2. Walks' /\ Mains' /\ Rows'
  BY <1>1 DEF IInv, TypeOK, Walks, Mains, Rows, Stages, Stage
<1>3. Stages'
  BY <1>1 DEF IInv, TypeOK, Stages, Walks, Removals, Mains, Live, Stage
<1>4. Removals'
  BY <1>1 DEF IInv, TypeOK, Walks, Stages, Mains, Removals, Live, Stage
<1>5. Finality'
  BY <1>1 DEF IInv, TypeOK, Walks, Stages, Removals, Finality,
     PublishedAfterFinalization, Stage
<1>6. PublishedOnce' /\ CandidateSurvives' /\ PublishedAfterFinalization'
  BY <1>1 DEF IInv, TypeOK, Walks, Stages, Removals, Rows, Finality, PublishedOnce,
     CandidateSurvives, PublishedAfterFinalization, Stage
<1> QED
  BY <1>1, <1>2, <1>3, <1>4, <1>5, <1>6 DEF IInv

LEMMA PreserveStep ==
    ASSUME IInv, NEW g \in Gen, Preserve(g)
    PROVE  IInv'
<1>1. TypeOK'
  BY DEF IInv, TypeOK, Walks, Preserve
<1>2. Walks' /\ Mains' /\ Rows'
  BY <1>1 DEF IInv, TypeOK, Walks, Mains, Rows, Stages, Preserve
<1>3. Stages'
  BY <1>1 DEF IInv, TypeOK, Stages, Walks, Removals, Mains, Live, Preserve
<1>4. Removals'
  BY <1>1 DEF IInv, TypeOK, Walks, Stages, Mains, Removals, Live, Preserve
<1>5. Finality'
  BY <1>1 DEF IInv, TypeOK, Walks, Stages, Removals, Finality,
     PublishedAfterFinalization, Preserve
<1>6. PublishedOnce' /\ CandidateSurvives' /\ PublishedAfterFinalization'
  BY <1>1 DEF IInv, TypeOK, Walks, Stages, Removals, Rows, Finality, PublishedOnce,
     CandidateSurvives, PublishedAfterFinalization, Preserve
<1> QED
  BY <1>1, <1>2, <1>3, <1>4, <1>5, <1>6 DEF IInv

LEMMA ConfirmStep ==
    ASSUME IInv, NEW g \in Gen, Confirm(g)
    PROVE  IInv'
<1>1. TypeOK'
  BY DEF IInv, TypeOK, Walks, Confirm
<1>2. Walks' /\ Mains' /\ Rows'
  BY <1>1 DEF IInv, TypeOK, Walks, Mains, Rows, Stages, Confirm
<1>3. Stages'
  BY <1>1 DEF IInv, TypeOK, Stages, Walks, Removals, Mains, Live, Confirm
<1>4. Removals'
  BY <1>1 DEF IInv, TypeOK, Walks, Stages, Mains, Removals, Live, Confirm
<1>5. Finality'
  BY <1>1 DEF IInv, TypeOK, Walks, Stages, Removals, Finality,
     PublishedAfterFinalization, Confirm
<1>6. PublishedOnce' /\ CandidateSurvives' /\ PublishedAfterFinalization'
  BY <1>1 DEF IInv, TypeOK, Walks, Stages, Removals, Rows, Finality, PublishedOnce,
     CandidateSurvives, PublishedAfterFinalization, Confirm
<1> QED
  BY <1>1, <1>2, <1>3, <1>4, <1>5, <1>6 DEF IInv

LEMMA StagingFailsStep ==
    ASSUME IInv, NEW g \in Gen, StagingFails(g)
    PROVE  IInv'
<1>1. TypeOK'
  BY DEF IInv, TypeOK, Walks, StagingFails
<1>2. Walks' /\ Mains' /\ Rows'
  BY <1>1 DEF IInv, TypeOK, Walks, Mains, Rows, Stages, StagingFails
<1>3. Stages'
  BY <1>1 DEF IInv, TypeOK, Stages, Walks, Removals, Mains, Live, StagingFails
<1>4. Removals'
  BY <1>1 DEF IInv, TypeOK, Walks, Stages, Mains, Removals, Live, StagingFails
<1>5. Finality'
  BY <1>1 DEF IInv, TypeOK, Walks, Stages, Removals, Finality,
     PublishedAfterFinalization, StagingFails
<1>6. PublishedOnce'
  BY <1>1, SMTT(20) DEF IInv, TypeOK, PublishedOnce, Walks, Rows, Stages, StagingFails
<1>7. CandidateSurvives'
  BY <1>1, SMTT(20) DEF IInv, TypeOK, CandidateSurvives, Walks, Stages, Removals, Rows,
     StagingFails
<1>8. PublishedAfterFinalization'
  BY <1>1, SMTT(20) DEF IInv, TypeOK, PublishedAfterFinalization, Walks, Stages,
     Removals, Finality, StagingFails
<1> QED
  BY <1>1, <1>2, <1>3, <1>4, <1>5, <1>6, <1>7, <1>8 DEF IInv

LEMMA RemoveStep ==
    ASSUME IInv, NEW g \in Gen, Remove(g)
    PROVE  IInv'
<1>1. TypeOK'
  BY DEF IInv, TypeOK, Walks, Remove
<1>2. Walks' /\ Mains' /\ Rows'
  BY <1>1 DEF IInv, TypeOK, Walks, Mains, Rows, Stages, Remove
<1>3. Stages'
  BY <1>1 DEF IInv, TypeOK, Stages, Walks, Removals, Mains, Live, Remove
<1>4. Removals'
  BY <1>1, SMTT(20) DEF IInv, TypeOK, Removals, Walks, Stages, Mains, Live, Remove
<1>5. Finality'
  BY <1>1 DEF IInv, TypeOK, Walks, Stages, Removals, Finality,
     PublishedAfterFinalization, Remove
<1>6. PublishedOnce' /\ CandidateSurvives' /\ PublishedAfterFinalization'
  BY <1>1 DEF IInv, TypeOK, Walks, Stages, Removals, Rows, Finality, PublishedOnce,
     CandidateSurvives, PublishedAfterFinalization, Remove
<1> QED
  BY <1>1, <1>2, <1>3, <1>4, <1>5, <1>6 DEF IInv

LEMMA ParentReadStep ==
    ASSUME IInv, NEW g \in Gen, ParentRead(g)
    PROVE  IInv'
<1>1. TypeOK'
  BY DEF IInv, TypeOK, Walks, ParentRead
<1>2. Walks' /\ Mains' /\ Rows'
  BY <1>1 DEF IInv, TypeOK, Walks, Mains, Rows, Stages, ParentRead
<1>3. Stages'
  BY <1>1 DEF IInv, TypeOK, Stages, Walks, Removals, Mains, Live, ParentRead
<1>4. Removals'
  BY <1>1 DEF IInv, TypeOK, Walks, Stages, Mains, Removals, Live, ParentRead
<1>5. Finality'
  BY <1>1 DEF IInv, TypeOK, Walks, Stages, Removals, Finality,
     PublishedAfterFinalization, ParentRead
<1>6. PublishedOnce' /\ CandidateSurvives' /\ PublishedAfterFinalization'
  BY <1>1 DEF IInv, TypeOK, Walks, Stages, Removals, Rows, Finality, PublishedOnce,
     CandidateSurvives, PublishedAfterFinalization, ParentRead
<1> QED
  BY <1>1, <1>2, <1>3, <1>4, <1>5, <1>6 DEF IInv

LEMMA ParentMarkStep ==
    ASSUME IInv, NEW g \in Gen, ParentMark(g)
    PROVE  IInv'
<1>1. TypeOK'
  BY DEF IInv, TypeOK, Walks, ParentMark
<1>2. Walks' /\ Mains' /\ Rows'
  BY <1>1 DEF IInv, TypeOK, Walks, Mains, Rows, Stages, ParentMark
<1>3. Stages'
  BY <1>1 DEF IInv, TypeOK, Stages, Walks, Removals, Mains, Live, ParentMark
<1>4. Removals'
  BY <1>1 DEF IInv, TypeOK, Walks, Stages, Mains, Removals, Live, ParentMark
<1>5. Finality'
  BY <1>1 DEF IInv, TypeOK, Walks, Stages, Removals, Finality,
     PublishedAfterFinalization, ParentMark
<1>6. PublishedOnce' /\ CandidateSurvives' /\ PublishedAfterFinalization'
  BY <1>1 DEF IInv, TypeOK, Walks, Stages, Removals, Rows, Finality, PublishedOnce,
     CandidateSurvives, PublishedAfterFinalization, ParentMark
<1> QED
  BY <1>1, <1>2, <1>3, <1>4, <1>5, <1>6 DEF IInv

LEMMA ParentWriteStep ==
    ASSUME IInv, NEW g \in Gen, ParentWrite(g)
    PROVE  IInv'
<1>1. TypeOK'
  BY DEF IInv, TypeOK, Walks, ParentWrite
<1>2. Walks' /\ Mains' /\ Rows'
  BY <1>1 DEF IInv, TypeOK, Walks, Mains, Rows, Stages, ParentWrite
<1>3. Stages'
  BY <1>1 DEF IInv, TypeOK, Stages, Walks, Removals, Mains, Live, ParentWrite
<1>4. Removals'
  BY <1>1 DEF IInv, TypeOK, Walks, Stages, Mains, Removals, Live, ParentWrite
<1>5. Finality'
  BY <1>1 DEF IInv, TypeOK, Walks, Stages, Removals, Finality,
     PublishedAfterFinalization, ParentWrite
<1>6. PublishedOnce' /\ CandidateSurvives' /\ PublishedAfterFinalization'
  BY <1>1 DEF IInv, TypeOK, Walks, Stages, Removals, Rows, Finality, PublishedOnce,
     CandidateSurvives, PublishedAfterFinalization, ParentWrite
<1> QED
  BY <1>1, <1>2, <1>3, <1>4, <1>5, <1>6 DEF IInv

LEMMA ParentRemoveStep ==
    ASSUME IInv, NEW g \in Gen, ParentRemove(g)
    PROVE  IInv'
<1>1. TypeOK'
  BY DEF IInv, TypeOK, Walks, ParentRemove
<1>2. Walks' /\ Mains' /\ Rows'
  BY <1>1 DEF IInv, TypeOK, Walks, Mains, Rows, Stages, ParentRemove
<1>3. Stages'
  BY <1>1 DEF IInv, TypeOK, Stages, Walks, Removals, Mains, Live, ParentRemove
<1>4. Removals'
  BY <1>1 DEF IInv, TypeOK, Walks, Stages, Mains, Removals, Live, ParentRemove
<1>5. Finality'
  BY <1>1 DEF IInv, TypeOK, Walks, Stages, Removals, Finality,
     PublishedAfterFinalization, ParentRemove
<1>6. PublishedOnce' /\ CandidateSurvives' /\ PublishedAfterFinalization'
  BY <1>1 DEF IInv, TypeOK, Walks, Stages, Removals, Rows, Finality, PublishedOnce,
     CandidateSurvives, PublishedAfterFinalization, ParentRemove
<1> QED
  BY <1>1, <1>2, <1>3, <1>4, <1>5, <1>6 DEF IInv

LEMMA ParentUnlinkStep ==
    ASSUME IInv, NEW g \in Gen, ParentUnlink(g)
    PROVE  IInv'
<1>1. TypeOK'
  BY DEF IInv, TypeOK, Walks, ParentUnlink
<1>2. Walks' /\ Mains' /\ Rows'
  BY <1>1 DEF IInv, TypeOK, Walks, Mains, Rows, Stages, ParentUnlink
<1>3. Stages'
  BY <1>1 DEF IInv, TypeOK, Stages, Walks, Removals, Mains, Live, ParentUnlink
<1>4. Removals'
  BY <1>1 DEF IInv, TypeOK, Walks, Stages, Mains, Removals, Live, ParentUnlink
<1>5. Finality'
  BY <1>1 DEF IInv, TypeOK, Walks, Stages, Removals, Finality,
     PublishedAfterFinalization, ParentUnlink
<1>6. PublishedOnce' /\ CandidateSurvives' /\ PublishedAfterFinalization'
  BY <1>1 DEF IInv, TypeOK, Walks, Stages, Removals, Rows, Finality, PublishedOnce,
     CandidateSurvives, PublishedAfterFinalization, ParentUnlink
<1> QED
  BY <1>1, <1>2, <1>3, <1>4, <1>5, <1>6 DEF IInv

LEMMA FinalizeStep ==
    ASSUME IInv, NEW g \in Gen, Finalize(g)
    PROVE  IInv'
<1>1. TypeOK'
  <2>1. CASE g \in Keep /\ Owned(g, "kept") /\ Then(g)
    <3>1. WalkTyped'
      BY <2>1 DEF IInv, TypeOK, WalkTyped, Then
    <3>2. pc' \in [Gen -> {"publish", "plain", "failed"} \cup {pc[h] : h \in Gen}]
      BY <2>1 DEF IInv, TypeOK, Then
    <3> QED
      BY <2>1, <3>1, <3>2 DEF IInv, TypeOK, WalkTyped, Finalize, Then
  <2>2. CASE ~(g \in Keep /\ Owned(g, "kept") /\ Then(g))
    BY <2>2 DEF IInv, TypeOK, Finalize
  <2> QED
    BY <2>1, <2>2
<1>2. Walks'
  BY <1>1, SMTT(20) DEF IInv, TypeOK, Walks, Stages, Finalize, Then
<1>3. Mains'
  BY <1>1, SMTT(20) DEF IInv, TypeOK, Mains, Walks, Finalize, Then
<1>4. Rows'
  BY <1>1, SMTT(20) DEF IInv, TypeOK, Rows, Walks, Finalize, Then
<1>5. Stages'
  BY <1>1 DEF IInv, TypeOK, Stages, Walks, Removals, Mains, Live, Finalize, Then
<1>6. Removals'
  <2>1. \A h \in Gen : ~Live(h) => ~Live(h)' /\ owner'[h] = owner[h]
    BY DEF IInv, TypeOK, Live, Finalize, Then
  <2>2. \A q \in Proc : at'[q] \in {"remove", "unlink"} => at'[q] = at[q]
    BY DEF IInv, TypeOK, Finalize, Then
  <2>3. item' = item /\ UNCHANGED <<container, candidate, parent>>
    BY DEF Finalize, Then
  <2> QED
    BY <2>1, <2>2, <2>3 DEF IInv, Walks, Removals
<1>7. Finality'
  BY <1>1 DEF IInv, TypeOK, Walks, Stages, Removals, Finality,
     PublishedAfterFinalization, Finalize, Then
<1>8. PublishedOnce' /\ CandidateSurvives' /\ PublishedAfterFinalization'
  BY <1>1 DEF IInv, TypeOK, Walks, Stages, Removals, Rows, Finality, PublishedOnce,
     CandidateSurvives, PublishedAfterFinalization, Finalize, Then
<1> QED
  BY <1>1, <1>2, <1>3, <1>4, <1>5, <1>6, <1>7, <1>8 DEF IInv

LEMMA UnlinkStep ==
    ASSUME IInv, NEW g \in Gen, Unlink(g)
    PROVE  IInv'
<1>1. TypeOK'
  BY DEF IInv, TypeOK, Walks, Unlink, Then
<1>2. Walks' /\ Mains' /\ Rows'
  BY <1>1 DEF IInv, TypeOK, Walks, Mains, Rows, Stages, Unlink, Then
<1>3. Stages'
  BY <1>1 DEF IInv, TypeOK, Stages, Walks, Removals, Mains, Live, Unlink, Then
<1>4. Removals'
  BY <1>1 DEF IInv, TypeOK, Walks, Stages, Mains, Removals, Live, Unlink, Then
<1>5. Finality'
  BY <1>1 DEF IInv, TypeOK, Walks, Stages, Removals, Finality,
     PublishedAfterFinalization, Unlink, Then
<1>6. PublishedOnce' /\ CandidateSurvives' /\ PublishedAfterFinalization'
  BY <1>1 DEF IInv, TypeOK, Walks, Stages, Removals, Rows, Finality, PublishedOnce,
     CandidateSurvives, PublishedAfterFinalization, Unlink, Then
<1> QED
  BY <1>1, <1>2, <1>3, <1>4, <1>5, <1>6 DEF IInv

LEMMA PhaseOverStep ==
    ASSUME IInv, NEW p \in Proc, PhaseOver(p)
    PROVE  IInv'
<1>1. TypeOK'
  BY DEF IInv, TypeOK, Walks, PhaseOver, Leave, Unlocked, Records
<1>2. Walks' /\ Mains' /\ Rows'
  BY <1>1 DEF IInv, TypeOK, Walks, Mains, Rows, Stages, PhaseOver, Leave, Unlocked,
     Records
<1>3. Stages'
  <2>1. \/ pc' = pc
        \/ /\ p \in Gen /\ pc[p] = "recover"
           /\ pc' = [pc EXCEPT ![p] = "create"] \/ pc' = [pc EXCEPT ![p] = "failed"]
    BY DEF IInv, Mains, PhaseOver
  <2> QED
    BY <2>1 DEF IInv, TypeOK, Stages, PhaseOver
<1>4. Removals'
  BY <1>1 DEF IInv, TypeOK, Walks, Stages, Mains, Removals, Live, PhaseOver, Leave,
     Unlocked, Records
<1>5. Finality'
  BY <1>1 DEF IInv, TypeOK, Walks, Stages, Removals, Finality,
     PublishedAfterFinalization, PhaseOver, Leave, Unlocked, Records
<1>6. PublishedOnce' /\ CandidateSurvives' /\ PublishedAfterFinalization'
  BY <1>1 DEF IInv, TypeOK, Walks, Stages, Removals, Rows, Finality, PublishedOnce,
     CandidateSurvives, PublishedAfterFinalization, PhaseOver, Leave, Unlocked, Records
<1> QED
  BY <1>1, <1>2, <1>3, <1>4, <1>5, <1>6 DEF IInv

LEMMA PromoteReadStep ==
    ASSUME IInv, NEW p \in Proc, PromoteRead(p)
    PROVE  IInv'
<1>1. TypeOK'
  BY DEF IInv, TypeOK, Walks, PromoteRead, Leave, Unlocked, Records
<1>2. Walks'
  BY <1>1 DEF IInv, TypeOK, Walks, Stages, PromoteRead, Leave, Unlocked, Records
<1>3. Mains'
  BY <1>1 DEF IInv, TypeOK, Mains, Walks, PromoteRead, Leave, Unlocked, Records
<1>4. Rows'
  <2>1. /\ at'[p] \in {"promote", "compare"}
        /\ \A q \in Proc \ {p} : at'[q] = at[q] /\ item'[q] = item[q]
    BY DEF IInv, TypeOK, PromoteRead, Leave
  <2> QED
    BY <2>1 DEF IInv, Rows, PromoteRead
<1>5. Stages'
  BY <1>1 DEF IInv, TypeOK, Stages, Walks, Removals, Mains, Live, PromoteRead, Leave,
     Unlocked, Records
<1>6. Removals'
  BY <1>1 DEF IInv, TypeOK, Walks, Stages, Mains, Removals, Live, PromoteRead, Leave,
     Unlocked, Records
<1>7. Finality'
  BY <1>1, SMTT(20) DEF IInv, TypeOK, Finality, Walks, Stages, Removals,
     PublishedAfterFinalization, PromoteRead, Leave, Unlocked, Records
<1>8. PublishedOnce' /\ CandidateSurvives' /\ PublishedAfterFinalization'
  BY <1>1 DEF IInv, TypeOK, Walks, Stages, Removals, Rows, Finality, PublishedOnce,
     CandidateSurvives, PublishedAfterFinalization, PromoteRead, Leave, Unlocked, Records
<1> QED
  BY <1>1, <1>2, <1>3, <1>4, <1>5, <1>6, <1>7, <1>8 DEF IInv

LEMMA PromoteSwapStep ==
    ASSUME IInv, NEW p \in Proc, PromoteSwap(p)
    PROVE  IInv'
<1>1. TypeOK'
  BY DEF IInv, TypeOK, Walks, PromoteSwap, Leave, Unlocked, Records
<1>2. Walks' /\ Mains' /\ Rows'
  BY <1>1 DEF IInv, TypeOK, Walks, Mains, Rows, Stages, PromoteSwap, Leave, Unlocked,
     Records
<1>3. Stages'
  BY <1>1, SMTT(20) DEF IInv, TypeOK, Stages, Walks, Finality, PromoteSwap, Leave,
     Unlocked, Records
<1>4. Removals'
  BY <1>1 DEF IInv, TypeOK, Walks, Stages, Mains, Removals, Live, PromoteSwap, Leave,
     Unlocked, Records
<1>5. Finality'
  BY <1>1 DEF IInv, TypeOK, Walks, Stages, Removals, Finality,
     PublishedAfterFinalization, PromoteSwap, Leave, Unlocked, Records
<1>6. PublishedOnce' /\ CandidateSurvives' /\ PublishedAfterFinalization'
  BY <1>1 DEF IInv, TypeOK, Walks, Stages, Removals, Rows, Finality, PublishedOnce,
     CandidateSurvives, PublishedAfterFinalization, PromoteSwap, Leave, Unlocked, Records
<1> QED
  BY <1>1, <1>2, <1>3, <1>4, <1>5, <1>6 DEF IInv

LEMMA StaleRemoveStep ==
    ASSUME IInv, NEW p \in Proc, StaleRemove(p)
    PROVE  IInv'
<1>1. TypeOK'
  BY DEF IInv, TypeOK, Walks, StaleRemove, Leave, Unlocked, Records
<1>2. Walks' /\ Mains' /\ Rows'
  BY <1>1 DEF IInv, TypeOK, Walks, Mains, Rows, Stages, StaleRemove, Leave, Unlocked,
     Records
<1>3. Stages'
  BY <1>1 DEF IInv, TypeOK, Stages, Walks, Removals, Mains, Live, StaleRemove, Leave,
     Unlocked, Records
<1>4. Removals'
  BY <1>1 DEF IInv, TypeOK, Walks, Stages, Mains, Removals, Live, StaleRemove, Leave,
     Unlocked, Records
<1>5. Finality'
  BY <1>1 DEF IInv, TypeOK, Walks, Stages, Removals, Finality,
     PublishedAfterFinalization, StaleRemove, Leave, Unlocked, Records
<1>6. PublishedOnce' /\ CandidateSurvives' /\ PublishedAfterFinalization'
  BY <1>1 DEF IInv, TypeOK, Walks, Stages, Removals, Rows, Finality, PublishedOnce,
     CandidateSurvives, PublishedAfterFinalization, StaleRemove, Leave, Unlocked, Records
<1> QED
  BY <1>1, <1>2, <1>3, <1>4, <1>5, <1>6 DEF IInv

LEMMA StaleUnlinkStep ==
    ASSUME IInv, NEW p \in Proc, StaleUnlink(p)
    PROVE  IInv'
<1>1. TypeOK'
  BY DEF IInv, TypeOK, Walks, StaleUnlink, Leave, Unlocked, Records
<1>2. Walks' /\ Mains' /\ Rows'
  BY <1>1 DEF IInv, TypeOK, Walks, Mains, Rows, Stages, StaleUnlink, Leave, Unlocked,
     Records
<1>3. Stages'
  BY <1>1 DEF IInv, TypeOK, Stages, Walks, Removals, Mains, Live, StaleUnlink, Leave,
     Unlocked, Records
<1>4. Removals'
  BY <1>1 DEF IInv, TypeOK, Walks, Stages, Mains, Removals, Live, StaleUnlink, Leave,
     Unlocked, Records
<1>5. Finality'
  BY <1>1 DEF IInv, TypeOK, Walks, Stages, Removals, Finality,
     PublishedAfterFinalization, StaleUnlink, Leave, Unlocked, Records
<1>6. PublishedOnce' /\ CandidateSurvives' /\ PublishedAfterFinalization'
  BY <1>1 DEF IInv, TypeOK, Walks, Stages, Removals, Rows, Finality, PublishedOnce,
     CandidateSurvives, PublishedAfterFinalization, StaleUnlink, Leave, Unlocked, Records
<1> QED
  BY <1>1, <1>2, <1>3, <1>4, <1>5, <1>6 DEF IInv

LEMMA PublishPredictionStep ==
    ASSUME IInv, NEW p \in Proc, PublishPrediction(p)
    PROVE  IInv'
<1>1. TypeOK'
  BY DEF IInv, TypeOK, Walks, PublishPrediction, AppendOnce
<1>2. Walks' /\ Mains' /\ Rows'
  BY <1>1 DEF IInv, TypeOK, Walks, Mains, Rows, Stages, PublishPrediction, AppendOnce
<1>3. Stages'
  BY <1>1 DEF IInv, TypeOK, Stages, Walks, Removals, Mains, Live, PublishPrediction,
     AppendOnce
<1>4. Removals'
  BY <1>1 DEF IInv, TypeOK, Walks, Stages, Mains, Removals, Live, PublishPrediction,
     AppendOnce
<1>5. Finality'
  BY <1>1 DEF IInv, TypeOK, Walks, Stages, Removals, Finality,
     PublishedAfterFinalization, PublishPrediction, AppendOnce
<1>6. PublishedOnce' /\ CandidateSurvives' /\ PublishedAfterFinalization'
  BY <1>1 DEF IInv, TypeOK, Walks, Stages, Removals, Rows, Finality, PublishedOnce,
     CandidateSurvives, PublishedAfterFinalization, PublishPrediction, AppendOnce
<1> QED
  BY <1>1, <1>2, <1>3, <1>4, <1>5, <1>6 DEF IInv

LEMMA PublishMetricStep ==
    ASSUME IInv, NEW p \in Proc, PublishMetric(p)
    PROVE  IInv'
<1>1. TypeOK'
  BY DEF IInv, TypeOK, Walks, PublishMetric, AppendOnce
<1>2. Walks' /\ Mains' /\ Rows'
  BY <1>1 DEF IInv, TypeOK, Walks, Mains, Rows, Stages, PublishMetric, AppendOnce
<1>3. Stages'
  BY <1>1 DEF IInv, TypeOK, Stages, Walks, Removals, Mains, Live, PublishMetric,
     AppendOnce
<1>4. Removals'
  BY <1>1 DEF IInv, TypeOK, Walks, Stages, Mains, Removals, Live, PublishMetric,
     AppendOnce
<1>5. Finality'
  BY <1>1 DEF IInv, TypeOK, Walks, Stages, Removals, Finality,
     PublishedAfterFinalization, PublishMetric, AppendOnce
<1>6. PublishedOnce' /\ CandidateSurvives' /\ PublishedAfterFinalization'
  BY <1>1 DEF IInv, TypeOK, Walks, Stages, Removals, Rows, Finality, PublishedOnce,
     CandidateSurvives, PublishedAfterFinalization, PublishMetric, AppendOnce
<1> QED
  BY <1>1, <1>2, <1>3, <1>4, <1>5, <1>6 DEF IInv

-----------------------------------------------------------------------------
(* Those that branch, end a walk, or write a row.                          *)

LEMMA PromoteCompareStep ==
    ASSUME IInv, NEW p \in Proc, PromoteCompare(p)
    PROVE  IInv'
<1>1. TypeOK'
  BY PromoteCompareTyped DEF IInv
<1> DEFINE g == item[p]
<1>a. g \in Gen
  BY DEF IInv, Walks, PromoteCompare
<1>b. CASE pending[g] /\ owner[g] = "preserving"
  <2>0. /\ at' = [at EXCEPT ![p] = "swap"] /\ lock' = [lock EXCEPT ![g] = p]
        /\ lock[g] = None
        /\ UNCHANGED <<main, disk, pending, output, parent, faults, todo, item, clean>>
    BY <1>b DEF PromoteCompare
  <2>1. Walks'
    BY <1>1, <1>a, <1>b, <2>0 DEF IInv, TypeOK, Walks
  <2>2. Stages' /\ PublishedOnce' /\ CandidateSurvives' /\ PublishedAfterFinalization'
    BY <2>0 DEF IInv, Stages, PublishedOnce, CandidateSurvives, PublishedAfterFinalization
  <2>3. Mains' /\ Removals' /\ Rows'
    BY <1>a, <2>0 DEF IInv, TypeOK, Mains, Removals, Rows, PromoteCompare, Live
  <2>4. Finality'
    BY <1>a, <1>b, <2>0 DEF IInv, TypeOK, Stages, Finality, PublishedAfterFinalization
  <2> QED
    BY <1>1, <2>1, <2>2, <2>3, <2>4 DEF IInv
<1>c. CASE ~(pending[g] /\ owner[g] = "preserving")
  <2>0. /\ at' = [at EXCEPT ![p] = "promote"] /\ item' = [item EXCEPT ![p] = None]
        /\ \A q \in Proc \ {p} : todo'[q] = todo[q]
        /\ UNCHANGED <<main, disk, pending, lock, output, parent, faults>>
    BY <1>c DEF IInv, TypeOK, PromoteCompare, Leave
  <2>1. Walks' /\ Mains'
    BY <1>1, <2>0 DEF IInv, TypeOK, Walks, Mains, PromoteCompare
  <2>2. Stages' /\ PublishedOnce' /\ CandidateSurvives' /\ PublishedAfterFinalization'
    BY <2>0 DEF IInv, Stages, PublishedOnce, CandidateSurvives, PublishedAfterFinalization
  <2>3. Removals' /\ Rows' /\ Finality'
    BY <2>0 DEF IInv, TypeOK, Removals, Rows, Finality, Live
  <2> QED
    BY <1>1, <2>1, <2>2, <2>3 DEF IInv
<1> QED
  BY <1>b, <1>c

LEMMA StaleReadStep ==
    ASSUME IInv, NEW p \in Proc, StaleRead(p)
    PROVE  IInv'
<1>1. TypeOK'
  BY StaleReadTyped DEF IInv
<1>a. PICK g \in todo[p] :
          CASE owner[g] = "preserving" -> Leave(p, g, "stale", FALSE)
            [] owner[g] \in {"none", "kept"} \/ Live(g) -> Leave(p, g, "stale", TRUE)
            [] OTHER -> Takes(p, g, "remove")
  BY DEF StaleRead
<1>b. g \in Gen
  BY DEF IInv, TypeOK
<1>c. \/ at'[p] = "stale"
      \/ at'[p] = "remove" /\ item'[p] = g /\ ~Live(g) /\ owner[g] # "kept"
  BY <1>a DEF IInv, TypeOK, Leave
<1>d. \A q \in Proc \ {p} : at'[q] = at[q] /\ item'[q] = item[q] /\ todo'[q] = todo[q]
  BY <1>a DEF IInv, TypeOK, Leave
<1>e. at[p] = "stale" /\ UNCHANGED <<main, disk, pending, lock, output, parent, faults>>
  BY DEF StaleRead
<1>2. Walks'
  BY <1>b, <1>c, <1>d, <1>e DEF IInv, Walks
<1>6. Mains'
  <2>1. \A h \in Gen :
            \/ at'[h] = at[h] /\ todo'[h] = todo[h]
            \/ at[h] # "off" /\ pc[h] # "publish"
    BY <1>d, <1>e DEF IInv, Mains
  <2> QED
    BY <1>e, <2>1 DEF IInv, Mains
<1>3. Stages' /\ PublishedOnce' /\ CandidateSurvives' /\ PublishedAfterFinalization'
  BY <1>e DEF IInv, Stages, PublishedOnce, CandidateSurvives, PublishedAfterFinalization
<1>4. Removals'
  BY <1>b, <1>c, <1>d, <1>e DEF IInv, Stages, Removals, Live
<1>5. Rows' /\ Finality'
  BY <1>c, <1>d, <1>e DEF IInv, Rows, Finality
<1> QED
  BY <1>1, <1>2, <1>3, <1>4, <1>5, <1>6 DEF IInv

LEMMA PublishLockStep ==
    ASSUME IInv, NEW p \in Proc, PublishLock(p)
    PROVE  IInv'
<1>a. PICK g \in todo[p] :
          /\ pending[g] => lock[g] = None
          /\ IF pending[g] /\ Finalized(g)
             THEN /\ lock' = [lock EXCEPT ![g] = p]
                  /\ Takes(p, g, "prediction")
                  /\ UNCHANGED pc
             ELSE /\ Returns(p, g, "missing or deferred")
                  /\ UNCHANGED lock
  BY DEF PublishLock
<1>b. /\ g \in Gen /\ at[p] = "publish"
      /\ UNCHANGED <<aim, disk, pending, output, parent, faults>>
  BY DEF IInv, TypeOK, PublishLock
<1>1. CASE pending[g] /\ Finalized(g)
  <2>0. /\ at' = [at EXCEPT ![p] = "prediction"] /\ item' = [item EXCEPT ![p] = g]
        /\ lock' = [lock EXCEPT ![g] = p] /\ lock[g] = None
        /\ UNCHANGED <<pc, todo, clean>>
    BY <1>a, <1>1
  <2>1. TypeOK'
    BY <1>b, <2>0 DEF IInv, TypeOK
  <2>2. Walks' /\ Mains'
    BY <1>1, <1>b, <2>0, <2>1 DEF IInv, TypeOK, Walks, Mains
  <2>3. Stages' /\ PublishedOnce' /\ CandidateSurvives' /\ PublishedAfterFinalization'
    BY <1>b, <2>0 DEF IInv, Stages, PublishedOnce, CandidateSurvives,
       PublishedAfterFinalization
  <2>4. Removals' /\ Rows'
    BY <1>b, <2>0 DEF IInv, TypeOK, Removals, Rows, Live
  <2>5. Finality'
    BY <1>1, <1>b, <2>0 DEF IInv, TypeOK, Stages, Finality, Finalized
  <2> QED
    BY <2>1, <2>2, <2>3, <2>4, <2>5 DEF IInv
<1>2. CASE ~(pending[g] /\ Finalized(g))
  <2>1. Returns(p, g, "missing or deferred") /\ lock' = lock
    BY <1>a, <1>2
  <2>2. TypeOK'
    <3>1. WalkTyped
      BY TypeIsTyped DEF IInv
    <3>2. /\ WalkTyped'
          /\ \/ pc' = pc
             \/ /\ p \in Gen
                /\ \E where \in {"done", "failed"} : pc' = [pc EXCEPT ![p] = where]
      BY <2>1, <3>1, ReturnsTyped
    <3>0. lock' = lock
      BY <2>1
    <3>3. CASE pc' = pc
      BY <1>b, <3>0, <3>2, <3>3 DEF IInv, TypeOK, WalkTyped
    <3>4. CASE p \in Gen /\ \E where \in {"done", "failed"} : pc' = [pc EXCEPT ![p] = where]
      BY <1>b, <3>0, <3>2, <3>4 DEF IInv, TypeOK, WalkTyped
    <3> QED
      BY <3>2, <3>3, <3>4
  <2>3. Ends
    BY <1>b, <2>1 DEF IInv, TypeOK, Mains, Stages, Ends, Returns, Leave
  <2> QED
    BY <1>b, <2>2, <2>3, EndingStep DEF Writes
<1> QED
  BY <1>1, <1>2

LEMMA PublishRaisesStep ==
    ASSUME IInv, NEW p \in Proc, PublishRaises(p)
    PROVE  IInv'
<1>1. TypeOK'
  BY PublishRaisesTyped DEF IInv
<1>2. at[p] \in File /\ Returns(p, item[p], "raised") /\ Unlocked(p)
  BY DEF PublishRaises, IInv, TypeOK
<1>3. Ends
  BY <1>1, <1>2 DEF IInv, TypeOK, Mains, Stages, Ends, Returns, Leave, Unlocked,
     PublishRaises
<1> QED
  BY <1>1, <1>3, EndingStep DEF Writes, PublishRaises

LEMMA PublishDropStep ==
    ASSUME IInv, NEW p \in Proc, PublishDrop(p)
    PROVE  IInv'
<1> DEFINE g == item[p]
<1>a. /\ g \in Gen /\ at[p] = "drop" /\ lock[g] = p
      /\ pending' = [pending EXCEPT ![g] = FALSE]
      /\ Returns(p, g, "published") /\ Unlocked(p)
      /\ UNCHANGED <<aim, disk, output, parent, faults>>
  BY DEF IInv, Walks, PublishDrop
<1>b. /\ at'[p] \in {"off", "publish"}
      /\ \A q \in Proc \ {p} : at'[q] = at[q] /\ item'[q] = item[q] /\ todo'[q] = todo[q]
  BY <1>a DEF IInv, TypeOK, Returns, Leave
<1>c. \/ pc' = pc /\ ~(p \in Gen /\ pc[p] = "publish")
      \/ /\ p \in Gen /\ pc[p] = "publish" /\ at'[p] = "off"
         /\ pc' = [pc EXCEPT ![p] = "done"]
  BY <1>a DEF IInv, TypeOK, Returns, Leave
<1>d. \A q \in Proc \ {p} : at[q] \in Holding => item[q] # g
  BY <1>a DEF IInv, Walks
<1>e. \A h \in Gen : lock[h] # p => lock'[h] = lock[h]
  BY <1>a DEF IInv, TypeOK, Unlocked
<1>1. TypeOK'
  <2>1. WalkTyped
    BY TypeIsTyped DEF IInv
  <2>2. /\ WalkTyped'
        /\ \/ pc' = pc
           \/ /\ p \in Gen
              /\ \E where \in {"done", "failed"} : pc' = [pc EXCEPT ![p] = where]
    BY <1>a, <2>1, ReturnsTyped
  <2>3. lock' \in [Gen -> Proc \cup {None}] /\ pending' \in [Gen -> BOOLEAN]
    BY <1>a DEF IInv, TypeOK, Unlocked
  <2>4. CASE pc' = pc
    BY <1>a, <2>2, <2>3, <2>4 DEF IInv, TypeOK, WalkTyped
  <2>5. CASE p \in Gen /\ \E where \in {"done", "failed"} : pc' = [pc EXCEPT ![p] = where]
    BY <1>a, <2>2, <2>3, <2>5 DEF IInv, TypeOK, WalkTyped
  <2> QED
    BY <2>2, <2>4, <2>5
<1>2. Walks'
  BY <1>1, <1>a, <1>b, <1>d, <1>e DEF IInv, TypeOK, Walks
<1>3. Stages'
  <2>1. pc[g] \notin {"preserve", "confirm"}
    BY <1>a DEF IInv, Stages, Finality
  <2> QED
    BY <2>1, <1>a, <1>c DEF IInv, TypeOK, Stages
<1>4. Mains'
  BY <1>1, <1>a, <1>b, <1>c DEF IInv, TypeOK, Mains
<1>f. \A h \in Gen :
          \/ pc'[h] = pc[h]
          \/ pc[h] = "publish" /\ pc'[h] = "done"
  BY <1>c DEF IInv, TypeOK
<1>5. Removals'
  <2>1. \A h \in Gen : ~Live(h) => ~Live(h)'
    BY <1>f DEF Live
  <2> QED
    BY <1>a, <1>b, <2>1 DEF IInv, Walks, Removals
<1>6. Rows' /\ Finality'
  BY <1>a, <1>b, <1>f DEF IInv, Walks, Rows, Finality
<1>7. PublishedOnce' /\ CandidateSurvives' /\ PublishedAfterFinalization'
  BY <1>a DEF IInv, TypeOK, Rows, PublishedOnce, CandidateSurvives,
     PublishedAfterFinalization
<1> QED
  BY <1>1, <1>2, <1>3, <1>4, <1>5, <1>6, <1>7 DEF IInv

LEMMA StepFailsStep ==
    ASSUME IInv, NEW p \in Proc, StepFails(p)
    PROVE  IInv'
<1>a. TypeOK'
  BY StepFailsTyped DEF IInv
<1>b. PICK g \in todo[p] :
          /\ item[p] \in {g, None}
          /\ \/ /\ \E phase \in {"promote", "stale"}, ok \in BOOLEAN : Leave(p, g, phase, ok)
                /\ at[p] \in {"compare", "swap", "remove", "unlink"}
                /\ UNCHANGED <<pc, output>>
             \/ /\ at[p] \in {"publish", "prediction", "metric", "drop"}
                /\ Returns(p, g, "raised")
                /\ \/ UNCHANGED output
                   \/ at[p] \in File /\ Tear(at[p], g)
  <2>1. Superseded(item[p]) \in BOOLEAN /\ \A g \in Gen : Superseded(g) \in BOOLEAN
    BY DEF Superseded
  <2>2. PICK g \in todo[p] :
          /\ item[p] \in {g, None}
          /\ \/ /\ at[p] \in {"compare", "swap"}
                /\ Leave(p, g, "promote", Superseded(g))
                /\ UNCHANGED <<pc, output>>
             \/ /\ at[p] \in {"remove", "unlink"}
                /\ Leave(p, g, "stale", FALSE)
                /\ UNCHANGED <<pc, output>>
             \/ /\ at[p] \in {"publish", "prediction", "metric", "drop"}
                /\ Returns(p, g, "raised")
                /\ \/ UNCHANGED output
                   \/ at[p] \in File /\ Tear(at[p], g)
    BY DEF StepFails
  <2>3. g \in Gen
    BY DEF IInv, TypeOK
  <2> QED
    BY <2>1, <2>2, <2>3
<1>c. g \in Gen /\ Unlocked(p) /\ UNCHANGED <<aim, disk, pending, parent>>
  BY DEF IInv, TypeOK, StepFails
<1>1. Ends
  <2>1. at[p] # "off" /\ at'[p] \notin Busy
    BY <1>b DEF IInv, TypeOK, Returns, Leave
  <2>2. \A q \in Proc \ {p} : at'[q] = at[q] /\ item'[q] = item[q] /\ todo'[q] = todo[q]
    BY <1>b DEF IInv, TypeOK, Returns, Leave
  <2>3. \/ pc' = pc /\ ~(p \in Gen /\ pc[p] = "publish")
        \/ /\ p \in Gen /\ pc[p] = "publish" /\ at'[p] = "off"
           /\ pc' = [pc EXCEPT ![p] = "failed"]
    BY <1>b DEF IInv, TypeOK, Mains, Returns, Leave
  <2>4. \A h \in Gen : lock[h] # p => lock'[h] = lock[h]
    BY <1>c DEF IInv, TypeOK, Unlocked
  <2> QED
    BY <1>c, <2>1, <2>2, <2>3, <2>4 DEF IInv, TypeOK, Stages, Mains, Ends
<1>2. Writes
  <2>1. CASE rows' = rows
    BY <2>1 DEF Writes
  <2>2. CASE at[p] \in File /\ Tear(at[p], g)
    <3>1. item[p] = g
      BY <1>b, <2>2 DEF IInv, Walks
    <3> QED
      BY <1>c, <2>2, <3>1, PublishingMayWrite DEF Writes, Tear
  <2> QED
    BY <1>b, <2>1, <2>2
<1> QED
  BY <1>a, <1>1, <1>2, EndingStep

LEMMA KillStep ==
    ASSUME IInv, NEW g \in Gen, Kill(g)
    PROVE  IInv'
<1>a. TypeOK'
  BY KillTyped DEF IInv
<1>1. Ends
  <2>1. \A h \in Gen : lock[h] # g => lock'[h] = lock[h]
    BY DEF IInv, TypeOK, Kill, Unlocked
  <2> QED
    BY <1>a, <2>1 DEF IInv, TypeOK, Ends, Kill
<1>2. Writes
  <2>1. CASE at[g] \in File /\ Tear(at[g], item[g])
    BY <2>1, PublishingMayWrite DEF Writes, Tear
  <2>2. CASE pc[g] \in DOMAIN PlainFile /\ Tear(PlainFile[pc[g]], g)
    <3>1. pc[g] \in {"plain", "metric"}
      BY <2>2 DEF PlainFile
    <3> QED
      BY <2>2, <3>1, PlainMayWrite DEF Writes, Tear
  <2>3. CASE rows' = rows
    BY <2>3 DEF Writes
  <2> QED
    BY <2>1, <2>2, <2>3 DEF Kill
<1> QED
  BY <1>a, <1>1, <1>2, EndingStep

LEMMA PlainFailsStep ==
    ASSUME IInv, NEW g \in Gen, PlainFails(g)
    PROVE  IInv'
<1>a. TypeOK'
  BY PlainFailsTyped DEF IInv
<1>1. Ends
  BY <1>a DEF IInv, TypeOK, Stages, Mains, Ends, PlainFails
<1>2. Writes
  BY PlainMayWrite DEF Writes, PlainFails, Tear
<1> QED
  BY <1>a, <1>1, <1>2, EndingStep

LEMMA ProjectStep ==
    ASSUME IInv, NEW g \in Gen, Project(g)
    PROVE  IInv'
<1>a. TypeOK'
  BY ProjectTyped DEF IInv
<1>1. Ends
  BY DEF Ends, Project
<1>2. Writes
  BY DEF IInv, TypeOK, Writes, MayWrite, Project, AppendPlain
<1> QED
  BY <1>a, <1>1, <1>2, EndingStep

LEMMA PlainStep ==
    ASSUME IInv, NEW g \in Gen, Plain(g)
    PROVE  IInv'
<1>a. TypeOK'
  BY PlainTyped DEF IInv
<1> DEFINE f == PlainFile[pc[g]]
<1>b. /\ pc[g] \in {"plain", "metric"} /\ f \in File /\ MayWrite(f, g)
      /\ pc' = [pc EXCEPT ![g] = IF pc[g] = "plain" THEN "metric" ELSE "done"]
      /\ UNCHANGED <<aim, disk, pending, lock, walk, parent, faults>>
  BY PlainMayWrite DEF Plain
<1>c. /\ rows'[f][g] > 0
      /\ \A e \in File, h \in Gen :
            rows'[e][h] = IF e = f /\ h = g /\ rows[f][g] = 0 THEN 1 ELSE rows[e][h]
  BY <1>b DEF IInv, TypeOK, Plain, AppendPlain
<1>d. \A e \in File, h \in Gen : rows[e][h] \in Nat
  BY DEF IInv, TypeOK
<1>1. Walks' /\ Mains'
  BY <1>b DEF IInv, TypeOK, Walks, Mains
<1>2. Stages'
  BY <1>b, <1>c, <1>d DEF IInv, TypeOK, Stages
<1>3. Removals'
  BY <1>b DEF IInv, TypeOK, Walks, Removals, Live
<1>4. Rows'
  <2>1. pc[g] = "plain" => f = "prediction"
    BY DEF PlainFile
  <2>2. \A e \in File, h \in Gen : rows[e][h] > 0 => rows'[e][h] > 0
    BY <1>c, <1>d
  <2>3. \A h \in Gen : pc'[h] = "metric" => rows'["prediction"][h] > 0
    BY <1>b, <1>c, <2>1, <2>2 DEF IInv, TypeOK, Rows
  <2> QED
    BY <1>b, <2>2, <2>3 DEF IInv, Walks, Rows
<1>5. Finality'
  <2>1. candidate[g] # "saved" /\ ~pending[g]
    BY <1>b DEF IInv, Stages
  <2>2. \A q \in Proc : at[q] \in Holding => item[q] # g
    BY <2>1 DEF IInv, Walks
  <2>3. \A h \in Gen \ {g} : rows'["prediction"][h] = rows["prediction"][h]
    BY <1>c
  <2>4. \A q \in Proc : at[q] = "swap" => pc'[item[q]] # "preserve"
    BY <1>b, <2>2 DEF IInv, TypeOK, Walks, Finality
  <2> QED
    BY <1>b, <2>2, <2>3, <2>4 DEF IInv, Walks, Finality
<1>6. PublishedOnce'
  BY <1>b, <1>c, <1>d DEF IInv, PublishedOnce, MayWrite
<1>7. CandidateSurvives'
  BY <1>b, <1>c, <1>d DEF IInv, CandidateSurvives
<1>8. PublishedAfterFinalization'
  BY <1>b, <1>c, <1>d DEF IInv, Stages, PublishedAfterFinalization
<1> QED
  BY <1>a, <1>1, <1>2, <1>3, <1>4, <1>5, <1>6, <1>7, <1>8 DEF IInv

LEMMA StartLaterStep ==
    ASSUME IInv, StartLater
    PROVE  IInv'
<1>a. /\ at' = [at EXCEPT ![Later] = "promote"] /\ todo' = [todo EXCEPT ![Later] = Records]
      /\ clean' = [clean EXCEPT ![Later] = TRUE]
      /\ UNCHANGED <<main, disk, pending, lock, output, item, parent, faults>>
  BY DEF StartLater, Begin
<1>1. TypeOK'
  BY <1>a DEF IInv, TypeOK, Records
<1>2. Walks' /\ Mains'
  BY <1>a DEF IInv, TypeOK, Walks, Mains
<1>3. Stages' /\ PublishedOnce' /\ CandidateSurvives' /\ PublishedAfterFinalization'
  BY <1>a DEF IInv, Stages, PublishedOnce, CandidateSurvives, PublishedAfterFinalization
<1>4. Removals' /\ Rows' /\ Finality'
  BY <1>a DEF IInv, TypeOK, Removals, Rows, Finality, Live
<1> QED
  BY <1>1, <1>2, <1>3, <1>4 DEF IInv

-----------------------------------------------------------------------------
(* The theorems.                                                           *)

LEMMA NextInvariant == IInv /\ [Next]_vars => IInv'
<1> SUFFICES ASSUME IInv, [Next]_vars PROVE IInv'
  OBVIOUS
<1>1. ASSUME NEW g \in Gen, Main(g) PROVE IInv'
  BY <1>1, StartStep, CreateStep, DockerStep, DockerFailsStep, SetupFailsStep,
     ArmStep, ModelEndsStep,
     CompleteStep, EmptyPatchStep, StageStep, PreserveStep, ConfirmStep, StagingFailsStep,
     FinalizeStep, RemoveStep, UnlinkStep, PlainStep, PlainFailsStep DEF Main
<1>2. ASSUME NEW g \in Gen, Batch(g) PROVE IInv'
  BY <1>2, ParentReadStep, ParentMarkStep, ParentWriteStep, ParentRemoveStep,
     ParentUnlinkStep,
     ProjectStep DEF Batch
<1>3. ASSUME NEW p \in Proc, Recovers(p) PROVE IInv'
  BY <1>3, PhaseOverStep, PromoteReadStep, PromoteCompareStep, PromoteSwapStep,
     StaleReadStep,
     StaleRemoveStep, StaleUnlinkStep, PublishLockStep, PublishPredictionStep,
     PublishMetricStep, PublishDropStep, PublishRaisesStep DEF Recovers
<1>4. CASE UNCHANGED vars
  BY <1>4 DEF vars, IInv, TypeOK, Walks, Stages, Mains, Removals, Rows, Finality, Live,
              PublishedOnce, CandidateSurvives, PublishedAfterFinalization
<1> QED
  BY <1>1, <1>2, <1>3, <1>4, KillStep, StepFailsStep, StartLaterStep DEF Next

LEMMA InvariantHolds == Spec => []IInv
BY InitInvariant, NextInvariant, PTL DEF Spec

(* Every variable has its type, for every set of generators.               *)
THEOREM TypeCorrect == Spec => []TypeOK
<1>1. IInv => TypeOK
  BY DEF IInv
<1> QED
  BY <1>1, InvariantHolds, PTL

(* However many generators, recoveries and batches append the rows of one   *)
(* another and wherever they are killed, no candidate is written twice and  *)
(* no metric without its prediction (_append_jsonl_durable_once,            *)
(* append_output_records, recover_metric_projections).                     *)
THEOREM RowsAreUnique == Spec => []PublishedOnce
<1>1. IInv => PublishedOnce
  BY DEF IInv
<1> QED
  BY <1>1, InvariantHolds, PTL

(* A container with the only copy of a candidate is never removed, and a    *)
(* staged candidate stays in its pending file until both rows are out       *)
(* (arm_candidate_retention, recover_stale_container_owners,                *)
(* _unlink_pending_locked).                                                *)
THEOREM NoCandidateIsLost == Spec => []CandidateSurvives
<1>1. IInv => CandidateSurvives
  BY DEF IInv
<1> QED
  BY <1>1, InvariantHolds, PTL

(* No staged candidate is out while its container may still be removed or   *)
(* be at work (_pending_owner_state).                                      *)
THEOREM PublicationIsFinal == Spec => []PublishedAfterFinalization
<1>1. IInv => PublishedAfterFinalization
  BY DEF IInv
<1> QED
  BY <1>1, InvariantHolds, PTL
=============================================================================
