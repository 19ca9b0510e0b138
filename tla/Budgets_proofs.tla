--------------------------- MODULE Budgets_proofs ----------------------------
(***************************************************************************)
(* Theorems about two budgets: the slots of the provider (ProviderLimits,  *)
(* for every finite set of handler threads, every number of slot files,    *)
(* every set of policies and both openers), and what the rejudge queue     *)
(* publishes and counts (RejudgeQueue, for every set of jobs, every        *)
(* parent, every outcome of a launch and every number of lives).  The two  *)
(* share no state; the queue's definitions come second.                    *)
(***************************************************************************)
EXTENDS ProviderLimits, RejudgeQueue, FiniteSetTheorems, TLAPS

-----------------------------------------------------------------------------
(* The inductive invariant.                                                *)

Scanning == {"scan", "snapscan"}

(* TypeOK but for the waiting counters.                                    *)
FilesTyped ==
    /\ policy \in Policies
    /\ pc \in [Request -> Waiting \cup Serving \cup {"idle", "snaplock", "snapscan"}]
    /\ seen \in [Request -> Policies \cup {NoPolicy}]
    /\ lock \in Request \cup {NoRequest}
    /\ cursor \in 1..NumSlots + 1
    /\ active \subseteq Slot
    /\ free \in Slot \cup {NoSlot}
    /\ slot \in [Slot -> Request \cup {NoRequest}]
    /\ meta \in [Slot -> Process \cup {NoProcess}]
    /\ lease \in [Request -> Slot \cup {NoSlot}]
    /\ conn \in [Request -> {"none", "connecting", "open"}]

(* service_waiting is exact.                                               *)
Waiters(p) == {r \in Request : Owner[r] = p /\ pc[r] \in Waiting}

WaitingExact == waiting \in [Process -> Nat] /\ \A p \in Process : waiting[p] = Cardinality(Waiters(p))

(* The flock of allocation.lock belongs to the thread that scans, and the   *)
(* locals of the scan are those of its holder.                             *)
ScanLocked ==
    /\ \A r \in Request : pc[r] \in Scanning <=> lock = r
    /\ lock = NoRequest => cursor = 1 /\ active = {} /\ free = NoSlot

(* The scan is conservative although leases close under it: a lease whose   *)
(* file was already opened is in the count.                                *)
ScanSeesEveryLease ==
    \A r \in Request : lease[r] # NoSlot /\ lease[r] < cursor => lease[r] \in active \/ lock = NoRequest

(* A waiter goes by a policy that was in force.                            *)
SeenUsable ==
    \A r \in Request : pc[r] \in {"lock", "scan"} =>
        seen[r] \in Policies /\ seen[r].valid /\ seen[r].enabled

IInv ==
    /\ FilesTyped
    /\ ScanLocked
    /\ SlotsAccounted
    /\ ScanSeesEveryLease
    /\ SeenUsable

(* Steps of a request by what they do to the slots.                        *)
Moves(r) ==
    \/ Enter(r) \/ GiveUp(r) \/ Look(r) \/ Wake(r) \/ StartOpen(r) \/ Connects(r)
    \/ Opened(r) \/ OpenFails(r) \/ AbortOpen(r) \/ StrayEnds(r) \/ CloseResponse(r)
    \/ StartSnapshot(r)

EndsScan(r) == ScanFails(r) \/ MetadataFails(r) \/ NoRoom(r) \/ EndSnapshot(r)

LEMMA RequestSteps ==
    ASSUME NEW r \in Request, RequestStep(r)
    PROVE  Moves(r) \/ TakeLock(r) \/ ScanSlot(r) \/ EndsScan(r) \/ Grant(r) \/ Release(r)
BY DEF RequestStep, Acquire, Serve, Fault, Moves, EndsScan

LEMMA InitInvariant == Init => IInv
<1> SUFFICES ASSUME Init PROVE IInv
  OBVIOUS
<1>1. FilesTyped
  BY SlotsAssumption, NoneAssumption
  DEF Init, FilesTyped, Waiting, Serving, NoPolicy, Slot, NoSlot
<1>2. ScanLocked /\ ScanSeesEveryLease /\ SeenUsable
  BY NoneAssumption DEF Init, ScanLocked, Scanning, ScanSeesEveryLease, SeenUsable
<1>3. SlotsAccounted
  BY NoneAssumption DEF Init, SlotsAccounted, NoSlot
<1> QED
  BY <1>1, <1>2, <1>3 DEF IInv

-----------------------------------------------------------------------------
(* Steps that neither scan nor touch a slot.                               *)
LEMMA MovesKeep ==
    ASSUME IInv, NEW r \in Request, Moves(r)
    PROVE  IInv'
<1> USE DEF Moves, Enter, GiveUp, Look, Wake, StartOpen, Connects, Opened, OpenFails,
            AbortOpen, StrayEnds, CloseResponse, StartSnapshot, Goto, scanVars
<1>1. UNCHANGED <<policy, lock, cursor, active, free, slot, meta, lease>>
  OBVIOUS
<1>2. pc' = pc \/ \E where \in {"idle", "look", "lock", "opening", "open", "first", "last", "snaplock"} :
          Goto(r, where) /\ (pc[r] \in Serving <=> where \in Serving) /\ pc[r] \notin Scanning
  BY DEF Serving, Scanning
<1>3. pc' \in [Request -> Waiting \cup Serving \cup {"idle", "snaplock", "snapscan"}]
  BY <1>2 DEF IInv, FilesTyped, Waiting, Serving
<1>4. seen' \in [Request -> Policies \cup {NoPolicy}] /\ conn' \in [Request -> {"none", "connecting", "open"}]
  <2>1. seen' \in {seen, [seen EXCEPT ![r] = policy]}
    OBVIOUS
  <2>2. conn' = conn \/ \E c \in {"none", "connecting", "open", conn[r]} : conn' = [conn EXCEPT ![r] = c]
    OBVIOUS
  <2> QED
    BY <2>1, <2>2 DEF IInv, FilesTyped
<1>5. FilesTyped'
  BY <1>1, <1>3, <1>4 DEF IInv, FilesTyped
<1>6. ScanLocked'
  BY <1>1, <1>2 DEF IInv, FilesTyped, ScanLocked, Scanning
<1>7. SlotsAccounted'
  BY <1>1, <1>2, <1>6 DEF IInv, FilesTyped, SlotsAccounted, ScanLocked, Scanning, NoSlot
<1>8. ScanSeesEveryLease'
  BY <1>1 DEF IInv, ScanSeesEveryLease
<1>9. SeenUsable'
  BY DEF IInv, FilesTyped, SeenUsable
<1> QED
  BY <1>5, <1>6, <1>7, <1>8, <1>9 DEF IInv

LEMMA TakeLockKeeps ==
    ASSUME IInv, NEW r \in Request, TakeLock(r)
    PROVE  IInv'
<1> USE DEF TakeLock, Goto
<1>1. FilesTyped'
  BY DEF IInv, FilesTyped, Waiting, Serving
<1>2. ScanLocked'
  BY NoneAssumption DEF IInv, FilesTyped, ScanLocked, Scanning
<1>3. SlotsAccounted'
  BY DEF IInv, FilesTyped, SlotsAccounted, ScanLocked, Serving
<1>4. ScanSeesEveryLease'
  BY DEF IInv, FilesTyped, ScanSeesEveryLease, ScanLocked, NoSlot, Slot
<1>5. SeenUsable'
  BY DEF IInv, FilesTyped, SeenUsable
<1> QED
  BY <1>1, <1>2, <1>3, <1>4, <1>5 DEF IInv

LEMMA ScanSlotKeeps ==
    ASSUME IInv, NEW r \in Request, ScanSlot(r)
    PROVE  IInv'
<1> USE DEF ScanSlot, CountBusy
<1>1. lock = r /\ cursor \in Slot /\ UNCHANGED <<policy, pc, seen, lock, meta, lease, conn>>
  BY SlotsAssumption DEF IInv, ScanLocked, Scanning, FilesTyped, Slot
<1>2. FilesTyped'
  <2>1. cursor' \in 1..NumSlots + 1
    BY <1>1, SlotsAssumption DEF Slot
  <2>2. active' \subseteq Slot /\ free' \in Slot \cup {NoSlot}
    BY <1>1 DEF IInv, FilesTyped
  <2>3. slot' \in [Slot -> Request \cup {NoRequest}]
    BY <1>1 DEF IInv, FilesTyped
  <2> QED
    BY <1>1, <2>1, <2>2, <2>3 DEF IInv, FilesTyped
<1>3. ScanLocked'
  BY <1>1, NoneAssumption DEF IInv, ScanLocked, Scanning
<1>4. SlotsAccounted'
  <2>1. CASE UNCHANGED <<free, slot>>
    BY <1>1, <2>1 DEF IInv, SlotsAccounted
  <2>2. CASE ~UNCHANGED <<free, slot>>
    <3>1. /\ slot[cursor] = NoRequest /\ pc[r] = "scan" /\ free = NoSlot
          /\ free' = cursor /\ slot' = [slot EXCEPT ![cursor] = r]
      BY <2>2
    <3>2. \A q \in Request : lease[q] # NoSlot => lease[q] # cursor /\ lease[q] \in Slot
      BY <3>1, NoneAssumption DEF IInv, SlotsAccounted, FilesTyped
    <3>3. \A q \in Request : lease[q] # NoSlot => slot'[lease[q]] = q /\ pc[q] \in Serving
      BY <3>1, <3>2 DEF IInv, SlotsAccounted, FilesTyped
    <3>4. slot'[free'] = r /\ r # NoRequest
      BY <1>1, <3>1, NoneAssumption DEF IInv, FilesTyped
    <3>5. \A s \in Slot : slot'[s] # NoRequest =>
              s = lease[slot'[s]] \/ (s = free' /\ slot'[s] = lock)
      BY <1>1, <3>1 DEF IInv, SlotsAccounted, FilesTyped, NoSlot, Slot
    <3> QED
      BY <1>1, <3>1, <3>3, <3>4, <3>5 DEF SlotsAccounted
  <2> QED
    BY <2>1, <2>2
<1>5. ScanSeesEveryLease'
  <2> SUFFICES ASSUME NEW q \in Request, lease[q] # NoSlot, lease[q] < cursor + 1
               PROVE  lease[q] \in active'
    BY <1>1 DEF ScanSeesEveryLease
  <2>1. lease[q] \in Slot /\ slot[lease[q]] = q
    BY DEF IInv, FilesTyped, SlotsAccounted
  <2>2. CASE lease[q] = cursor
    BY <1>1, <2>1, <2>2, NoneAssumption
  <2>3. CASE lease[q] # cursor
    <3>1. lease[q] < cursor
      BY <1>1, <2>1, <2>3 DEF Slot
    <3> QED
      BY <1>1, <3>1, NoneAssumption DEF IInv, ScanSeesEveryLease
  <2> QED
    BY <2>2, <2>3
<1>6. SeenUsable'
  BY <1>1 DEF IInv, SeenUsable
<1> QED
  BY <1>2, <1>3, <1>4, <1>5, <1>6 DEF IInv

(* A scan that keeps nothing: the slot it had kept is free again.          *)
LEMMA EndsScanKeeps ==
    ASSUME IInv, NEW r \in Request, EndsScan(r)
    PROVE  IInv'
<1> USE DEF EndsScan, ScanFails, MetadataFails, NoRoom, EndSnapshot, Scanned, HasRoom,
            CloseKept, DropScan, Goto
<1>1. /\ lock = r /\ pc[r] \in Scanning
      /\ lock' = NoRequest /\ cursor' = 1 /\ active' = {} /\ free' = NoSlot
      /\ UNCHANGED <<policy, seen, lease, conn>>
  BY DEF IInv, ScanLocked, Scanning
<1>2. PICK where \in {"idle", "sleep"} : Goto(r, where)
  BY DEF Goto
<1>3. /\ slot' \in [Slot -> Request \cup {NoRequest}]
      /\ \A s \in Slot : slot'[s] = IF s = free THEN NoRequest ELSE slot[s]
  <2>1. CASE EndSnapshot(r)
    BY <1>1, <2>1 DEF IInv, FilesTyped, SlotsAccounted, Scanning, Slot, NoSlot
  <2>2. CASE ~EndSnapshot(r)
    <3>1. CloseKept
      BY <2>2
    <3> QED
      BY <3>1 DEF IInv, FilesTyped, Slot, NoSlot
  <2> QED
    BY <2>1, <2>2
<1>4. meta' \in [Slot -> Process \cup {NoProcess}]
  BY DEF IInv, FilesTyped
<1>5. FilesTyped'
  BY <1>1, <1>2, <1>3, <1>4, SlotsAssumption DEF IInv, FilesTyped, Waiting
<1>6. ScanLocked'
  BY <1>1, <1>2, NoneAssumption DEF IInv, FilesTyped, ScanLocked, Scanning
<1>7. SlotsAccounted'
  <2>1. \A q \in Request : lease[q] # NoSlot => q # r /\ lease[q] \in Slot \ {free}
    BY <1>1 DEF IInv, FilesTyped, SlotsAccounted, Scanning, Serving
  <2>2. \A q \in Request : lease[q] # NoSlot => slot'[lease[q]] = q /\ pc'[q] \in Serving
    BY <1>2, <1>3, <2>1 DEF IInv, FilesTyped, SlotsAccounted
  <2>3. \A s \in Slot : slot'[s] # NoRequest => s = lease[slot'[s]]
    BY <1>3 DEF IInv, SlotsAccounted
  <2> QED
    BY <1>1, <2>2, <2>3 DEF SlotsAccounted
<1>8. ScanSeesEveryLease'
  BY <1>1 DEF ScanSeesEveryLease
<1>9. SeenUsable'
  BY <1>1, <1>2 DEF IInv, FilesTyped, SeenUsable
<1> QED
  BY <1>5, <1>6, <1>7, <1>8, <1>9 DEF IInv

(* The slot the scan kept becomes the lease.                               *)
LEMMA GrantKeeps ==
    ASSUME IInv, NEW r \in Request, Grant(r)
    PROVE  IInv'
<1> USE DEF Grant, Scanned, HasRoom, DropScan, Goto
<1>1. /\ lock = r /\ pc[r] = "scan" /\ free \in Slot /\ slot[free] = r /\ free # NoSlot
      /\ lock' = NoRequest /\ cursor' = 1 /\ active' = {} /\ free' = NoSlot
      /\ lease' = [lease EXCEPT ![r] = free] /\ Goto(r, "granted")
      /\ UNCHANGED <<policy, seen, slot, conn>>
  BY DEF IInv, ScanLocked, Scanning, FilesTyped, SlotsAccounted
<1>2. FilesTyped'
  <2>1. meta' \in [Slot -> Process \cup {NoProcess}]
    BY <1>1, OwnerAssumption DEF IInv, FilesTyped, WriteMetadata
  <2> QED
    BY <1>1, <2>1, SlotsAssumption DEF IInv, FilesTyped, Serving
<1>3. ScanLocked'
  BY <1>1, NoneAssumption DEF IInv, FilesTyped, ScanLocked, Scanning
<1>4. SlotsAccounted'
  <2>1. lease[r] = NoSlot
    BY <1>1 DEF IInv, SlotsAccounted, Serving
  <2>2. \A q \in Request : lease'[q] # NoSlot => slot[lease'[q]] = q /\ pc'[q] \in Serving
    BY <1>1 DEF IInv, FilesTyped, SlotsAccounted, Serving
  <2>3. \A s \in Slot : slot[s] # NoRequest => s = lease'[slot[s]]
    BY <1>1, <2>1 DEF IInv, FilesTyped, SlotsAccounted, Slot, NoSlot
  <2> QED
    BY <1>1, <2>2, <2>3 DEF SlotsAccounted
<1>5. ScanSeesEveryLease'
  BY <1>1 DEF ScanSeesEveryLease
<1>6. SeenUsable'
  BY <1>1 DEF IInv, FilesTyped, SeenUsable
<1> QED
  BY <1>2, <1>3, <1>4, <1>5, <1>6 DEF IInv

(* Lease.close frees the slot of this lease and no other.                  *)
LEMMA ReleaseKeeps ==
    ASSUME IInv, NEW r \in Request, Release(r)
    PROVE  IInv'
<1> USE DEF Release, CloseLease, Goto, scanVars
<1>1. /\ lease' = [lease EXCEPT ![r] = NoSlot] /\ UNCHANGED <<policy, seen, scanVars, meta, conn>>
      /\ pc[r] \in {"first", "last"}
      /\ pc' = [pc EXCEPT ![r] = IF pc[r] = "first" THEN "last" ELSE "idle"]
  OBVIOUS
<1>2. /\ slot' \in [Slot -> Request \cup {NoRequest}]
      /\ \A s \in Slot : slot'[s] = IF lease[r] # NoSlot /\ s = lease[r] THEN NoRequest ELSE slot[s]
  BY DEF IInv, FilesTyped
<1>3. FilesTyped'
  BY <1>1, <1>2 DEF IInv, FilesTyped, Serving
<1>4. ScanLocked'
  BY <1>1 DEF IInv, FilesTyped, ScanLocked, Scanning
<1>5. SlotsAccounted'
  <2>1. \A q \in Request : lease'[q] # NoSlot => slot'[lease'[q]] = q /\ pc'[q] \in Serving
    BY <1>1, <1>2 DEF IInv, FilesTyped, SlotsAccounted
  <2>2. free # NoSlot => lock # NoRequest /\ slot'[free] = lock /\ pc'[lock] = "scan"
    BY <1>1, <1>2 DEF IInv, FilesTyped, SlotsAccounted
  <2>3. \A s \in Slot : slot'[s] # NoRequest =>
            s = lease'[slot'[s]] \/ (s = free /\ slot'[s] = lock)
    BY <1>1, <1>2 DEF IInv, FilesTyped, SlotsAccounted, Slot, NoSlot
  <2> QED
    BY <1>1, <2>1, <2>2, <2>3 DEF SlotsAccounted
<1>6. ScanSeesEveryLease'
  BY <1>1 DEF IInv, FilesTyped, ScanSeesEveryLease
<1>7. SeenUsable'
  BY <1>1 DEF IInv, FilesTyped, SeenUsable
<1> QED
  BY <1>3, <1>4, <1>5, <1>6, <1>7 DEF IInv

(* The kernel closes every descriptor of a process that exits.             *)
LEMMA ExitKeeps ==
    ASSUME IInv, NEW p \in Process, ProcessExits(p)
    PROVE  IInv'
<1> USE DEF ProcessExits, Mine, scanVars
<1>1. FilesTyped'
  <2>1. /\ lock' \in Request \cup {NoRequest} /\ cursor' \in 1..NumSlots + 1
        /\ active' \subseteq Slot /\ free' \in Slot \cup {NoSlot}
    BY SlotsAssumption DEF IInv, FilesTyped, DropScan
  <2>2. pc' \in [Request -> Waiting \cup Serving \cup {"idle", "snaplock", "snapscan"}]
    BY DEF IInv, FilesTyped
  <2>3. slot' \in [Slot -> Request \cup {NoRequest}] /\ lease' \in [Request -> Slot \cup {NoSlot}]
    BY DEF IInv, FilesTyped
  <2> QED
    BY <2>1, <2>2, <2>3 DEF IInv, FilesTyped
<1>2. ScanLocked'
  <2>1. CASE lock \in Mine(p)
    BY <2>1, NoneAssumption DEF IInv, FilesTyped, ScanLocked, Scanning, DropScan
  <2>2. CASE lock \notin Mine(p)
    BY <2>2 DEF IInv, FilesTyped, ScanLocked, Scanning
  <2> QED
    BY <2>1, <2>2
<1>3. SlotsAccounted'
  <2>1. \A q \in Request : lease'[q] # NoSlot => slot'[lease'[q]] = q /\ pc'[q] \in Serving
    BY DEF IInv, FilesTyped, SlotsAccounted
  <2>2. CASE lock \in Mine(p)
    <3>1. free' = NoSlot
      BY <2>2 DEF DropScan
    <3>2. \A s \in Slot : slot'[s] # NoRequest => s = lease'[slot'[s]]
      BY <2>2 DEF IInv, FilesTyped, SlotsAccounted
    <3> QED
      BY <2>1, <3>1, <3>2 DEF SlotsAccounted
  <2>3. CASE lock \notin Mine(p)
    <3>1. UNCHANGED <<lock, free>>
      BY <2>3
    <3>2. free # NoSlot => lock # NoRequest /\ slot'[free] = lock /\ pc'[lock] = "scan"
      BY <2>3 DEF IInv, FilesTyped, SlotsAccounted
    <3>3. \A s \in Slot : slot'[s] # NoRequest =>
              s = lease'[slot'[s]] \/ (s = free /\ slot'[s] = lock)
      BY <2>3 DEF IInv, FilesTyped, SlotsAccounted
    <3> QED
      BY <2>1, <3>1, <3>2, <3>3 DEF SlotsAccounted
  <2> QED
    BY <2>2, <2>3
<1>4. ScanSeesEveryLease'
  <2>1. CASE lock \in Mine(p)
    BY <2>1 DEF ScanSeesEveryLease, DropScan
  <2>2. CASE lock \notin Mine(p)
    BY <2>2 DEF IInv, FilesTyped, ScanSeesEveryLease
  <2> QED
    BY <2>1, <2>2
<1>5. SeenUsable'
  BY DEF IInv, FilesTyped, SeenUsable
<1> QED
  BY <1>1, <1>2, <1>3, <1>4, <1>5 DEF IInv

LEMMA NextInvariant == IInv /\ [Next]_vars => IInv'
<1> SUFFICES ASSUME IInv, [Next]_vars PROVE IInv'
  OBVIOUS
<1>1. CASE UNCHANGED vars
  BY <1>1 DEF vars, scanVars, IInv, FilesTyped, ScanLocked, SlotsAccounted,
         ScanSeesEveryLease, SeenUsable
<1>2. CASE Reconfigure
  BY <1>2 DEF Reconfigure, scanVars, IInv, FilesTyped, ScanLocked, SlotsAccounted,
         ScanSeesEveryLease, SeenUsable
<1>3. ASSUME NEW r \in Request, RequestStep(r) PROVE IInv'
  BY <1>3, RequestSteps, MovesKeep, TakeLockKeeps, ScanSlotKeeps, EndsScanKeeps, GrantKeeps,
     ReleaseKeeps
<1>4. ASSUME NEW p \in Process, ProcessExits(p) PROVE IInv'
  BY <1>4, ExitKeeps
<1> QED
  BY <1>1, <1>2, <1>3, <1>4 DEF Next

LEMMA Invariance == Spec => []IInv
BY InitInvariant, NextInvariant, PTL DEF Spec

-----------------------------------------------------------------------------
(* The waiting counters: what a step may do to them.                       *)

Arrives(r) ==
    /\ pc[r] \notin Waiting /\ pc'[r] \in Waiting
    /\ waiting' = [waiting EXCEPT ![Owner[r]] = @ + 1]

Leaves(r) ==
    /\ pc[r] \in Waiting /\ pc'[r] \notin Waiting
    /\ waiting' = [waiting EXCEPT ![Owner[r]] = @ - 1]

Stays(r) == (pc'[r] \in Waiting <=> pc[r] \in Waiting) /\ UNCHANGED waiting

LEMMA RequestWaits ==
    ASSUME IInv, NEW r \in Request, RequestStep(r)
    PROVE  /\ Arrives(r) \/ Leaves(r) \/ Stays(r)
           /\ \A q \in Request \ {r} : pc'[q] = pc[q]
<1>1. \A q \in Request \ {r} : pc'[q] = pc[q]
  BY DEF IInv, FilesTyped, Goto, RequestStep, Acquire, Serve, Fault, Enter, StartSnapshot,
     TakeLock, Look, ScanSlot, Grant, NoRoom, Wake, StartOpen, Connects, Opened,
     CloseResponse, Release, EndSnapshot, GiveUp, ScanFails, MetadataFails, OpenFails,
     AbortOpen, StrayEnds
<1>2. CASE Enter(r)
  BY <1>2 DEF Enter, Goto, IInv, FilesTyped, Arrives, Waiting
<1>3. CASE GiveUp(r) \/ Grant(r) \/ MetadataFails(r) \/ (ScanFails(r) /\ pc[r] = "scan")
  BY <1>3 DEF GiveUp, Grant, MetadataFails, ScanFails, Scanned, StopWaiting, Goto, IInv,
     FilesTyped, Leaves, Waiting
<1>4. CASE \/ StartSnapshot(r) \/ TakeLock(r) \/ Look(r) \/ ScanSlot(r) \/ NoRoom(r)
           \/ Wake(r) \/ StartOpen(r) \/ Connects(r) \/ Opened(r) \/ CloseResponse(r)
           \/ Release(r) \/ EndSnapshot(r) \/ OpenFails(r) \/ AbortOpen(r) \/ StrayEnds(r)
           \/ (ScanFails(r) /\ pc[r] # "scan")
  BY <1>4 DEF StartSnapshot, TakeLock, Look, ScanSlot, NoRoom, Wake, StartOpen, Connects,
     Opened, CloseResponse, Release, EndSnapshot, OpenFails, AbortOpen, StrayEnds, ScanFails,
     Scanned, Goto, IInv, FilesTyped, Stays, Waiting
<1> QED
  BY <1>1, <1>2, <1>3, <1>4 DEF RequestStep, Acquire, Serve, Fault

LEMMA WaitersFinite ==
    ASSUME NEW p \in Process
    PROVE  IsFiniteSet(Waiters(p)) /\ Cardinality(Waiters(p)) \in Nat
<1>1. Waiters(p) \subseteq Request
  BY DEF Waiters
<1> QED
  BY <1>1, OwnerAssumption, FS_Subset, FS_CardinalityType

LEMMA WaitingStep == IInv /\ WaitingExact /\ [Next]_vars => WaitingExact'
<1> SUFFICES ASSUME IInv, WaitingExact, [Next]_vars PROVE WaitingExact'
  OBVIOUS
<1>1. CASE UNCHANGED <<pc, waiting>>
  BY <1>1 DEF WaitingExact, Waiters
<1>2. ASSUME NEW r \in Request, RequestStep(r) PROVE WaitingExact'
  <2>1. Owner[r] \in Process
    BY OwnerAssumption
  <2>2. \A p \in Process \ {Owner[r]} : Waiters(p)' = Waiters(p)
    BY <1>2, RequestWaits DEF Waiters
  <2>3. CASE Stays(r)
    <3>1. \A p \in Process : Waiters(p)' = Waiters(p)
      BY <1>2, <2>3, RequestWaits DEF Waiters, Stays
    <3> QED
      BY <2>3, <3>1 DEF WaitingExact, Stays
  <2>4. CASE Arrives(r)
    <3>1. Waiters(Owner[r])' = Waiters(Owner[r]) \cup {r} /\ r \notin Waiters(Owner[r])
      BY <1>2, <2>4, RequestWaits DEF Waiters, Arrives
    <3>2. Cardinality(Waiters(Owner[r])') = Cardinality(Waiters(Owner[r])) + 1
      BY <2>1, <3>1, WaitersFinite, FS_AddElement
    <3> QED
      BY <2>1, <2>2, <2>4, <3>2 DEF WaitingExact, Arrives
  <2>5. CASE Leaves(r)
    <3>1. Waiters(Owner[r])' = Waiters(Owner[r]) \ {r} /\ r \in Waiters(Owner[r])
      BY <1>2, <2>5, RequestWaits DEF Waiters, Leaves
    <3>2. Cardinality(Waiters(Owner[r])') = Cardinality(Waiters(Owner[r])) - 1
      BY <2>1, <3>1, WaitersFinite, FS_RemoveElement
    <3>3. IsFiniteSet(Waiters(Owner[r])')
      BY <2>1, <3>1, WaitersFinite, FS_RemoveElement
    <3>4. Cardinality(Waiters(Owner[r])') \in Nat
      BY <3>3, FS_CardinalityType
    <3> QED
      BY <2>1, <2>2, <2>5, <3>2, <3>4 DEF WaitingExact, Leaves
  <2> QED
    BY <1>2, <2>3, <2>4, <2>5, RequestWaits
<1>3. ASSUME NEW p \in Process, ProcessExits(p) PROVE WaitingExact'
  <2>1. Waiters(p)' = {}
    BY <1>3 DEF ProcessExits, Mine, Waiters, Waiting, IInv, FilesTyped
  <2>2. \A q \in Process \ {p} : Waiters(q)' = Waiters(q)
    BY <1>3 DEF ProcessExits, Mine, Waiters, IInv, FilesTyped
  <2>3. waiting' = [waiting EXCEPT ![p] = 0]
    BY <1>3 DEF ProcessExits
  <2> QED
    BY <2>1, <2>2, <2>3, FS_EmptySet DEF WaitingExact
<1> QED
  BY <1>1, <1>2, <1>3 DEF Next, Reconfigure, vars

LEMMA InitWaiting == Init => WaitingExact
<1> SUFFICES ASSUME Init PROVE WaitingExact
  OBVIOUS
<1>1. \A p \in Process : Waiters(p) = {}
  BY DEF Init, Waiters, Waiting
<1> QED
  BY <1>1, FS_EmptySet DEF Init, WaitingExact

-----------------------------------------------------------------------------
(* The refinement.                                                         *)

LEMMA NoViews == Capacity!NoView = NoPolicy
BY DEF Capacity!NoView, NoPolicy

(* RequestCapacity counts with the Cardinality of its own FiniteSets.      *)
LEMMA SameCount == ASSUME NEW S PROVE Capacity!Cardinality(S) = Cardinality(S)
BY DEF Capacity!Cardinality, Cardinality

(* At the end of a scan every lease has been counted, so the room found is  *)
(* room for the requests that hold capacity.                               *)
LEMMA CountCoversHeld ==
    ASSUME IInv, NEW r \in Request, Scanned(r)
    PROVE  /\ Cardinality(Held) \in Nat /\ Cardinality(active) \in Nat
           /\ Cardinality(Held) <= Cardinality(active)
<1>1. IsFiniteSet(Held) /\ Cardinality(Held) \in Nat
  BY OwnerAssumption, FS_Subset, FS_CardinalityType DEF Held
<1>2. IsFiniteSet(active) /\ Cardinality(active) \in Nat
  <2>1. IsFiniteSet(1..NumSlots)
    BY SlotsAssumption, FS_Interval
  <2>2. active \in SUBSET (1..NumSlots)
    BY DEF IInv, FilesTyped, Slot
  <2> QED
    BY <2>1, <2>2, FS_Subset, FS_CardinalityType
<1> DEFINE slotOf == [q \in Held |-> lease[q]]
<1>3. lock = r /\ r # NoRequest
  BY NoneAssumption DEF Scanned, IInv, ScanLocked, Scanning
<1>4. \A q \in Held : lease[q] \in active
  BY <1>3, SlotsAssumption DEF Held, Scanned, IInv, FilesTyped, ScanSeesEveryLease, Slot, NoSlot
<1>5. slotOf \in [Held -> active]
  BY <1>4
<1>6. \A q1, q2 \in Held : slotOf[q1] = slotOf[q2] => q1 = q2
  BY DEF Held, IInv, SlotsAccounted
<1>7. ~(Cardinality(active) < Cardinality(Held))
  <2> HIDE DEF slotOf
  <2> QED
    BY <1>1, <1>2, <1>5, <1>6, FS_PigeonHole
<1> QED
  BY <1>1, <1>2, <1>7


LEMMA RequestRefines ==
    ASSUME IInv, NEW r \in Request, RequestStep(r)
    PROVE  [Capacity!Next]_<<Held, View, policy>>
<1>1. UNCHANGED policy
  BY DEF RequestStep, Acquire, Serve, Fault, Enter, StartSnapshot,
     TakeLock, Look, ScanSlot, Grant, NoRoom, Wake, StartOpen, Connects, Opened,
     CloseResponse, Release, EndSnapshot, GiveUp, ScanFails, MetadataFails, OpenFails,
     AbortOpen, StrayEnds
<1>2. CASE Look(r)
  <2>1. r \notin Held /\ Held' = Held
    BY <1>2 DEF Look, Held, IInv, SlotsAccounted, Serving
  <2>2. View' = [View EXCEPT ![r] = policy]
    BY <1>2 DEF Look, View, Goto, IInv, FilesTyped
  <2>3. Capacity!Look(r)
    BY <1>1, <1>2, <2>1, <2>2 DEF Capacity!Look, Capacity!Usable, Look
  <2> QED
    BY <2>3 DEF Capacity!Next
<1>3. CASE Grant(r)
  <2>1. /\ pc[r] = "scan" /\ View[r] = seen[r] /\ seen[r] \in Policies
        /\ seen[r].valid /\ seen[r].enabled
    BY <1>3 DEF Grant, Scanned, View, IInv, SeenUsable
  <2>2. /\ lock = r /\ free # NoSlot
        /\ Cardinality(active) + seen[r].reserve < seen[r].limit
    BY <1>3 DEF Grant, Scanned, HasRoom, IInv, ScanLocked, Scanning
  <2>3. Cardinality(Held) + View[r].reserve < View[r].limit
    <3>1. seen[r].reserve \in Nat /\ seen[r].limit \in Nat
      BY <2>1, PolicyAssumption, SlotsAssumption
    <3>2. /\ Cardinality(Held) \in Nat /\ Cardinality(active) \in Nat
          /\ Cardinality(Held) <= Cardinality(active)
      BY <1>3, CountCoversHeld DEF Grant
    <3> QED
      BY <2>1, <2>2, <3>1, <3>2
  <2>4. Held' = Held \cup {r}
    BY <1>3, <2>2 DEF Grant, Held, IInv, FilesTyped
  <2>5. View' = [View EXCEPT ![r] = NoPolicy]
    BY <1>3 DEF Grant, View, Goto, IInv, FilesTyped
  <2>6. Capacity!Usable(View[r])
    BY <2>1, SMT DEF Capacity!Usable
  <2>7. Capacity!Room(r)
    BY <2>3, SameCount DEF Capacity!Room
  <2>8. Capacity!Grant(r)
    BY <1>1, <2>4, <2>5, <2>6, <2>7, NoViews DEF Capacity!Grant
  <2> QED
    BY <2>8 DEF Capacity!Next
<1>4. CASE Release(r) \/ EndsScan(r)
  <2>1. Held' = Held \ {r}
    <3>1. CASE Release(r)
      BY <3>1 DEF Release, CloseLease, Held, IInv, FilesTyped
    <3>2. CASE EndsScan(r)
      <4>1. r \notin Held /\ UNCHANGED lease
        BY <3>2 DEF EndsScan, ScanFails, MetadataFails, NoRoom, EndSnapshot, Scanned, Held,
           IInv, SlotsAccounted, Serving
      <4> QED
        BY <4>1 DEF Held
    <3> QED
      BY <1>4, <3>1, <3>2
  <2>2. UNCHANGED seen /\ \E where \in {"idle", "last", "sleep"} : Goto(r, where)
    BY <1>4 DEF Release, EndsScan, ScanFails, MetadataFails, NoRoom, EndSnapshot, Goto
  <2>3. View' = [q \in Request |-> IF q \in {r} THEN NoPolicy ELSE View[q]]
    BY <2>2 DEF View, Goto, IInv, FilesTyped
  <2>4. Capacity!Leave({r})
    BY <1>1, <2>1, <2>3, NoViews DEF Capacity!Leave
  <2> QED
    BY <2>4 DEF Capacity!Next
<1>5. CASE TakeLock(r) \/ ScanSlot(r) \/ (Moves(r) /\ ~Look(r))
  <2>1. UNCHANGED <<lease, seen>>
    BY <1>5 DEF TakeLock, ScanSlot, Moves, Enter, GiveUp, Wake, StartOpen, Connects, Opened,
       OpenFails, AbortOpen, StrayEnds, CloseResponse, StartSnapshot
  <2>2. \A q \in Request : pc'[q] \in {"lock", "scan"} <=> pc[q] \in {"lock", "scan"}
    BY <1>5 DEF TakeLock, ScanSlot, Moves, Enter, GiveUp, Wake, StartOpen, Connects, Opened,
       OpenFails, AbortOpen, StrayEnds, CloseResponse, StartSnapshot, Goto, IInv, FilesTyped
  <2>3. Held' = Held /\ View' = View
    BY <2>1, <2>2 DEF Held, View
  <2> QED
    BY <1>1, <2>3
<1> QED
  BY <1>2, <1>3, <1>4, <1>5, RequestSteps

LEMMA StepRefines ==
    IInv /\ [Next]_vars => [Capacity!Next]_<<Held, View, policy>>
<1> SUFFICES ASSUME IInv, [Next]_vars PROVE [Capacity!Next]_<<Held, View, policy>>
  OBVIOUS
<1>1. CASE UNCHANGED vars
  BY <1>1 DEF vars, Held, View
<1>2. ASSUME NEW r \in Request, RequestStep(r)
      PROVE  [Capacity!Next]_<<Held, View, policy>>
  BY <1>2, RequestRefines
<1>3. CASE Reconfigure
  <2>1. Held' = Held /\ View' = View /\ policy' \in Policies
    BY <1>3 DEF Reconfigure, Held, View
  <2> QED
    BY <2>1 DEF Capacity!Next, Capacity!Reconfigure
<1>4. ASSUME NEW p \in Process, ProcessExits(p)
      PROVE  [Capacity!Next]_<<Held, View, policy>>
  <2>1. Held' = Held \ Mine(p)
    BY <1>4 DEF ProcessExits, Held, Mine, IInv, FilesTyped
  <2>2. View' = [r \in Request |-> IF r \in Mine(p) THEN NoPolicy ELSE View[r]]
    BY <1>4 DEF ProcessExits, View, IInv, FilesTyped
  <2>3. Capacity!Leave(Mine(p))
    BY <1>4, <2>1, <2>2, NoViews DEF Capacity!Leave, ProcessExits
  <2>4. Mine(p) \in SUBSET Request
    BY DEF Mine
  <2> QED
    BY <2>3, <2>4 DEF Capacity!Next
<1> QED
  BY <1>1, <1>2, <1>3, <1>4 DEF Next

LEMMA InitRefines == Init => Capacity!Init
<1> SUFFICES ASSUME Init PROVE Capacity!Init
  OBVIOUS
<1>1. Held = {}
  BY DEF Init, Held
<1>2. View = [r \in Request |-> NoPolicy]
  BY DEF Init, View
<1> QED
  BY <1>1, <1>2, NoViews DEF Init, Capacity!Init, Capacity!Usable

-----------------------------------------------------------------------------
(* What a request has while it is served: a slot from the grant to the last *)
(* close of its response, and, behind a standard opener, an upstream        *)
(* connection only in between.                                             *)
Covered ==
    /\ \A r \in Request : pc[r] \in {"granted", "opening", "open", "first"} => lease[r] # NoSlot
    /\ \A r \in Request : conn[r] # "none" /\ Owner[r] \notin Direct => pc[r] \in {"opening", "open"}

LEMMA MovesCover ==
    ASSUME IInv, Covered, NEW r \in Request, Moves(r)
    PROVE  Covered'
<1>1. UNCHANGED lease
  BY DEF Moves, Enter, GiveUp, Look, Wake, StartOpen, Connects, Opened, OpenFails, AbortOpen,
     StrayEnds, CloseResponse, StartSnapshot
<1>2. CASE Enter(r) \/ GiveUp(r) \/ Look(r) \/ Wake(r) \/ StartSnapshot(r)
  BY <1>1, <1>2 DEF Enter, GiveUp, Look, Wake, StartSnapshot, Goto, IInv, FilesTyped, Covered
<1>3. CASE StartOpen(r) \/ Connects(r) \/ Opened(r) \/ OpenFails(r)
  BY <1>1, <1>3 DEF StartOpen, Connects, Opened, OpenFails, Goto, IInv, FilesTyped, Covered
<1>4. CASE AbortOpen(r) \/ StrayEnds(r) \/ CloseResponse(r)
  BY <1>1, <1>4 DEF AbortOpen, StrayEnds, CloseResponse, Goto, IInv, FilesTyped, Covered
<1> QED
  BY <1>2, <1>3, <1>4 DEF Moves

LEMMA CoveredStep == IInv /\ Covered /\ [Next]_vars => Covered'
<1> SUFFICES ASSUME IInv, Covered, [Next]_vars PROVE Covered'
  OBVIOUS
<1>1. CASE UNCHANGED <<pc, lease, conn>>
  BY <1>1 DEF Covered
<1>2. ASSUME NEW r \in Request, RequestStep(r) PROVE Covered'
  <2>1. CASE TakeLock(r) \/ ScanSlot(r)
    BY <2>1 DEF TakeLock, ScanSlot, Goto, IInv, FilesTyped, Covered
  <2>2. CASE EndsScan(r)
    BY <2>2 DEF EndsScan, ScanFails, MetadataFails, NoRoom, EndSnapshot, Scanned, Goto, IInv,
       FilesTyped, Covered
  <2>3. CASE Grant(r)
    BY <2>3 DEF Grant, Scanned, HasRoom, Goto, IInv, FilesTyped, Covered
  <2>4. CASE Release(r)
    BY <2>4 DEF Release, CloseLease, Goto, IInv, FilesTyped, Covered
  <2> QED
    BY <1>2, <2>1, <2>2, <2>3, <2>4, RequestSteps, MovesCover
<1>3. ASSUME NEW p \in Process, ProcessExits(p) PROVE Covered'
  BY <1>3 DEF ProcessExits, IInv, FilesTyped, Covered
<1> QED
  BY <1>1, <1>2, <1>3 DEF Next, Reconfigure, vars

LEMMA InitCovered == Init => Covered
BY DEF Init, Covered

-----------------------------------------------------------------------------
(* Every state is well typed; the counters stay in Nat because they are     *)
(* exact.                                                                  *)
THEOREM TypeCorrect == Spec => []TypeOK
<1>1. IInv /\ WaitingExact => TypeOK
  BY DEF IInv, FilesTyped, WaitingExact, TypeOK
<1> QED
  BY Invariance, InitWaiting, WaitingStep, <1>1, PTL DEF Spec

(* No exit path leaks a slot, and no late or second close of a lease frees  *)
(* a slot that was handed to somebody else.                                *)
THEOREM NoSlotLeaks == Spec => []SlotsAccounted
<1>1. IInv => SlotsAccounted
  BY DEF IInv
<1> QED
  BY Invariance, <1>1, PTL

(* A request behind a standard opener is upstream only while it has a slot: *)
(* every way out of open_limited closes the response before the lease.      *)
THEOREM UpstreamIsCovered == Spec => []SlotCoversUpstream
<1>1. Covered => SlotCoversUpstream
  BY DEF Covered, SlotCoversUpstream, Held
<1> QED
  BY Invariance, InitCovered, CoveredStep, <1>1, PTL DEF Spec

(* The slot files implement the promise of RequestCapacity: a request is    *)
(* admitted only while fewer hold capacity than a policy in force allows.  *)
THEOREM CapacityImplemented == Spec => ImplementsCapacity
<1>1. IInv /\ [Next]_vars => [Capacity!Next]_<<Held, View, policy>>
  BY StepRefines
<1> QED
  BY Invariance, InitRefines, <1>1, PTL DEF Spec, ImplementsCapacity, Capacity!Spec

-----------------------------------------------------------------------------
(* The rejudge queue: its inductive invariant.                             *)

Status == Failed \cup Accepted \cup Identity \cup
            {"absent", "running", "terminal_verdict_conflict", "budget_exhausted",
             "launch_budget_exhausted", "invalid_timeout"}
Report == [says : Verdict \cup {"technical", "none"}, attempts : 0..MaxEval,
           place : {"absent", "live", "aside"}]

(* A job whose launch is not settled counts as running.                    *)
Unsettled ==
    \A j \in Job : worker[j] \in {"reserved", "child", "rejected", "rejected_cleanly"} =>
                       entry[j].status = "running"

(* A job is accepted on a report that is still there, or on the parent's   *)
(* word.                                                                   *)
AcceptedOnWord ==
    \A j \in Eligible : parent[j].verdict \in Verdict \/ TerminalRuns(j) # {}

(* A report comes with its evaluation, and a child with its launch.        *)
InOrder ==
    /\ \A r \in Run : child[r] \in {"none", "lock", "evaluate"} => report[r].place # "live"
    /\ \A j \in Job : \A n \in LaunchSlots(j) : n > spawned[j] => child[<<j, n>>] = "none"

(* One fold at a time, over all that was counted before.                   *)
Publishing(w) == IF w = Queue THEN main = "publish" ELSE child[w] = "publish"
OneFold ==
    /\ \A v, w \in Run \cup {Queue} : Publishing(v) /\ Publishing(w) => v = w
    /\ \A w \in Run \cup {Queue} : Publishing(w) => final.sources \subseteq chosen[w]
    /\ final.counted \subseteq final.sources

(* What the refresh has selected, and what a child selects after it, has a *)
(* verdict of each accepted job.                                           *)
Carries(reports) ==
    \A j \in Eligible : parent[j].verdict \in Verdict \/ TerminalRuns(j) \cap reports # {}
Refreshing == main = "publish" => Carries(chosen[Queue])
Refreshed ==
    main = "done" => \/ Conflict
                     \/ /\ Carries(final.counted)
                        /\ \A r \in Run : child[r] = "publish" => Carries(chosen[r])

QueueIInv ==
    /\ QueueTypeOK
    /\ Unsettled /\ AcceptedOnWord /\ InOrder /\ OneFold
    /\ Refreshing /\ Refreshed

-----------------------------------------------------------------------------
(* Its types.                                                              *)

LEMMA QueueTypes ==
    QueueTypeOK <=>
        /\ parent \in [Job -> Prior]
        /\ entry \in [Job -> [status : Status, launches : 0..2]]
        /\ main \in {"down", "pool", "publish", "done", "raised"}
        /\ lives \in 0..MaxLives
        /\ worker \in [Job -> {"queued", "again", "budget", "reserved", "child", "rejected",
                               "rejected_cleanly", "ended"}]
        /\ spawned \in [Job -> Nat] /\ \A j \in Job : spawned[j] <= MaxSlots[j]
        /\ child \in [Run -> InTaskLock \cup {"none", "lock", "ok", "failed"}]
        /\ report \in [Run -> Report]
        /\ chosen \in [Run \cup {Queue} -> SUBSET Run]
        /\ final \in [sources : SUBSET Run, counted : SUBSET Run]
        /\ judged \subseteq Run
BY DEF QueueTypeOK, Status, Report

LEMMA ReportUpdates ==
    ASSUME NEW x \in Report
    PROVE  /\ \A says \in Verdict \cup {"technical"} :
                 LET y == [x EXCEPT !.says = says, !.place = "live"]
                 IN  /\ y \in Report /\ y.says = says /\ y.place = "live"
                     /\ y.attempts = x.attempts
           /\ LET y == [x EXCEPT !.place = "aside"]
              IN  /\ y \in Report /\ y.says = x.says /\ y.place = "aside"
                  /\ y.attempts = x.attempts
BY DEF Report

(* What taking the task lock changes in the report.                        *)
LEMMA BudgetTaken ==
    ASSUME report \in [Run -> Report], NEW r \in Run, ChildTakesLock(r)
    PROVE  \E n \in 1..MaxEval : \E y \in Report :
               /\ report' = [report EXCEPT ![r] = y]
               /\ y.says = report[r].says /\ y.place = report[r].place /\ y.attempts = n
               /\ Observed(r[1]) + n <= MaxTotal
<1>1. PICK n \in 1..MaxEval : /\ Observed(r[1]) + n <= MaxTotal
                              /\ report' = [report EXCEPT ![r].attempts = n]
  BY DEF ChildTakesLock
<1> DEFINE y == [report[r] EXCEPT !.attempts = n]
<1>2. n \in 0..MaxEval /\ report[r] \in Report
  BY BudgetAssumption
<1>3. y \in Report /\ y.says = report[r].says /\ y.place = report[r].place /\ y.attempts = n
  BY <1>2 DEF Report
<1>4. report' = [report EXCEPT ![r] = y]
  BY <1>1
<1> HIDE DEF y
<1> QED
  BY <1>1, <1>3, <1>4

LEMMA RunsOfJobs == \A j \in Job : \A n \in LaunchSlots(j) : <<j, n>> \in Run
BY DEF Run

LEMMA QueueInitTyped == QueueInit => QueueTypeOK
<1> SUFFICES ASSUME QueueInit PROVE QueueTypeOK
  OBVIOUS
<1>1. parent \in [Job -> Prior]
  BY PriorsAssumption DEF QueueInit
<1>2. entry \in [Job -> [status : Status, launches : 0..2]]
  BY DEF QueueInit, NoEntry, Status
<1>3. spawned \in [Job -> Nat] /\ \A j \in Job : spawned[j] <= MaxSlots[j]
  BY BoundsAssumption DEF QueueInit
<1>4. report \in [Run -> Report]
  BY BudgetAssumption DEF QueueInit, NoReport, Report
<1>5. lives \in 0..MaxLives
  BY BoundsAssumption DEF QueueInit
<1> QED
  BY <1>1, <1>2, <1>3, <1>4, <1>5, QueueTypes DEF QueueInit

LEMMA ChildTyped ==
    ASSUME QueueTypeOK, NEW r \in Run, ChildStep(r) \/ ChildDies(r)
    PROVE  QueueTypeOK'
<1> USE QueueTypes
<1>1. UNCHANGED <<parent, entry, main, lives, worker, spawned, judged>>
  BY DEF ChildStep, ChildDies, ChildTakesLock, ChildFindsBudgetSpent, ChildEvaluates, ChildSelects,
         ChildMissesSource, ChildPublishes, ChildExits, disk
<1>2. child' \in [Run -> InTaskLock \cup {"none", "lock", "ok", "failed"}]
  BY DEF ChildStep, ChildDies, ChildTakesLock, ChildFindsBudgetSpent, ChildEvaluates, ChildSelects,
         ChildMissesSource, ChildPublishes, ChildExits, Goes, InTaskLock
<1>3. report' \in [Run -> Report]
  <2>1. CASE ChildTakesLock(r)
    BY <2>1, BudgetTaken
  <2>2. CASE ChildEvaluates(r)
    <3>1. PICK says \in Outcomes[r] :
             report' = [report EXCEPT ![r].says = says, ![r].place = "live"]
      BY <2>2 DEF ChildEvaluates
    <3>2. says \in Verdict \cup {"technical"}
      BY PriorsAssumption
    <3>3. [report[r] EXCEPT !.says = says, !.place = "live"] \in Report
      BY <3>2, ReportUpdates
    <3>4. report' = [report EXCEPT ![r] = [report[r] EXCEPT !.says = says, !.place = "live"]]
      BY <3>1
    <3> QED
      BY <3>3, <3>4
  <2>3. CASE UNCHANGED report
    BY <2>3
  <2> QED
    BY <2>1, <2>2, <2>3 DEF ChildStep, ChildDies, ChildFindsBudgetSpent, ChildSelects,
       ChildMissesSource, ChildPublishes, ChildExits, disk
<1>4. chosen' \in [Run \cup {Queue} -> SUBSET Run]
  <2>1. Live \cup final.sources \subseteq Run
    BY DEF Live
  <2> QED
    BY <2>1 DEF ChildStep, ChildDies, ChildTakesLock, ChildFindsBudgetSpent, ChildEvaluates, ChildSelects,
       ChildMissesSource, ChildPublishes, ChildExits, Select, Fold
<1>5. final' \in [sources : SUBSET Run, counted : SUBSET Run]
  <2>1. chosen[r] \subseteq Run
    OBVIOUS
  <2> QED
    BY <2>1 DEF ChildStep, ChildDies, ChildTakesLock, ChildFindsBudgetSpent, ChildEvaluates, ChildSelects,
       ChildMissesSource, ChildPublishes, ChildExits, Fold, disk
<1> QED
  BY <1>1, <1>2, <1>3, <1>4, <1>5 DEF QueueTypeOK, Status, Report

LEMMA PersistTyped ==
    ASSUME QueueTypeOK, NEW j \in Job, NEW status \in Status, NEW clean, Persist(j, status, clean)
    PROVE  /\ entry' \in [Job -> [status : Status, launches : 0..2]]
           /\ worker' \in [Job -> {"queued", "again", "budget", "reserved", "child", "rejected",
                                   "rejected_cleanly", "ended"}]
<1> USE QueueTypes
<1>1. entry[j].launches \in 0..2
  OBVIOUS
<1>2. entry' = [entry EXCEPT ![j] = [status |-> status, launches |-> entry[j].launches]]
  BY DEF Persist, Put
<1>3. worker' = [worker EXCEPT ![j] = "again"] \/ worker' = [worker EXCEPT ![j] = "ended"]
  BY DEF Persist, At
<1> QED
  BY <1>1, <1>2, <1>3

LEMMA EndsTyped ==
    ASSUME QueueTypeOK, NEW j \in Job, NEW status \in Status, NEW n \in 0..2, EndsAs(j, status, n)
    PROVE  /\ entry' \in [Job -> [status : Status, launches : 0..2]]
           /\ worker' \in [Job -> {"queued", "again", "budget", "reserved", "child", "rejected",
                                   "rejected_cleanly", "ended"}]
BY QueueTypes DEF EndsAs, Put, At

LEMMA JobTyped ==
    ASSUME QueueTypeOK, NEW j \in Job, RunJob(j)
    PROVE  QueueTypeOK'
<1> USE QueueTypes
<1>1. UNCHANGED <<parent, main, lives, chosen, final>>
  BY DEF RunJob, Decide, Unidentified, FindsConflict, FindsTerminal, FindsNothing, BudgetSpent,
         InvalidTimeout, LaunchesSpent, ReserveLaunch, Spawn, SpawnFails, Conclude, AcceptReport,
         RejectReport, PersistRejection, NoVerdict, disk
<1>2. /\ entry' \in [Job -> [status : Status, launches : 0..2]]
      /\ worker' \in [Job -> {"queued", "again", "budget", "reserved", "child", "rejected",
                              "rejected_cleanly", "ended"}]
  <2>1. entry[j].launches \in 0..2
    OBVIOUS
  <2>2. CASE Unidentified(j) \/ FindsConflict(j) \/ FindsTerminal(j)
    <3>1. parent[j].identity \in Status
      BY DEF Prior, Status
    <3>2. "terminal_verdict_conflict" \in Status /\ "skipped_terminal" \in Status
      BY DEF Status, Accepted
    <3>3. \E status \in Status : EndsAs(j, status, 0)
      BY <2>2, <3>1, <3>2 DEF Unidentified, FindsConflict, FindsTerminal
    <3> QED
      BY <3>3, EndsTyped
  <2>3. CASE BudgetSpent(j) \/ InvalidTimeout(j) \/ LaunchesSpent(j)
    <3>1. {"budget_exhausted", "invalid_timeout", "launch_budget_exhausted"} \subseteq Status
      BY DEF Status
    <3>2. \E status \in Status, n \in 0..2 : EndsAs(j, status, n)
      BY <2>1, <2>3, <3>1 DEF BudgetSpent, InvalidTimeout, LaunchesSpent
    <3> QED
      BY <3>2, EndsTyped
  <2>4. CASE ReserveLaunch(j)
    <3>1. entry[j].launches + 1 \in 0..2
      BY <2>1, <2>4 DEF ReserveLaunch
    <3> QED
      BY <2>4, <3>1 DEF ReserveLaunch, Put, At, Status
  <2>5. CASE FindsNothing(j) \/ Spawn(j) \/ RejectReport(j)
    BY <2>5 DEF FindsNothing, Spawn, RejectReport, At
  <2>6. CASE SpawnFails(j) \/ AcceptReport(j) \/ PersistRejection(j) \/ NoVerdict(j)
    <3>1. PICK status \in Status : \E clean : Persist(j, status, clean)
      BY <2>6 DEF SpawnFails, AcceptReport, PersistRejection, NoVerdict, Status, Failed, Accepted
    <3> QED
      BY <3>1, PersistTyped
  <2> QED
    BY <2>2, <2>3, <2>4, <2>5, <2>6 DEF RunJob, Decide, Conclude
<1>3. /\ spawned' \in [Job -> Nat] /\ \A k \in Job : spawned'[k] <= MaxSlots[k]
      /\ child' \in [Run -> InTaskLock \cup {"none", "lock", "ok", "failed"}]
  <2>1. CASE Spawn(j)
    <3>1. spawned[j] + 1 \in Nat /\ spawned[j] + 1 <= MaxSlots[j]
      BY <2>1, BoundsAssumption DEF Spawn, LaunchSlots
    <3> QED
      BY <2>1, <3>1 DEF Spawn, Goes
  <2>2. CASE UNCHANGED <<spawned, child>>
    BY <2>2
  <2> QED
    BY <2>1, <2>2 DEF RunJob, Decide, Unidentified, FindsConflict, FindsTerminal, FindsNothing, BudgetSpent,
       InvalidTimeout, LaunchesSpent, ReserveLaunch, SpawnFails, Conclude, AcceptReport, RejectReport,
       PersistRejection, NoVerdict
<1>4. report' \in [Run -> Report] /\ judged' \subseteq Run
  <2>1. CASE RejectReport(j)
    <3>1. Launch(j) \in Run /\ report' = [report EXCEPT ![Launch(j)].place = "aside"]
          /\ judged' = judged \cup {Launch(j)}
      BY <2>1 DEF RejectReport, TerminalRuns, Live, SetAside
    <3>2. [report[Launch(j)] EXCEPT !.place = "aside"] \in Report
      BY <3>1, ReportUpdates
    <3> QED
      BY <3>1, <3>2
  <2>2. CASE UNCHANGED disk
    BY <2>2 DEF disk
  <2> QED
    BY <2>1, <2>2 DEF RunJob, Decide, Unidentified, FindsConflict, FindsTerminal, FindsNothing, BudgetSpent,
       InvalidTimeout, LaunchesSpent, ReserveLaunch, Spawn, SpawnFails, Conclude, AcceptReport,
       PersistRejection, NoVerdict
<1> QED
  BY <1>1, <1>2, <1>3, <1>4 DEF QueueTypeOK, Status, Report

LEMMA QueueProcessTyped ==
    ASSUME QueueTypeOK, Refresh \/ Start \/ Crash
    PROVE  QueueTypeOK'
<1> USE QueueTypes
<1>1. UNCHANGED <<parent, entry, spawned, child, report, judged>>
  BY DEF Refresh, LeaveFinal, RefreshSelects, RefreshMissesSource, RefreshPublishes, Start, Crash, disk
<1>2. /\ main' \in {"down", "pool", "publish", "done", "raised"}
      /\ worker' \in [Job -> {"queued", "again", "budget", "reserved", "child", "rejected",
                              "rejected_cleanly", "ended"}]
  BY DEF Refresh, LeaveFinal, RefreshSelects, RefreshMissesSource, RefreshPublishes, Start, Crash
<1>3. lives' \in 0..MaxLives
  BY BoundsAssumption
     DEF Refresh, LeaveFinal, RefreshSelects, RefreshMissesSource, RefreshPublishes, Start, Crash
<1>4. /\ chosen' \in [Run \cup {Queue} -> SUBSET Run]
      /\ final' \in [sources : SUBSET Run, counted : SUBSET Run]
  <2>1. Live \cup final.sources \subseteq Run /\ chosen[Queue] \subseteq Run
    BY DEF Live
  <2> QED
    BY <2>1 DEF Refresh, LeaveFinal, RefreshSelects, RefreshMissesSource, RefreshPublishes, Start, Crash,
       Select, Fold, disk
<1> QED
  BY <1>1, <1>2, <1>3, <1>4 DEF QueueTypeOK, Status, Report

LEMMA QueueStepTyped == QueueTypeOK /\ [QueueNext]_queueVars => QueueTypeOK'
<1> SUFFICES ASSUME QueueTypeOK, [QueueNext]_queueVars PROVE QueueTypeOK'
  OBVIOUS
<1>1. CASE UNCHANGED queueVars
  BY <1>1 DEF queueVars, disk, QueueTypeOK
<1>2. CASE \E r \in Run : ChildStep(r) \/ ChildDies(r)
  BY <1>2, ChildTyped
<1>3. CASE \E j \in Job : RunJob(j)
  BY <1>3, JobTyped
<1>4. CASE Refresh \/ Start \/ Crash
  BY <1>4, QueueProcessTyped
<1> QED
  BY <1>1, <1>2, <1>3, <1>4 DEF QueueNext, Proceed

(* Every variable of the queue keeps to its values in every state.         *)
THEOREM QueueTypeCorrect == QueueSpec => []QueueTypeOK
<1> QED
  BY QueueInitTyped, QueueStepTyped, PTL DEF QueueSpec

-----------------------------------------------------------------------------
(* Its invariant, step by step.                                            *)

LEMMA QueueInitHolds == QueueInit => QueueIInv
<1> SUFFICES ASSUME QueueInit PROVE QueueIInv
  OBVIOUS
<1>1. \A j \in Job : entry[j].status = "absent"
  BY DEF QueueInit, NoEntry
<1>2. Unsettled /\ AcceptedOnWord
  BY <1>1 DEF QueueInit, Unsettled, AcceptedOnWord, Eligible, Accepted
<1>3. InOrder
  BY RunsOfJobs DEF QueueInit, InOrder, NoReport
<1>4. OneFold
  BY DEF QueueInit, OneFold, Publishing
<1> QED
  BY <1>2, <1>3, <1>4, QueueInitTyped DEF QueueIInv, QueueInit, Refreshing, Refreshed

LEMMA QueueParts ==
    ASSUME QueueIInv
    PROVE  /\ entry \in [Job -> [status : Status, launches : 0..2]]
           /\ worker \in [Job -> {"queued", "again", "budget", "reserved", "child", "rejected",
                                  "rejected_cleanly", "ended"}]
           /\ spawned \in [Job -> Nat]
           /\ child \in [Run -> InTaskLock \cup {"none", "lock", "ok", "failed"}]
           /\ report \in [Run -> Report]
           /\ chosen \in [Run \cup {Queue} -> SUBSET Run]
           /\ final \in [sources : SUBSET Run, counted : SUBSET Run]
           /\ Queue \notin Run
BY QueueTypes, JobAssumption DEF QueueIInv

(* A child only adds to what the globs find.                               *)
ReportsStay == \A q \in Live : q \in Live' /\ report'[q].says = report[q].says

LEMMA ChildAdds ==
    ASSUME QueueIInv, NEW r \in Run, ChildStep(r) \/ ChildDies(r)
    PROVE  ReportsStay
<1>1. CASE ChildTakesLock(r)
  <2>1. PICK y \in Report : /\ report' = [report EXCEPT ![r] = y]
                            /\ y.says = report[r].says /\ y.place = report[r].place
    BY <1>1, BudgetTaken, QueueParts
  <2> QED
    BY <2>1, QueueParts DEF Live, ReportsStay
<1>2. CASE ChildEvaluates(r)
  <2>1. report[r].place # "live"
    BY <1>2 DEF ChildEvaluates, QueueIInv, InOrder
  <2>2. \A q \in Run \ {r} : report'[q] = report[q]
    BY <1>2, QueueParts DEF ChildEvaluates
  <2> QED
    BY <2>1, <2>2 DEF Live, ReportsStay
<1>3. CASE UNCHANGED report
  BY <1>3 DEF Live, ReportsStay
<1> QED
  BY <1>1, <1>2, <1>3 DEF ChildStep, ChildDies, ChildFindsBudgetSpent, ChildSelects,
     ChildMissesSource, ChildPublishes, ChildExits, disk

(* What is carried by reports stays so while reports are added.            *)
LEMMA AddedReports ==
    ASSUME UNCHANGED <<parent, entry>>, ReportsStay
    PROVE  /\ AcceptedOnWord => AcceptedOnWord'
           /\ Conflict => Conflict'
           /\ \A reports : Carries(reports) => Carries(reports)'
           /\ \A j \in Job : TerminalRuns(j) \subseteq TerminalRuns(j)'
<1>1. Eligible' = Eligible /\ Eligible \subseteq Job
  BY DEF Eligible
<1>2. \A j \in Job : TerminalRuns(j) \subseteq TerminalRuns(j)'
  BY DEF ReportsStay, TerminalRuns
<1>3. AcceptedOnWord => AcceptedOnWord'
  BY <1>1, <1>2 DEF AcceptedOnWord
<1>4. \A reports : Carries(reports) => Carries(reports)'
  BY <1>1, <1>2 DEF Carries
<1>5. ASSUME NEW j \in Job, Verdicts(j) = Verdict PROVE Verdicts(j)' = Verdict
  <2>1. Verdicts(j) \subseteq Verdicts(j)'
    BY <1>2 DEF Verdicts, ReportsStay, TerminalRuns
  <2>2. Verdicts(j)' \subseteq Verdict
    BY DEF Verdicts, TerminalRuns
  <2> QED
    BY <1>5, <2>1, <2>2
<1>6. Conflict => Conflict'
  BY <1>1, <1>5 DEF Conflict
<1> QED
  BY <1>2, <1>3, <1>4, <1>6

LEMMA ChildHolds ==
    ASSUME QueueIInv, NEW r \in Run, ChildStep(r) \/ ChildDies(r)
    PROVE  QueueIInv'
<1>1. UNCHANGED <<parent, entry, main, lives, worker, spawned, judged>>
  BY DEF ChildStep, ChildDies, ChildTakesLock, ChildFindsBudgetSpent, ChildEvaluates, ChildSelects,
         ChildMissesSource, ChildPublishes, ChildExits, disk
<1>2. ReportsStay
  BY ChildAdds
<1>3. /\ \A q \in Run \ {r} : child'[q] = child[q] /\ report'[q] = report[q]
      /\ \A w \in (Run \cup {Queue}) \ {r} : chosen'[w] = chosen[w]
  BY QueueParts DEF ChildStep, ChildDies, ChildTakesLock, ChildFindsBudgetSpent, ChildEvaluates, ChildSelects,
     ChildMissesSource, ChildPublishes, ChildExits, Goes, Select, Fold, disk
<1>4. Unsettled'
  BY <1>1 DEF QueueIInv, Unsettled
<1>5. AcceptedOnWord'
  BY <1>1, <1>2, AddedReports DEF QueueIInv
<1>6. InOrder'
  <2>1. child[r] # "none"
    BY DEF ChildStep, ChildDies, ChildTakesLock, ChildFindsBudgetSpent, ChildEvaluates, ChildSelects,
           ChildMissesSource, ChildPublishes, ChildExits, InTaskLock
  <2>2. child'[r] \in {"none", "lock", "evaluate"} => report'[r].place # "live"
    <3>1. CASE ChildTakesLock(r)
      <4>1. report[r].place # "live"
        BY <3>1 DEF ChildTakesLock, QueueIInv, InOrder
      <4>2. PICK y \in Report : report' = [report EXCEPT ![r] = y] /\ y.place = report[r].place
        BY <3>1, BudgetTaken, QueueParts
      <4> QED
        BY <4>1, <4>2, QueueParts
    <3>2. CASE ~ChildTakesLock(r)
      BY <3>2, QueueParts DEF ChildStep, ChildDies, ChildFindsBudgetSpent, ChildEvaluates, ChildSelects,
         ChildMissesSource, ChildPublishes, ChildExits, Goes
    <3> QED
      BY <3>1, <3>2
  <2>3. \A j \in Job : \A n \in LaunchSlots(j) : n > spawned[j] => child[<<j, n>>] = "none"
    BY DEF QueueIInv, InOrder
  <2>4. \A j \in Job : \A n \in LaunchSlots(j) : n > spawned'[j] => child'[<<j, n>>] = "none"
    <3> SUFFICES ASSUME NEW j \in Job, NEW n \in LaunchSlots(j), n > spawned[j]
                 PROVE  child'[<<j, n>>] = "none"
      BY <1>1 DEF LaunchSlots
    <3>1. <<j, n>> \in Run \ {r}
      BY <2>1, <2>3, RunsOfJobs
    <3> QED
      BY <1>3, <2>3, <3>1
  <2>5. \A q \in Run : child'[q] \in {"none", "lock", "evaluate"} => report'[q].place # "live"
    BY <1>3, <2>2 DEF QueueIInv, InOrder
  <2> QED
    BY <2>4, <2>5 DEF InOrder, LaunchSlots
<1>7. /\ \A v, w \in Run \cup {Queue} : Publishing(v) /\ Publishing(w) => v = w
      /\ \A w \in Run \cup {Queue} : Publishing(w) => final.sources \subseteq chosen[w]
      /\ final.counted \subseteq final.sources
  BY DEF QueueIInv, OneFold
<1>8. \A w \in (Run \cup {Queue}) \ {r} : Publishing(w)' <=> Publishing(w)
  BY <1>1, <1>3 DEF Publishing
<1>9. r # Queue /\ (Publishing(r) <=> child[r] = "publish") /\ (Publishing(r)' <=> child'[r] = "publish")
  BY QueueParts DEF Publishing
<1>10. /\ Eligible' = Eligible /\ Eligible \subseteq Job
       /\ \A j \in Job : TerminalRuns(j) \subseteq TerminalRuns(j)' /\ TerminalRuns(j) \subseteq Live
       /\ Conflict => Conflict'
  BY <1>1, <1>2, AddedReports DEF Eligible, TerminalRuns
<1>11. CASE ChildSelects(r)
  <2>1. \A w \in Run \cup {Queue} : ~Publishing(w)
    BY <1>11, QueueParts DEF ChildSelects, ReportLockFree, Publishing
  <2>2. /\ chosen'[r] = Live \cup final.sources /\ UNCHANGED <<final, report>>
    BY <1>11, QueueParts DEF ChildSelects, Select, disk
  <2>3. OneFold'
    BY <1>7, <1>8, <2>1, <2>2 DEF OneFold
  <2>4. Refreshing'
    BY <1>1, <1>9, <2>1 DEF Refreshing, Publishing
  <2>5. Refreshed'
    <3> SUFFICES ASSUME main = "done", ~Conflict
                 PROVE  Carries(final.counted)' /\ \A q \in Run : child'[q] = "publish" => Carries(chosen[q])'
      BY <1>1, <1>10 DEF Refreshed
    <3>1. Carries(final.counted)
      BY DEF QueueIInv, Refreshed
    <3>2. Carries(final.counted)'
      BY <1>1, <1>10, <2>2, <3>1 DEF Carries
    <3>3. \A q \in Run : child'[q] = "publish" => q = r
      BY <1>3, <2>1, QueueParts DEF Publishing
    <3>4. Carries(chosen[r])'
      BY <1>1, <1>10, <2>2, <3>1 DEF Carries
    <3> QED
      BY <3>2, <3>3, <3>4
  <2> QED
    BY <1>4, <1>5, <1>6, <2>3, <2>4, <2>5, QueueStepTyped DEF QueueIInv, QueueNext, Proceed
<1>12. CASE ChildPublishes(r)
  <2>1. Publishing(r) /\ \A w \in Run \cup {Queue} : ~Publishing(w)'
    <3>1. Publishing(r) /\ ~Publishing(r)'
      BY <1>9, <1>12, QueueParts DEF ChildPublishes, Goes
    <3> QED
      BY <1>7, <1>8, <3>1
  <2>2. final' = [sources |-> chosen[r], counted |-> chosen[r] \cap Live] /\ UNCHANGED report
    BY <1>12 DEF ChildPublishes, Fold
  <2>3. OneFold'
    BY <2>1, <2>2 DEF OneFold
  <2>4. Refreshing'
    BY <2>1 DEF Refreshing, Publishing
  <2>5. Refreshed'
    <3> SUFFICES ASSUME main = "done", ~Conflict PROVE Carries(final.counted)'
      BY <1>1, <1>10, <2>1, QueueParts DEF Refreshed, Publishing
    <3>1. Carries(chosen[r])
      BY <1>12 DEF ChildPublishes, QueueIInv, Refreshed
    <3> QED
      BY <1>1, <1>10, <2>2, <3>1 DEF Carries
  <2> QED
    BY <1>4, <1>5, <1>6, <2>3, <2>4, <2>5, QueueStepTyped DEF QueueIInv, QueueNext, Proceed
<1>13. CASE ~ChildSelects(r) /\ ~ChildPublishes(r)
  <2>1. UNCHANGED final /\ ~Publishing(r)'
    BY <1>9, <1>13, QueueParts DEF ChildStep, ChildDies, ChildTakesLock, ChildFindsBudgetSpent, ChildEvaluates,
       ChildMissesSource, ChildExits, Goes, disk
  <2>2. \A w \in Run \cup {Queue} : Publishing(w)' => Publishing(w) /\ chosen'[w] = chosen[w]
    BY <1>3, <1>8, <2>1
  <2>3. OneFold'
    BY <1>7, <2>1, <2>2 DEF OneFold
  <2>4. Refreshing'
    <3> SUFFICES ASSUME main' = "publish" PROVE Carries(chosen[Queue])'
      BY DEF Refreshing
    <3>1. Carries(chosen[Queue]) /\ chosen'[Queue] = chosen[Queue]
      BY <1>1, <1>3, <1>9 DEF QueueIInv, Refreshing
    <3> QED
      BY <1>1, <1>10, <3>1 DEF Carries
  <2>5. Refreshed'
    <3> SUFFICES ASSUME main = "done", ~Conflict
                 PROVE  Carries(final.counted)' /\ \A q \in Run : child'[q] = "publish" => Carries(chosen[q])'
      BY <1>1, <1>10 DEF Refreshed
    <3>1. Carries(final.counted)'
      BY <1>1, <1>10, <2>1 DEF Carries, QueueIInv, Refreshed
    <3>2. ASSUME NEW q \in Run, child'[q] = "publish" PROVE Carries(chosen[q])'
      <4>1. child[q] = "publish" /\ chosen'[q] = chosen[q]
        BY <2>2, <3>2, QueueParts DEF Publishing
      <4>2. Carries(chosen[q])
        BY <4>1 DEF QueueIInv, Refreshed
      <4> QED
        BY <1>1, <1>10, <4>1, <4>2 DEF Carries
    <3> QED
      BY <3>1, <3>2
  <2> QED
    BY <1>4, <1>5, <1>6, <2>3, <2>4, <2>5, QueueStepTyped DEF QueueIInv, QueueNext, Proceed
<1> QED
  BY <1>11, <1>12, <1>13

LEMMA JobHolds ==
    ASSUME QueueIInv, NEW j \in Job, RunJob(j)
    PROVE  QueueIInv'
<1>1. main = "pool" /\ UNCHANGED <<parent, main, lives, chosen, final>>
  BY DEF RunJob, Decide, Unidentified, FindsConflict, FindsTerminal, FindsNothing, BudgetSpent,
         InvalidTimeout, LaunchesSpent, ReserveLaunch, Spawn, SpawnFails, Conclude, AcceptReport,
         RejectReport, PersistRejection, NoVerdict, Running, Collected, disk
<1>2. \A k \in Job \ {j} : entry'[k] = entry[k] /\ worker'[k] = worker[k]
  BY QueueParts
     DEF RunJob, Decide, Unidentified, FindsConflict, FindsTerminal, FindsNothing, BudgetSpent,
         InvalidTimeout, LaunchesSpent, ReserveLaunch, Spawn, SpawnFails, Conclude, AcceptReport,
         RejectReport, PersistRejection, NoVerdict, Persist, EndsAs, Put, At
(* Where the job is, what its record says, and what of its reports stays.  *)
<1>3. /\ worker'[j] \in {"reserved", "child", "rejected", "rejected_cleanly"} =>
            entry'[j].status = "running"
      /\ entry'[j].status \in Accepted =>
            \/ entry'[j] = entry[j] /\ UNCHANGED report
            \/ (parent[j].verdict \in Verdict \/ TerminalRuns(j) # {}) /\ UNCHANGED report
  <2>1. worker[j] \in {"reserved", "child", "rejected", "rejected_cleanly"} => entry[j].status = "running"
    BY DEF QueueIInv, Unsettled
  <2>2. CASE Unidentified(j) \/ FindsConflict(j) \/ BudgetSpent(j) \/ InvalidTimeout(j) \/ LaunchesSpent(j)
    <3>1. PICK status, n : EndsAs(j, status, n) /\ status \notin Accepted
      <4>1. parent[j].identity \in Identity
        BY QueueTypes DEF QueueIInv, Prior
      <4> QED
        BY <2>2, <4>1 DEF Unidentified, FindsConflict, BudgetSpent, InvalidTimeout, LaunchesSpent, Accepted,
           Identity
    <3> QED
      BY <3>1, QueueParts DEF EndsAs, Put, At
  <2>3. CASE FindsTerminal(j)
    <3>1. Verdicts(j) # {}
      <4>1. Cardinality({}) = 0
        BY FS_EmptySet
      <4> QED
        BY <2>3, <4>1 DEF FindsTerminal
    <3>2. parent[j].verdict \in Verdict \/ TerminalRuns(j) # {}
      BY <3>1 DEF Verdicts
    <3> QED
      BY <2>3, <3>2, QueueParts DEF FindsTerminal, EndsAs, Put, At, disk
  <2>4. CASE FindsNothing(j)
    BY <2>4, QueueParts DEF FindsNothing, At, disk
  <2>5. CASE ReserveLaunch(j)
    BY <2>5, QueueParts DEF ReserveLaunch, Put, At, Accepted
  <2>6. CASE Spawn(j)
    BY <2>1, <2>6, QueueParts DEF Spawn, At, disk
  <2>7. CASE RejectReport(j)
    BY <2>1, <2>7, QueueParts DEF RejectReport, Collected, At, Accepted
  <2>8. CASE SpawnFails(j) \/ PersistRejection(j) \/ NoVerdict(j)
    <3> DEFINE Fails == entry'[j].status \in Failed /\ worker'[j] \in {"again", "ended"}
    <3>1. ASSUME SpawnFails(j) PROVE Fails
      BY <3>1, QueueParts DEF SpawnFails, Persist, Put, At, Failed
    <3>2. ASSUME PersistRejection(j) PROVE Fails
      BY <3>2, QueueParts DEF PersistRejection, Persist, Put, At, Failed
    <3>3. ASSUME NoVerdict(j) PROVE Fails
      <4>1. PICK status \in Failed, clean \in BOOLEAN : Persist(j, status, clean)
        BY <3>3, Zenon DEF NoVerdict, Failed
      <4> QED
        BY <4>1, QueueParts DEF Persist, Put, At
    <3>4. Fails
      BY <2>8, <3>1, <3>2, <3>3
    <3> QED
      BY <3>4 DEF Failed, Accepted
  <2>9. CASE AcceptReport(j)
    BY <2>9, QueueParts DEF AcceptReport, Persist, Put, At, disk
  <2> QED
    BY <2>2, <2>3, <2>4, <2>5, <2>6, <2>7, <2>8, <2>9 DEF RunJob, Decide, Conclude
<1>4. Unsettled'
  BY <1>2, <1>3 DEF QueueIInv, Unsettled
<1>5. /\ UNCHANGED report \/ RejectReport(j)
      /\ UNCHANGED <<spawned, child>> \/ Spawn(j)
  BY DEF RunJob, Decide, Unidentified, FindsConflict, FindsTerminal, FindsNothing, BudgetSpent,
         InvalidTimeout, LaunchesSpent, ReserveLaunch, Spawn, SpawnFails, Conclude, AcceptReport,
         RejectReport, PersistRejection, NoVerdict, disk
<1>6. /\ \A k \in Job \ {j} : TerminalRuns(k)' = TerminalRuns(k)
      /\ \A q \in Run : report'[q].place = "live" => report[q].place = "live"
      /\ UNCHANGED report => TerminalRuns(j)' = TerminalRuns(j)
  <2>1. CASE UNCHANGED report
    BY <2>1 DEF TerminalRuns, Live
  <2>2. CASE RejectReport(j)
    <3>1. Launch(j) \in Run /\ Launch(j)[1] = j /\ report' = [report EXCEPT ![Launch(j)].place = "aside"]
      BY <2>2 DEF RejectReport, TerminalRuns, Live, SetAside, Launch
    <3> DEFINE y == [report[Launch(j)] EXCEPT !.place = "aside"]
    <3>2. y.place = "aside"
      BY <3>1, QueueParts, ReportUpdates
    <3>3. report' = [report EXCEPT ![Launch(j)] = y]
      BY <3>1
    <3> HIDE DEF y
    <3>4. /\ \A q \in Run \ {Launch(j)} : report'[q] = report[q]
          /\ report'[Launch(j)].place = "aside"
      BY <3>1, <3>2, <3>3, QueueParts
    <3>5. \A k \in Job \ {j} : TerminalRuns(k)' = TerminalRuns(k)
      BY <3>1, <3>4 DEF TerminalRuns, Live
    <3>6. report' # report
      BY <2>2, <3>1, <3>4 DEF RejectReport, TerminalRuns, Live
    <3> QED
      BY <3>4, <3>5, <3>6
  <2> QED
    BY <1>5, <2>1, <2>2
<1>7. AcceptedOnWord'
  <2> SUFFICES ASSUME NEW k \in Job, entry'[k].status \in Accepted
               PROVE  parent[k].verdict \in Verdict \/ TerminalRuns(k)' # {}
    BY <1>1 DEF AcceptedOnWord, Eligible
  <2>1. CASE k # j
    BY <1>2, <1>6, <2>1 DEF QueueIInv, AcceptedOnWord, Eligible
  <2>2. CASE k = j
    BY <1>3, <1>6, <2>2 DEF QueueIInv, AcceptedOnWord, Eligible
  <2> QED
    BY <2>1, <2>2
<1>8. InOrder'
  <2>1. InOrder
    BY DEF QueueIInv
  <2>2. CASE UNCHANGED <<spawned, child>>
    BY <1>6, <2>1, <2>2 DEF InOrder, LaunchSlots
  <2>3. CASE Spawn(j)
    <3> DEFINE r == <<j, spawned[j] + 1>>
    <3>1. /\ spawned[j] + 1 \in LaunchSlots(j) /\ spawned' = [spawned EXCEPT ![j] = @ + 1]
          /\ child' = [child EXCEPT ![r] = "lock"] /\ UNCHANGED report
      BY <2>3 DEF Spawn, Goes, disk
    <3>2. r \in Run /\ child[r] = "none"
      BY <2>1, <3>1, QueueParts, RunsOfJobs DEF InOrder
    <3>3. report[r].place # "live"
      BY <2>1, <3>2 DEF InOrder
    <3>4. /\ \A q \in Run : child'[q] \in {"none", "lock", "evaluate"} => report'[q].place # "live"
      BY <2>1, <3>1, <3>3, QueueParts DEF InOrder
    <3>5. ASSUME NEW k \in Job, NEW n \in LaunchSlots(k), n > spawned'[k] PROVE child'[<<k, n>>] = "none"
      <4>1. n \in Nat /\ spawned[k] \in Nat /\ <<k, n>> \in Run
        BY QueueParts, RunsOfJobs DEF LaunchSlots
      <4>2. n > spawned[k] /\ <<k, n>> # r
        BY <3>1, <3>5, <4>1, QueueParts
      <4> QED
        BY <2>1, <3>1, <4>1, <4>2, QueueParts DEF InOrder
    <3> QED
      BY <3>4, <3>5 DEF InOrder, LaunchSlots
  <2> QED
    BY <1>5, <2>2, <2>3
<1>9. OneFold'
  <2>1. \A w \in Run \cup {Queue} : Publishing(w)' => Publishing(w)
    BY <1>1, <1>5, QueueParts DEF Publishing, Spawn, Goes
  <2> QED
    BY <1>1, <2>1 DEF QueueIInv, OneFold
<1>10. Refreshing' /\ Refreshed'
  BY <1>1 DEF Refreshing, Refreshed
<1> QED
  BY <1>4, <1>7, <1>8, <1>9, <1>10, QueueStepTyped DEF QueueIInv, QueueNext, Proceed

LEMMA QueueProcessHolds ==
    ASSUME QueueIInv, Refresh \/ Start \/ Crash
    PROVE  QueueIInv'
<1>1. UNCHANGED <<parent, entry, spawned, child, report, judged>>
  BY DEF Refresh, LeaveFinal, RefreshSelects, RefreshMissesSource, RefreshPublishes, Start, Crash, disk
<1>2. /\ UNCHANGED Live
      /\ \A j \in Job : UNCHANGED TerminalRuns(j) /\ TerminalRuns(j) \subseteq Live
      /\ Eligible' = Eligible /\ Eligible \subseteq Job
  BY <1>1 DEF Live, TerminalRuns, Eligible
<1>3. Conflict' = Conflict
  BY <1>1, <1>2 DEF Conflict, Verdicts
<1>4. Unsettled'
  <2>1. CASE UNCHANGED worker
    BY <1>1, <2>1 DEF QueueIInv, Unsettled
  <2>2. CASE worker' = [j \in Job |-> "queued"]
    BY <2>2 DEF Unsettled
  <2> QED
    BY <2>1, <2>2 DEF Refresh, LeaveFinal, RefreshSelects, RefreshMissesSource, RefreshPublishes, Start, Crash
<1>5. AcceptedOnWord'
  BY <1>1, <1>2 DEF QueueIInv, AcceptedOnWord
<1>6. InOrder'
  BY <1>1 DEF QueueIInv, InOrder, LaunchSlots
<1>7. QueueTypeOK'
  BY QueueStepTyped DEF QueueIInv, QueueNext, Proceed
<1>8. /\ \A v, w \in Run \cup {Queue} : Publishing(v) /\ Publishing(w) => v = w
      /\ \A w \in Run \cup {Queue} : Publishing(w) => final.sources \subseteq chosen[w]
      /\ final.counted \subseteq final.sources
  BY DEF QueueIInv, OneFold
<1>9. /\ \A w \in Run : Publishing(w)' <=> Publishing(w)
      /\ \A w \in Run : Publishing(w) <=> child[w] = "publish"
      /\ Publishing(Queue)' <=> main' = "publish"
  BY <1>1, QueueParts DEF Publishing
<1>10. CASE LeaveFinal
  <2>1. main' = "done" /\ UNCHANGED <<chosen, final>>
    BY <1>10 DEF LeaveFinal, disk
  <2>2. OneFold'
    BY <1>8, <1>9, <2>1 DEF OneFold
  <2>3. Refreshed'
    <3>1. CASE Conflict
      BY <1>3, <3>1 DEF Refreshed
    <3>2. CASE ~NewReports
      <4>1. \A j \in Eligible : parent[j].verdict \in Verdict
        BY <3>2 DEF NewReports, QueueIInv, AcceptedOnWord
      <4> QED
        BY <1>1, <1>2, <4>1 DEF Refreshed, Carries
    <3> QED
      BY <1>10, <3>1, <3>2 DEF LeaveFinal
  <2> QED
    BY <1>4, <1>5, <1>6, <1>7, <2>1, <2>2, <2>3 DEF QueueIInv, Refreshing
<1>11. CASE RefreshSelects
  <2>1. /\ main' = "publish" /\ chosen' = [chosen EXCEPT ![Queue] = Live \cup final.sources]
        /\ UNCHANGED final
    BY <1>11 DEF RefreshSelects, Select, disk
  <2>2. chosen'[Queue] = Live \cup final.sources
    BY <2>1, QueueParts
  <2>3. \A w \in Run : ~Publishing(w)'
    BY <1>9, <1>11 DEF RefreshSelects, ReportLockFree
  <2>4. OneFold'
    BY <1>8, <2>1, <2>2, <2>3 DEF OneFold
  <2>5. Refreshing'
    BY <1>1, <1>2, <2>2 DEF Refreshing, Carries, QueueIInv, AcceptedOnWord
  <2> QED
    BY <1>4, <1>5, <1>6, <1>7, <2>1, <2>4, <2>5 DEF QueueIInv, Refreshed
<1>12. CASE RefreshPublishes
  <2>1. /\ main = "publish" /\ main' = "done"
        /\ final' = [sources |-> chosen[Queue], counted |-> chosen[Queue] \cap Live]
    BY <1>12 DEF RefreshPublishes, Fold
  <2>2. \A w \in Run \cup {Queue} : ~Publishing(w)'
    <3>1. Publishing(Queue) /\ ~Publishing(Queue)'
      BY <1>9, <2>1 DEF Publishing
    <3> QED
      BY <1>8, <1>9, <3>1, QueueParts
  <2>3. OneFold'
    BY <2>1, <2>2 DEF OneFold
  <2>4. Refreshed'
    <3>1. Carries(chosen[Queue])
      BY <2>1 DEF QueueIInv, Refreshing
    <3>2. Carries(final.counted)'
      BY <1>1, <1>2, <2>1, <3>1 DEF Carries
    <3> QED
      BY <1>9, <2>2, <3>2, <1>1 DEF Refreshed
  <2> QED
    BY <1>4, <1>5, <1>6, <1>7, <2>1, <2>3, <2>4 DEF QueueIInv, Refreshing
<1>13. CASE RefreshMissesSource \/ Start \/ Crash
  <2>1. /\ main' \in {"raised", "pool", "down"} /\ UNCHANGED final
        /\ \A w \in Run : chosen'[w] = chosen[w]
    BY <1>13, QueueParts DEF RefreshMissesSource, Start, Crash, disk
  <2>2. OneFold'
    BY <1>8, <1>9, <2>1 DEF OneFold
  <2> QED
    BY <1>4, <1>5, <1>6, <1>7, <2>1, <2>2 DEF QueueIInv, Refreshing, Refreshed
<1> QED
  BY <1>10, <1>11, <1>12, <1>13 DEF Refresh

LEMMA QueueStutters ==
    ASSUME QueueIInv, UNCHANGED queueVars
    PROVE  QueueIInv'
<1>1. /\ UNCHANGED <<parent, entry, main, lives, worker, spawned, child, report, chosen, final, judged>>
      /\ UNCHANGED Live /\ \A j \in Job : UNCHANGED TerminalRuns(j)
      /\ Eligible' = Eligible /\ Eligible \subseteq Job
  BY DEF queueVars, disk, Live, TerminalRuns, Eligible
<1>2. Conflict' = Conflict
  BY <1>1 DEF Conflict, Verdicts
<1>3. Unsettled' /\ AcceptedOnWord' /\ InOrder'
  BY <1>1 DEF QueueIInv, Unsettled, AcceptedOnWord, InOrder, LaunchSlots
<1>4. OneFold'
  BY <1>1 DEF QueueIInv, OneFold, Publishing
<1>5. Refreshing' /\ Refreshed'
  BY <1>1, <1>2 DEF QueueIInv, Refreshing, Refreshed, Carries
<1>6. QueueTypeOK'
  BY QueueStepTyped DEF QueueIInv
<1> QED
  BY <1>3, <1>4, <1>5, <1>6 DEF QueueIInv

(* The invariant holds at the start and is kept by every step.             *)
LEMMA QueueInductive == QueueSpec => []QueueIInv
<1>1. QueueIInv /\ [QueueNext]_queueVars => QueueIInv'
  BY ChildHolds, JobHolds, QueueProcessHolds, QueueStutters DEF QueueNext, Proceed
<1> QED
  BY <1>1, QueueInitHolds, PTL DEF QueueSpec

(* When a run of the queue has ended as done, each job it accepted on a    *)
(* child's word has a verdict among the reports the parent's final report  *)
(* counts, or a verdict conflict kept the refresh back: what the refresh   *)
(* selects under parent_report_lock is all there was, and a child folding  *)
(* afterwards publishes at least as much (_run_queue_locked,               *)
(* update_parent_fact_report).                                             *)
THEOREM PublishedWhenDone == QueueSpec => []DoneMeansPublished
<1>1. QueueIInv => DoneMeansPublished
  BY DEF QueueIInv, Refreshed, Carries, DoneMeansPublished
<1> QED
  BY <1>1, QueueInductive, PTL

(* No fold of the final report, by a child or by the queue, drops a report *)
(* that one before it counted, unless a source it names was set aside: it  *)
(* selects all sources of the report it replaces, and the lock lets no     *)
(* other fold in between (swe_eval_layer_report, parent_report_lock).      *)
THEOREM CountedStays == QueueSpec => CountedStaysCounted
<1> DEFINE Kept == final.counted \subseteq final'.counted \/ ~(final'.sources \subseteq Live')
<1>1. ASSUME QueueIInv, NEW w \in Run \cup {Queue}, Publishing(w), Fold(w), UNCHANGED report
      PROVE  Kept
  <2>1. final.counted \subseteq chosen[w]
    BY <1>1 DEF QueueIInv, OneFold
  <2>2. final' = [sources |-> chosen[w], counted |-> chosen[w] \cap Live] /\ Live' = Live
    BY <1>1 DEF Fold, Live
  <2> QED
    BY <2>1, <2>2
<1>2. ASSUME QueueIInv, [QueueNext]_queueVars PROVE Kept
  <2>1. CASE UNCHANGED final
    BY <2>1
  <2>2. CASE \E r \in Run : ChildPublishes(r)
    BY <1>1, <1>2, <2>2, QueueParts DEF ChildPublishes, Publishing
  <2>3. CASE RefreshPublishes
    BY <1>1, <1>2, <2>3, QueueParts DEF RefreshPublishes, Publishing
  <2>4. UNCHANGED final \/ (\E r \in Run : ChildPublishes(r)) \/ RefreshPublishes
    BY <1>2 DEF QueueNext, Proceed, RunJob, Decide, Unidentified, FindsConflict, FindsTerminal,
       FindsNothing, BudgetSpent, InvalidTimeout, LaunchesSpent, ReserveLaunch, Spawn, SpawnFails,
       Conclude, AcceptReport, RejectReport, PersistRejection, NoVerdict, ChildStep, ChildTakesLock,
       ChildFindsBudgetSpent, ChildEvaluates, ChildSelects, ChildMissesSource, ChildExits, ChildDies,
       Refresh, LeaveFinal, RefreshSelects, RefreshMissesSource, Start, Crash, disk, queueVars
  <2> QED
    BY <2>1, <2>2, <2>3, <2>4
<1> QED
  BY <1>2, QueueInductive, PTL DEF QueueSpec, CountedStaysCounted

-----------------------------------------------------------------------------
(* The queue's budgets: what is counted, and what is launched.             *)

(* What a fold may name has a report, and is of a child past its evaluation. *)
Reported(r) == child[r] \notin {"none", "lock", "evaluate"}
OnlyReported ==
    /\ \A r \in final.sources : Reported(r)
    /\ \A w \in Run \cup {Queue} : \A r \in chosen[w] : Reported(r)

(* A child that has folded its report is counted while the report is there. *)
Folded ==
    /\ \A r \in Run : child[r] \in {"fold", "publish", "rewrite"} => r \in Live
    /\ \A r \in Run : child[r] = "publish" => r \in chosen[r]
    /\ \A r \in Live : child[r] \in {"rewrite", "ok"} => r \in final.counted

(* Once a fold has lost a source no fold follows.                          *)
Frozen ==
    \A r \in final.sources \ final.counted :
        r \notin Live /\ \A w \in Run \cup {Queue} : ~Publishing(w)

(* Without a dead child, what is counted and what is on its way to be      *)
(* counted is within the budget.                                           *)
Underway(j) == {r \in Run : r[1] = j /\ child[r] \in {"evaluate", "fold", "publish"}}
NoneFailed(j) == \A n \in LaunchSlots(j) : child[<<j, n>>] # "failed"
WithinBudget ==
    \A j \in Job : NoneFailed(j) => Attempts(j, final.counted \cup Underway(j)) <= MaxTotal

Closed == {"skipped_terminal", "terminal_verdict_conflict"}
Resting == {"queued", "ended"}
ClosedForGood ==
    \A j \in Job : entry[j].status \in Closed => Verdicts(j) # {} /\ worker[j] \in Resting
NoLaunchUnverified ==
    \A j \in Job : parent[j].identity # "verified" => spawned[j] = 0 /\ worker[j] \in Resting

Launched(j) == spawned[j] + (IF worker[j] = "reserved" THEN 1 ELSE 0)
Lost(j) == IF SourceLost(j) THEN 2 ELSE 0
BadSoFar == Cardinality(BadLives[parent] \cap 1..lives)

LaunchesInBadLife ==
    lives \in BadLives[parent] =>
        \A j \in Job : worker[j] # "reserved" /\ spawned[j] <= 2 * BadSoFar + Lost(j)
LaunchesInAll == \A j \in Job : Launched(j) <= 2 * (1 + BadSoFar) + Lost(j)
LaunchesOnRecord ==
    \A j \in Job :
        \/ entry[j].status \in Closed
        \/ entry[j].status = "budget_exhausted" /\ Observed(j) >= MaxTotal
        \/ Launched(j) <= entry[j].launches + 2 * BadSoFar + Lost(j)

BudgetIInv == QueueIInv /\ OnlyReported /\ Folded /\ Frozen /\ WithinBudget
LaunchIInv ==
    /\ parent \in Priors
    /\ ClosedForGood /\ NoLaunchUnverified
    /\ LaunchesInBadLife /\ LaunchesInAll /\ LaunchesOnRecord

-----------------------------------------------------------------------------
(* Counting attempts.                                                      *)

(* Attempts, with the reports they are read from as a parameter.           *)
Count(rep, j, runs) ==
    Cardinality({a \in runs \X (1..MaxEval) : a[1][1] = j /\ a[2] <= rep[a[1]].attempts})

LEMMA RunsAreFinite == \A j \in Job : IsFiniteSet({j} \X LaunchSlots(j))
<1> SUFFICES ASSUME NEW j \in Job PROVE IsFiniteSet({j} \X LaunchSlots(j))
  OBVIOUS
<1>1. IsFiniteSet(LaunchSlots(j))
  <2>1. MaxSlots[j] \in Nat
    BY BoundsAssumption
  <2> QED
    BY <2>1, FS_Interval DEF LaunchSlots
<1>2. IsFiniteSet({j})
  BY FS_Singleton
<1> QED
  BY <1>1, <1>2, FS_Product

LEMMA CountIsFinite ==
    ASSUME NEW rep, NEW j \in Job, NEW runs \in SUBSET Run
    PROVE  /\ IsFiniteSet({a \in runs \X (1..MaxEval) : a[1][1] = j /\ a[2] <= rep[a[1]].attempts})
           /\ Count(rep, j, runs) \in Nat
<1> DEFINE A == {a \in runs \X (1..MaxEval) : a[1][1] = j /\ a[2] <= rep[a[1]].attempts}
           B == ({j} \X LaunchSlots(j)) \X (1..MaxEval)
<1>1. IsFiniteSet(B)
  <2>1. IsFiniteSet(1..MaxEval)
    BY BudgetAssumption, FS_Interval
  <2> QED
    BY <2>1, RunsAreFinite, FS_Product
<1>2. A \in SUBSET B
  <2> SUFFICES ASSUME NEW a \in A PROVE a \in B
    OBVIOUS
  <2>1. a = <<a[1], a[2]>> /\ a[1] \in runs /\ a[2] \in 1..MaxEval /\ a[1][1] = j
    OBVIOUS
  <2>2. a[1] \in {j} \X LaunchSlots(j)
    <3>1. PICK i \in Job : a[1] \in {i} \X LaunchSlots(i)
      BY <2>1 DEF Run
    <3>2. i = j
      BY <2>1, <3>1
    <3> QED
      BY <3>1, <3>2
  <2> QED
    BY <2>1, <2>2
<1>3. IsFiniteSet(A)
  <2> HIDE DEF A, B
  <2> QED
    BY <1>1, <1>2, FS_Subset
<1>4. Cardinality(A) \in Nat
  <2> HIDE DEF A
  <2> QED
    BY <1>3, FS_CardinalityType
<1> QED
  BY <1>3, <1>4 DEF Count

(* More reports of a job show at least as many attempts.                   *)
LEMMA CountGrows ==
    ASSUME NEW rep, NEW rep2, NEW j \in Job, NEW runs \in SUBSET Run, NEW more \in SUBSET Run,
           \A r \in runs : r[1] = j => r \in more /\ rep2[r].attempts = rep[r].attempts
    PROVE  Count(rep, j, runs) <= Count(rep2, j, more)
<1> DEFINE A == {a \in runs \X (1..MaxEval) : a[1][1] = j /\ a[2] <= rep[a[1]].attempts}
           B == {a \in more \X (1..MaxEval) : a[1][1] = j /\ a[2] <= rep2[a[1]].attempts}
<1>1. A \in SUBSET B
  OBVIOUS
<1>2. IsFiniteSet(B)
  BY CountIsFinite
<1>3. Cardinality(A) <= Cardinality(B)
  <2> HIDE DEF A, B
  <2> QED
    BY <1>1, <1>2, FS_Subset
<1> QED
  BY <1>3 DEF Count

(* One more report adds its own attempts at most.                          *)
LEMMA CountAdds ==
    ASSUME NEW rep, NEW j \in Job, NEW runs \in SUBSET Run, NEW r \in Run, NEW n \in Nat,
           rep[r].attempts = n
    PROVE  Count(rep, j, runs \cup {r}) <= Count(rep, j, runs) + n
<1> DEFINE A == {a \in runs \X (1..MaxEval) : a[1][1] = j /\ a[2] <= rep[a[1]].attempts}
           B == {a \in (runs \cup {r}) \X (1..MaxEval) : a[1][1] = j /\ a[2] <= rep[a[1]].attempts}
           C == {r} \X (1..n)
<1>1. B \in SUBSET (A \cup C)
  <2> SUFFICES ASSUME NEW a \in B PROVE a \in A \/ a \in C
    OBVIOUS
  <2>1. a = <<a[1], a[2]>> /\ a[1] \in runs \cup {r} /\ a[2] \in 1..MaxEval
    OBVIOUS
  <2>2. CASE a[1] \in runs
    BY <2>1, <2>2
  <2>3. CASE a[1] = r
    BY <2>1, <2>3, BudgetAssumption
  <2> QED
    BY <2>1, <2>2, <2>3
<1>2. IsFiniteSet(A) /\ Cardinality(A) \in Nat
  BY CountIsFinite DEF Count
<1>3. IsFiniteSet(C) /\ Cardinality(C) = n
  <2>1. IsFiniteSet(1..n) /\ Cardinality(1..n) = n
    BY FS_Interval
  <2>2. IsFiniteSet({r}) /\ Cardinality({r}) = 1
    BY FS_Singleton
  <2>3. IsFiniteSet(C) /\ Cardinality(C) = 1 * n
    BY <2>1, <2>2, FS_Product
  <2> QED
    BY <2>3
<1>4. Cardinality(B) <= Cardinality(A) + n
  <2> HIDE DEF A, B, C
  <2>1. /\ IsFiniteSet(A \cup C)
        /\ Cardinality(A \cup C) = Cardinality(A) + Cardinality(C) - Cardinality(A \cap C)
    BY <1>2, <1>3, FS_Union
  <2>2. Cardinality(A \cap C) \in Nat
    <3>1. IsFiniteSet(A \cap C)
      BY <1>2, FS_Intersection
    <3> QED
      BY <3>1, FS_CardinalityType
  <2>3. Cardinality(B) <= Cardinality(A \cup C) /\ IsFiniteSet(B)
    BY <1>1, <2>1, FS_Subset
  <2>4. Cardinality(B) \in Nat
    BY <2>3, FS_CardinalityType
  <2> QED
    BY <1>2, <1>3, <2>1, <2>2, <2>3, <2>4
<1> QED
  BY <1>4 DEF Count

LEMMA RunParts == \A q \in Run : q[1] \in Job /\ \E n \in LaunchSlots(q[1]) : q = <<q[1], n>>
BY DEF Run

LEMMA LiveIsReported ==
    ASSUME QueueIInv
    PROVE  \A q \in Live : q \in Run /\ Reported(q)
BY DEF QueueIInv, InOrder, Live, Reported

(* What a fold drops is not there any more, and what it adds was on its    *)
(* way.                                                                    *)
LEMMA FoldCounts ==
    ASSUME BudgetIInv, NEW w \in Run \cup {Queue}, Publishing(w), Fold(w)
    PROVE  /\ final'.sources = chosen[w] /\ final'.counted = chosen[w] \cap Live
           /\ final.counted \cap Live \subseteq final'.counted
           /\ \A j \in Job : NoneFailed(j) =>
                  \A q \in final'.counted : q[1] = j => q \in final.counted \cup Underway(j)
<1>1. final' = [sources |-> chosen[w], counted |-> chosen[w] \cap Live]
  BY DEF Fold
<1>2. final.counted \subseteq chosen[w]
  BY DEF BudgetIInv, QueueIInv, OneFold
<1>3. ASSUME NEW j \in Job, NoneFailed(j), NEW q \in chosen[w] \cap Live, q[1] = j
      PROVE  q \in final.counted \cup Underway(j)
  <2>1. q \in Run /\ Reported(q)
    BY <1>3, LiveIsReported DEF BudgetIInv
  <2>2. child[q] # "failed"
    <3>1. PICK n \in LaunchSlots(j) : q = <<j, n>>
      BY <1>3, <2>1, RunParts
    <3> QED
      BY <1>3, <3>1 DEF NoneFailed
  <2>3. child[q] \in {"fold", "publish", "rewrite", "ok"}
    BY <2>1, <2>2, QueueParts DEF BudgetIInv, Reported, InTaskLock
  <2> QED
    BY <1>3, <2>1, <2>3 DEF BudgetIInv, Folded, Underway
<1> QED
  BY <1>1, <1>2, <1>3

(* A job's budget is kept while its runs only settle.                      *)
LEMMA BudgetKept ==
    ASSUME BudgetIInv, NEW j \in Job, NoneFailed(j), UNCHANGED parent,
           QueueTypeOK',
           \A q \in final'.counted \cup Underway(j)' : q[1] = j =>
               q \in final.counted \cup Underway(j) /\ report'[q].attempts = report[q].attempts
    PROVE  Attempts(j, final.counted \cup Underway(j))' <= MaxTotal
<1>1. final.counted \cup Underway(j) \in SUBSET Run
  BY QueueParts DEF BudgetIInv, Underway
<1>2. final'.counted \cup Underway(j)' \in SUBSET Run
  BY DEF QueueTypeOK, Underway
<1>3. Count(report', j, final'.counted \cup Underway(j)') <= Count(report, j, final.counted \cup Underway(j))
  <2> DEFINE S == final'.counted \cup Underway(j)'
             T == final.counted \cup Underway(j)
  <2>1. \A q \in S : q[1] = j => q \in T /\ report[q].attempts = report'[q].attempts
    OBVIOUS
  <2> HIDE DEF S, T
  <2> QED
    BY <1>1, <1>2, <2>1, CountGrows DEF S, T
<1>4. parent[j].attempts + Count(report, j, final.counted \cup Underway(j)) <= MaxTotal
  BY DEF BudgetIInv, WithinBudget, Attempts, Shown, Count
<1>5. /\ Count(report, j, final.counted \cup Underway(j)) \in Nat
      /\ Count(report', j, final'.counted \cup Underway(j)') \in Nat
  BY <1>1, <1>2, CountIsFinite
<1>6. parent[j].attempts \in Nat
  BY QueueTypes DEF BudgetIInv, QueueIInv, Prior
<1>7. Attempts(j, final.counted \cup Underway(j))'
        = parent[j].attempts + Count(report', j, final'.counted \cup Underway(j)')
  BY DEF Attempts, Shown, Count
<1> QED
  BY <1>3, <1>4, <1>5, <1>6, <1>7, BudgetAssumption

(* What a step of a child changes.                                         *)
LEMMA ChildChanges ==
    ASSUME QueueIInv, NEW r \in Run, ChildStep(r) \/ ChildDies(r)
    PROVE  /\ UNCHANGED <<parent, entry, main, lives, worker, spawned, judged>>
           /\ \A q \in Run \ {r} : child'[q] = child[q] /\ report'[q] = report[q]
           /\ \A w \in (Run \cup {Queue}) \ {r} : chosen'[w] = chosen[w]
           /\ \A q \in Run : child[q] # "lock" => report'[q].attempts = report[q].attempts
           /\ \A q \in Run : q # r \/ child[r] # "evaluate" => (q \in Live' <=> q \in Live)
<1>1. UNCHANGED <<parent, entry, main, lives, worker, spawned, judged>>
  BY DEF ChildStep, ChildDies, ChildTakesLock, ChildFindsBudgetSpent, ChildEvaluates, ChildSelects,
         ChildMissesSource, ChildPublishes, ChildExits, disk
<1>2. /\ \A q \in Run \ {r} : child'[q] = child[q] /\ report'[q] = report[q]
      /\ \A w \in (Run \cup {Queue}) \ {r} : chosen'[w] = chosen[w]
  BY QueueParts DEF ChildStep, ChildDies, ChildTakesLock, ChildFindsBudgetSpent, ChildEvaluates, ChildSelects,
     ChildMissesSource, ChildPublishes, ChildExits, Goes, Select, Fold, disk
<1>3. CASE ChildTakesLock(r)
  <2>1. child[r] = "lock"
    BY <1>3 DEF ChildTakesLock
  <2>2. PICK y \in Report : report' = [report EXCEPT ![r] = y] /\ y.place = report[r].place
    BY <1>3, BudgetTaken, QueueParts
  <2> QED
    BY <1>1, <1>2, <2>1, <2>2, QueueParts DEF Live
<1>4. CASE ChildEvaluates(r)
  <2>1. child[r] = "evaluate"
    BY <1>4 DEF ChildEvaluates
  <2>2. PICK says : report' = [report EXCEPT ![r].says = says, ![r].place = "live"]
    BY <1>4 DEF ChildEvaluates
  <2> DEFINE y == [report[r] EXCEPT !.says = says, !.place = "live"]
  <2>3. report[r] \in Report
    BY QueueParts
  <2>4. y.attempts = report[r].attempts
    BY <2>3 DEF Report
  <2>5. report' = [report EXCEPT ![r] = y]
    BY <2>2
  <2> HIDE DEF y
  <2> QED
    BY <1>1, <1>2, <2>1, <2>4, <2>5, QueueParts DEF Live
<1>5. CASE UNCHANGED report
  BY <1>1, <1>2, <1>5 DEF Live
<1> QED
  BY <1>3, <1>4, <1>5 DEF ChildStep, ChildDies, ChildFindsBudgetSpent, ChildSelects,
     ChildMissesSource, ChildPublishes, ChildExits, disk

LEMMA ChildBudget ==
    ASSUME BudgetIInv, NEW r \in Run, ChildStep(r) \/ ChildDies(r)
    PROVE  BudgetIInv'
<1>1. QueueIInv'
  BY ChildHolds DEF BudgetIInv
<1>2. /\ UNCHANGED <<parent, entry, main, lives, worker, spawned, judged>>
      /\ \A q \in Run \ {r} : child'[q] = child[q] /\ report'[q] = report[q]
      /\ \A w \in (Run \cup {Queue}) \ {r} : chosen'[w] = chosen[w]
      /\ \A q \in Run : child[q] # "lock" => report'[q].attempts = report[q].attempts
      /\ \A q \in Run : q # r \/ child[r] # "evaluate" => (q \in Live' <=> q \in Live)
  BY ChildChanges DEF BudgetIInv
<1>3. /\ child \in [Run -> InTaskLock \cup {"none", "lock", "ok", "failed"}]
      /\ chosen \in [Run \cup {Queue} -> SUBSET Run]
      /\ final.sources \subseteq Run /\ final.counted \subseteq Run /\ Queue \notin Run
      /\ \A q \in Live : q \in Run /\ Reported(q)
  BY QueueParts, LiveIsReported DEF BudgetIInv
<1>4. \A q \in Run : Reported(q) => Reported(q)'
  <2>1. Reported(r) => Reported(r)'
    BY <1>3 DEF Reported, ChildStep, ChildDies, ChildTakesLock, ChildFindsBudgetSpent, ChildEvaluates,
       ChildSelects, ChildMissesSource, ChildPublishes, ChildExits, Goes, InTaskLock
  <2> QED
    BY <1>2, <2>1 DEF Reported
<1>5. UNCHANGED final \/ ChildPublishes(r)
  BY DEF ChildStep, ChildDies, ChildTakesLock, ChildFindsBudgetSpent, ChildEvaluates, ChildSelects,
         ChildMissesSource, ChildExits, disk
<1>6. ASSUME ChildPublishes(r)
      PROVE  /\ child[r] = "publish" /\ child'[r] = "rewrite"
             /\ final'.sources = chosen[r] /\ final'.counted = chosen[r] \cap Live
             /\ final.counted \cap Live \subseteq final'.counted
             /\ \A j \in Job : NoneFailed(j) =>
                    \A q \in final'.counted : q[1] = j => q \in final.counted \cup Underway(j)
             /\ UNCHANGED Live /\ \A w \in Run \cup {Queue} : ~Publishing(w)'
  <2>1. child[r] = "publish" /\ child'[r] = "rewrite" /\ Publishing(r) /\ Fold(r) /\ UNCHANGED report
    BY <1>3, <1>6 DEF ChildPublishes, Goes, Publishing
  <2>2. UNCHANGED Live
    BY <2>1 DEF Live
  <2>3. \A w \in Run \cup {Queue} : Publishing(w)' => Publishing(w)
    BY <1>2, <1>3, <2>1 DEF Publishing
  <2>4. ~Publishing(r)'
    BY <1>3, <2>1 DEF Publishing
  <2>5. \A w \in Run \cup {Queue} : ~Publishing(w)'
    BY <2>1, <2>3, <2>4 DEF BudgetIInv, QueueIInv, OneFold
  <2> QED
    BY <2>1, <2>2, <2>5, FoldCounts
<1>7. OnlyReported'
  <2>1. final'.sources \subseteq final.sources \cup chosen[r]
    BY <1>5, <1>6
  <2>2. chosen'[r] \subseteq chosen[r] \cup Live \cup final.sources
    BY <1>3 DEF ChildStep, ChildDies, ChildTakesLock, ChildFindsBudgetSpent, ChildEvaluates, ChildSelects,
       ChildMissesSource, ChildPublishes, ChildExits, Select, Fold
  <2>3. /\ \A q \in final.sources : Reported(q)
        /\ \A w \in Run \cup {Queue} : \A q \in chosen[w] : Reported(q)
    BY DEF BudgetIInv, OnlyReported
  <2>4. ASSUME NEW w \in Run \cup {Queue}, NEW q \in chosen'[w] PROVE Reported(q)'
    <3>1. q \in chosen[w] \/ q \in Live \/ q \in final.sources
      BY <1>2, <2>2, <2>4
    <3> QED
      BY <1>3, <1>4, <2>3, <3>1
  <2>5. \A q \in final'.sources : Reported(q)'
    BY <1>3, <1>4, <2>1, <2>3
  <2> QED
    BY <2>4, <2>5 DEF OnlyReported
<1>8. Folded'
  <2>1. /\ \A q \in Run : child[q] \in {"fold", "publish", "rewrite"} => q \in Live
        /\ \A q \in Run : child[q] = "publish" => q \in chosen[q]
        /\ \A q \in Live : child[q] \in {"rewrite", "ok"} => q \in final.counted
    BY DEF BudgetIInv, Folded
  <2>2. child'[r] \in {"fold", "publish", "rewrite"} => r \in Live'
    <3>1. CASE ChildEvaluates(r)
      <4>1. PICK says : report' = [report EXCEPT ![r].says = says, ![r].place = "live"]
        BY <3>1 DEF ChildEvaluates
      <4>2. report \in [Run -> Report]
        BY QueueParts DEF BudgetIInv
      <4>3. report'[r].place = "live"
        BY <4>1, <4>2 DEF Report
      <4> QED
        BY <4>3 DEF Live
    <3>2. CASE ~ChildEvaluates(r)
      <4>1. child'[r] \in {"fold", "publish", "rewrite"} => child[r] \in {"fold", "publish"}
        BY <1>3, <3>2 DEF ChildStep, ChildDies, ChildTakesLock, ChildFindsBudgetSpent,
           ChildSelects, ChildMissesSource, ChildPublishes, ChildExits, Goes
      <4> QED
        BY <1>2, <2>1, <4>1
    <3> QED
      BY <3>1, <3>2
  <2>3. child'[r] = "publish" => r \in chosen'[r]
    <3>1. child'[r] = "publish" => ChildSelects(r)
      BY <1>3 DEF ChildStep, ChildDies, ChildTakesLock, ChildFindsBudgetSpent, ChildEvaluates,
         ChildMissesSource, ChildPublishes, ChildExits, Goes
    <3>2. ChildSelects(r) => r \in Live /\ chosen'[r] = Live \cup final.sources
      BY <1>3, <2>1 DEF ChildSelects, Select
    <3> QED
      BY <3>1, <3>2
  <2>4. child'[r] \in {"rewrite", "ok"} => ChildPublishes(r) \/ child[r] = "rewrite"
    BY <1>3 DEF ChildStep, ChildDies, ChildTakesLock, ChildFindsBudgetSpent, ChildEvaluates,
       ChildSelects, ChildMissesSource, ChildExits, Goes
  <2>5. ASSUME NEW q \in Live', child'[q] \in {"rewrite", "ok"} PROVE q \in final'.counted
    <3>1. q \in Run /\ (q # r \/ child[r] # "evaluate")
      BY <1>6, <2>4, <2>5 DEF Live
    <3>2. q \in Live
      BY <1>2, <2>5, <3>1
    <3>3. CASE ChildPublishes(r) /\ q = r
      BY <1>6, <2>1, <3>1, <3>2, <3>3
    <3>4. CASE ~(ChildPublishes(r) /\ q = r)
      <4>1. child[q] \in {"rewrite", "ok"}
        BY <1>2, <2>4, <2>5, <3>1, <3>4
      <4> QED
        BY <1>5, <1>6, <2>1, <3>2, <4>1
    <3> QED
      BY <3>3, <3>4
  <2>6. \A q \in Run : child'[q] \in {"fold", "publish", "rewrite"} => q \in Live'
    BY <1>2, <2>1, <2>2
  <2>7. \A q \in Run : child'[q] = "publish" => q \in chosen'[q]
    BY <1>2, <2>1, <2>3
  <2> QED
    BY <2>5, <2>6, <2>7 DEF Folded
<1>9. Frozen'
  <2> SUFFICES ASSUME NEW q \in final'.sources \ final'.counted
               PROVE  q \notin Live' /\ \A w \in Run \cup {Queue} : ~Publishing(w)'
    BY DEF Frozen
  <2>1. CASE ChildPublishes(r)
    BY <1>6, <2>1
  <2>2. CASE UNCHANGED final
    <3>1. q \notin Live /\ \A w \in Run \cup {Queue} : ~Publishing(w)
      BY <2>2 DEF BudgetIInv, Frozen
    <3>2. q \in Run /\ Reported(q)
      BY <1>3, <2>2 DEF BudgetIInv, OnlyReported
    <3>3. q \notin Live'
      BY <1>2, <3>1, <3>2 DEF Reported
    <3>4. ~ChildSelects(r)
      BY <2>2, <3>1 DEF ChildSelects, Selectable
    <3>5. child'[r] # "publish"
      BY <1>3, <3>1, <3>4 DEF Publishing, ChildStep, ChildDies, ChildTakesLock, ChildFindsBudgetSpent,
         ChildEvaluates, ChildMissesSource, ChildPublishes, ChildExits, Goes
    <3>6. \A w \in Run \cup {Queue} : ~Publishing(w)'
      BY <1>2, <1>3, <3>1, <3>5 DEF Publishing
    <3> QED
      BY <3>3, <3>6
  <2> QED
    BY <1>5, <2>1, <2>2
<1>10. WithinBudget'
  <2> SUFFICES ASSUME NEW j \in Job, NoneFailed(j)'
               PROVE  Attempts(j, final.counted \cup Underway(j))' <= MaxTotal
    BY DEF WithinBudget
  <2>1. NoneFailed(j)
    <3>1. child[r] # "failed"
      BY DEF ChildStep, ChildDies, ChildTakesLock, ChildFindsBudgetSpent, ChildEvaluates, ChildSelects,
             ChildMissesSource, ChildPublishes, ChildExits, InTaskLock
    <3> QED
      BY <1>2, <3>1, RunsOfJobs DEF NoneFailed, LaunchSlots
  <2>2. \A q \in final.counted \cup Underway(j) : q \in Run /\ child[q] # "lock"
    BY <1>3 DEF BudgetIInv, QueueIInv, OneFold, OnlyReported, Reported, Underway
  <2>3. CASE ~(ChildTakesLock(r) /\ r[1] = j)
    <3>1. \A q \in Underway(j)' : q \in Underway(j)
      <4>1. r \in Underway(j)' => r \in Underway(j)
        BY <1>3, <2>3 DEF Underway, ChildStep, ChildDies, ChildTakesLock, ChildFindsBudgetSpent,
           ChildEvaluates, ChildSelects, ChildMissesSource, ChildPublishes, ChildExits, Goes
      <4> QED
        BY <1>2, <4>1 DEF Underway
    <3>2. \A q \in final'.counted : q[1] = j => q \in final.counted \cup Underway(j)
      BY <1>5, <1>6, <2>1
    <3>3. \A q \in final'.counted \cup Underway(j)' : q[1] = j =>
               q \in final.counted \cup Underway(j) /\ report'[q].attempts = report[q].attempts
      BY <1>2, <2>2, <3>1, <3>2
    <3> QED
      BY <1>1, <1>2, <2>1, <3>3, BudgetKept DEF QueueIInv
  <2>4. CASE ChildTakesLock(r) /\ r[1] = j
    <3>1. PICK n \in 1..MaxEval : \E y \in Report :
               /\ report' = [report EXCEPT ![r] = y] /\ y.attempts = n
               /\ Observed(j) + n <= MaxTotal
      BY <2>4, BudgetTaken, QueueParts DEF BudgetIInv
    <3>2. report'[r].attempts = n
      BY <3>1, QueueParts DEF BudgetIInv
    <3>3. final' = final /\ child[r] = "lock" /\ TaskLockFree(j)
      BY <2>4 DEF ChildTakesLock
    <3>4. Underway(j)' \subseteq {r}
      <4> SUFFICES ASSUME NEW q \in Underway(j)', q # r PROVE FALSE
        OBVIOUS
      <4>1. q \in Run /\ q[1] = j /\ child[q] \in InTaskLock
        BY <1>2 DEF Underway, InTaskLock
      <4>2. PICK m \in LaunchSlots(j) : q = <<j, m>>
        BY <4>1, RunParts
      <4> QED
        BY <3>3, <4>1, <4>2 DEF TaskLockFree
    <3> DEFINE S == final.counted
               H == Underway(j)'
    <3>5. S \in SUBSET Run /\ H \in SUBSET Run /\ S \cup {r} \in SUBSET Run /\ n \in Nat
      BY <1>3 DEF Underway
    <3>6. \A q \in S : report'[q].attempts = report[q].attempts
      BY <1>2, <2>2
    <3> HIDE DEF S, H
    <3>7. Count(report', j, S \cup H) <= Count(report', j, S \cup {r})
      <4>1. H \subseteq {r}
        BY <3>4 DEF H
      <4> QED
        BY <3>5, <4>1, CountGrows
    <3>8. Count(report', j, S \cup {r}) <= Count(report', j, S) + n
      BY <3>2, <3>5, CountAdds
    <3>9. Count(report', j, S) <= Count(report, j, S)
      BY <3>5, <3>6, CountGrows
    <3>10. parent[j].attempts + Count(report, j, S) + n <= MaxTotal
      BY <3>1 DEF Observed, Attempts, Shown, Count, S
    <3>11. Attempts(j, final.counted \cup Underway(j))' = parent[j].attempts + Count(report', j, S \cup H)
      BY <1>2, <3>3 DEF Attempts, Shown, Count, S, H
    <3>12. /\ Count(report', j, S \cup H) \in Nat /\ Count(report', j, S \cup {r}) \in Nat
           /\ Count(report', j, S) \in Nat /\ Count(report, j, S) \in Nat
      BY <3>5, CountIsFinite
    <3>13. parent[j].attempts \in Nat
      BY QueueTypes DEF BudgetIInv, QueueIInv, Prior
    <3> QED
      BY <3>5, <3>7, <3>8, <3>9, <3>10, <3>11, <3>12, <3>13, BudgetAssumption
  <2> QED
    BY <2>3, <2>4
<1> QED
  BY <1>1, <1>7, <1>8, <1>9, <1>10 DEF BudgetIInv

(* What a step of a job changes: it starts its next child, or sets aside   *)
(* the report of one that has ended.                                       *)
LEMMA JobChanges ==
    ASSUME QueueIInv, NEW j \in Job, RunJob(j)
    PROVE  /\ main = "pool" /\ UNCHANGED <<parent, main, lives, chosen, final>>
           /\ \A k \in Job \ {j} : entry'[k] = entry[k] /\ worker'[k] = worker[k] /\ spawned'[k] = spawned[k]
           /\ \A q \in Run : child'[q] = child[q] \/ (child[q] = "none" /\ child'[q] = "lock")
           /\ \A q \in Run : report'[q].attempts = report[q].attempts /\ report'[q].says = report[q].says
           /\ Live' \subseteq Live
           /\ \A q \in Live \ Live' : child[q] \in {"ok", "failed"} /\ q[1] = j /\ RejectReport(j)
<1>1. main = "pool" /\ UNCHANGED <<parent, main, lives, chosen, final>>
  BY DEF RunJob, Decide, Unidentified, FindsConflict, FindsTerminal, FindsNothing, BudgetSpent,
         InvalidTimeout, LaunchesSpent, ReserveLaunch, Spawn, SpawnFails, Conclude, AcceptReport,
         RejectReport, PersistRejection, NoVerdict, Running, Collected, disk
<1>2. \A k \in Job \ {j} : entry'[k] = entry[k] /\ worker'[k] = worker[k] /\ spawned'[k] = spawned[k]
  BY QueueParts
     DEF RunJob, Decide, Unidentified, FindsConflict, FindsTerminal, FindsNothing, BudgetSpent,
         InvalidTimeout, LaunchesSpent, ReserveLaunch, Spawn, SpawnFails, Conclude, AcceptReport,
         RejectReport, PersistRejection, NoVerdict, Persist, EndsAs, Put, At
<1>3. /\ UNCHANGED report \/ RejectReport(j)
      /\ UNCHANGED child \/ Spawn(j)
  BY DEF RunJob, Decide, Unidentified, FindsConflict, FindsTerminal, FindsNothing, BudgetSpent,
         InvalidTimeout, LaunchesSpent, ReserveLaunch, Spawn, SpawnFails, Conclude, AcceptReport,
         RejectReport, PersistRejection, NoVerdict, disk
<1>4. \A q \in Run : child'[q] = child[q] \/ (child[q] = "none" /\ child'[q] = "lock")
  <2>1. CASE Spawn(j)
    <3> DEFINE r == <<j, spawned[j] + 1>>
    <3>1. spawned[j] + 1 \in LaunchSlots(j) /\ child' = [child EXCEPT ![r] = "lock"]
      BY <2>1 DEF Spawn, Goes
    <3>2. r \in Run /\ child[r] = "none"
      BY <3>1, QueueParts, RunsOfJobs DEF QueueIInv, InOrder
    <3> QED
      BY <3>1, <3>2, QueueParts
  <2> QED
    BY <1>3, <2>1
<1>5. CASE UNCHANGED report
  BY <1>1, <1>2, <1>4, <1>5 DEF Live
<1>6. CASE RejectReport(j)
  <2>1. /\ Launch(j) \in Run /\ Launch(j)[1] = j /\ child[Launch(j)] \in {"ok", "failed"}
        /\ report' = [report EXCEPT ![Launch(j)].place = "aside"]
    BY <1>6 DEF RejectReport, Collected, TerminalRuns, Live, SetAside, Launch
  <2> DEFINE y == [report[Launch(j)] EXCEPT !.place = "aside"]
  <2>2. report[Launch(j)] \in Report
    BY <2>1, QueueParts
  <2>3. /\ y.place = "aside" /\ y.attempts = report[Launch(j)].attempts
        /\ y.says = report[Launch(j)].says
    BY <2>2 DEF Report
  <2>4. report' = [report EXCEPT ![Launch(j)] = y]
    BY <2>1
  <2> HIDE DEF y
  <2>5. /\ \A q \in Run \ {Launch(j)} : report'[q] = report[q]
        /\ report'[Launch(j)] = y
    BY <2>1, <2>4, QueueParts
  <2>6. /\ \A q \in Run : report'[q].attempts = report[q].attempts /\ report'[q].says = report[q].says
        /\ Live' \subseteq Live /\ \A q \in Live \ Live' : q = Launch(j)
    BY <2>3, <2>5 DEF Live
  <2> QED
    BY <1>1, <1>2, <1>4, <1>6, <2>1, <2>6
<1> QED
  BY <1>3, <1>5, <1>6

LEMMA JobBudget ==
    ASSUME BudgetIInv, NEW j \in Job, RunJob(j)
    PROVE  BudgetIInv'
<1>1. QueueIInv'
  BY JobHolds DEF BudgetIInv
<1>2. /\ main = "pool" /\ UNCHANGED <<parent, main, lives, chosen, final>>
      /\ \A q \in Run : child'[q] = child[q] \/ (child[q] = "none" /\ child'[q] = "lock")
      /\ \A q \in Run : report'[q].attempts = report[q].attempts
      /\ Live' \subseteq Live /\ \A q \in Live \ Live' : child[q] \in {"ok", "failed"}
  BY JobChanges DEF BudgetIInv
<1>3. /\ chosen \in [Run \cup {Queue} -> SUBSET Run]
      /\ final.sources \subseteq Run /\ final.counted \subseteq Run /\ Queue \notin Run
      /\ Live \subseteq Run
  BY QueueParts DEF BudgetIInv, Live
<1>4. OnlyReported'
  BY <1>2, <1>3 DEF BudgetIInv, OnlyReported, Reported
<1>5. Folded'
  <2>1. /\ \A q \in Run : child[q] \in {"fold", "publish", "rewrite"} => q \in Live
        /\ \A q \in Run : child[q] = "publish" => q \in chosen[q]
        /\ \A q \in Live : child[q] \in {"rewrite", "ok"} => q \in final.counted
    BY DEF BudgetIInv, Folded
  <2>2. \A q \in Run : child'[q] \in {"fold", "publish", "rewrite"} => q \in Live'
    BY <1>2, <2>1
  <2>3. \A q \in Run : child'[q] = "publish" => q \in chosen'[q]
    BY <1>2, <2>1
  <2>4. \A q \in Live' : child'[q] \in {"rewrite", "ok"} => q \in final'.counted
    BY <1>2, <1>3, <2>1
  <2> QED
    BY <2>2, <2>3, <2>4 DEF Folded
<1>6. Frozen'
  <2>1. \A w \in Run \cup {Queue} : Publishing(w)' => Publishing(w)
    BY <1>2 DEF Publishing
  <2> QED
    BY <1>2, <2>1 DEF BudgetIInv, Frozen
<1>7. WithinBudget'
  <2> SUFFICES ASSUME NEW k \in Job, NoneFailed(k)'
               PROVE  Attempts(k, final.counted \cup Underway(k))' <= MaxTotal
    BY DEF WithinBudget
  <2>1. NoneFailed(k)
    BY <1>2, RunsOfJobs DEF NoneFailed, LaunchSlots
  <2>2. \A q \in Underway(k)' : q \in Underway(k) /\ q \in Run
    BY <1>2 DEF Underway
  <2>3. \A q \in final'.counted \cup Underway(k)' : q[1] = k =>
             q \in final.counted \cup Underway(k) /\ report'[q].attempts = report[q].attempts
    BY <1>2, <1>3, <2>2
  <2> QED
    BY <1>1, <1>2, <2>1, <2>3, BudgetKept DEF QueueIInv
<1> QED
  BY <1>1, <1>4, <1>5, <1>6, <1>7 DEF BudgetIInv

LEMMA ProcessBudget ==
    ASSUME BudgetIInv, Refresh \/ Start \/ Crash
    PROVE  BudgetIInv'
<1>1. QueueIInv'
  BY QueueProcessHolds DEF BudgetIInv
<1>2. /\ UNCHANGED <<parent, child, report>> /\ UNCHANGED Live
      /\ \A j \in Job : UNCHANGED Underway(j) /\ UNCHANGED NoneFailed(j)
      /\ \A q : UNCHANGED Reported(q)
  BY DEF Refresh, LeaveFinal, RefreshSelects, RefreshMissesSource, RefreshPublishes, Start, Crash, disk,
         Live, Underway, NoneFailed, LaunchSlots, Reported
<1>3. /\ chosen \in [Run \cup {Queue} -> SUBSET Run]
      /\ final.sources \subseteq Run /\ final.counted \subseteq Run /\ Queue \notin Run
      /\ \A q \in Live : q \in Run /\ Reported(q)
  BY QueueParts, LiveIsReported DEF BudgetIInv
<1>4. \A w \in Run : chosen'[w] = chosen[w] /\ (Publishing(w)' <=> Publishing(w))
  BY <1>2, <1>3 DEF Publishing, Refresh, LeaveFinal, RefreshSelects, RefreshMissesSource, RefreshPublishes,
     Start, Crash, Select, Fold, disk
<1>5. chosen'[Queue] \subseteq chosen[Queue] \cup Live \cup final.sources
  BY <1>3 DEF Refresh, LeaveFinal, RefreshSelects, RefreshMissesSource, RefreshPublishes, Start, Crash,
     Select, Fold, disk
<1>6. UNCHANGED final \/ RefreshPublishes
  BY DEF Refresh, LeaveFinal, RefreshSelects, RefreshMissesSource, Start, Crash, disk
<1>7. ASSUME RefreshPublishes
      PROVE  /\ final'.sources = chosen[Queue] /\ final'.counted = chosen[Queue] \cap Live
             /\ final.counted \cap Live \subseteq final'.counted
             /\ \A j \in Job : NoneFailed(j) =>
                    \A q \in final'.counted : q[1] = j => q \in final.counted \cup Underway(j)
             /\ \A w \in Run \cup {Queue} : ~Publishing(w)'
  <2>1. Publishing(Queue) /\ ~Publishing(Queue)' /\ Fold(Queue)
    BY <1>7 DEF RefreshPublishes, Publishing
  <2>2. \A w \in Run \cup {Queue} : ~Publishing(w)'
    BY <1>3, <1>4, <2>1 DEF BudgetIInv, QueueIInv, OneFold
  <2> QED
    BY <2>1, <2>2, FoldCounts
<1>8. OnlyReported'
  <2>1. /\ \A q \in final.sources : Reported(q)
        /\ \A w \in Run \cup {Queue} : \A q \in chosen[w] : Reported(q)
    BY DEF BudgetIInv, OnlyReported
  <2>2. \A q \in final'.sources : Reported(q)'
    BY <1>2, <1>6, <1>7, <2>1
  <2>3. \A w \in Run \cup {Queue} : \A q \in chosen'[w] : Reported(q)'
    BY <1>2, <1>3, <1>4, <1>5, <2>1
  <2> QED
    BY <2>2, <2>3 DEF OnlyReported
<1>9. Folded'
  <2>1. final.counted \cap Live \subseteq final'.counted
    BY <1>6, <1>7
  <2> QED
    BY <1>2, <1>4, <2>1 DEF BudgetIInv, Folded
<1>10. Frozen'
  <2> SUFFICES ASSUME NEW q \in final'.sources \ final'.counted
               PROVE  q \notin Live' /\ \A w \in Run \cup {Queue} : ~Publishing(w)'
    BY DEF Frozen
  <2>1. CASE RefreshPublishes
    BY <1>2, <1>7, <2>1
  <2>2. CASE UNCHANGED final /\ ~RefreshPublishes
    <3>1. q \notin Live /\ \A w \in Run \cup {Queue} : ~Publishing(w)
      BY <2>2 DEF BudgetIInv, Frozen
    <3>2. ~RefreshSelects
      BY <2>2, <3>1 DEF RefreshSelects, Selectable
    <3>3. ~Publishing(Queue)'
      BY <2>2, <3>1, <3>2 DEF Publishing, Refresh, LeaveFinal, RefreshMissesSource, Start, Crash
    <3> QED
      BY <1>2, <1>4, <3>1, <3>3
  <2> QED
    BY <1>6, <2>1, <2>2
<1>11. WithinBudget'
  <2> SUFFICES ASSUME NEW j \in Job, NoneFailed(j)
               PROVE  Attempts(j, final.counted \cup Underway(j))' <= MaxTotal
    BY <1>2 DEF WithinBudget
  <2>1. \A q \in final'.counted \cup Underway(j)' : q[1] = j =>
             q \in final.counted \cup Underway(j) /\ report'[q].attempts = report[q].attempts
    BY <1>2, <1>6, <1>7
  <2> QED
    BY <1>1, <1>2, <2>1, BudgetKept DEF QueueIInv
<1> QED
  BY <1>1, <1>8, <1>9, <1>10, <1>11 DEF BudgetIInv

LEMMA BudgetStutters ==
    ASSUME BudgetIInv, UNCHANGED queueVars
    PROVE  BudgetIInv'
<1>1. UNCHANGED <<parent, entry, main, lives, worker, spawned, child, report, chosen, final, judged>>
  BY DEF queueVars, disk
<1>2. QueueIInv'
  BY QueueStutters DEF BudgetIInv
<1>3. OnlyReported' /\ Folded' /\ Frozen'
  BY <1>1 DEF BudgetIInv, OnlyReported, Folded, Frozen, Reported, Publishing, Live
<1>4. WithinBudget'
  BY <1>1 DEF BudgetIInv, WithinBudget, NoneFailed, LaunchSlots, Attempts, Shown, Underway
<1> QED
  BY <1>2, <1>3, <1>4 DEF BudgetIInv

LEMMA BudgetInitHolds == QueueInit => BudgetIInv
<1> SUFFICES ASSUME QueueInit PROVE BudgetIInv
  OBVIOUS
<1>1. QueueIInv
  BY QueueInitHolds
<1>2. OnlyReported /\ Folded /\ Frozen
  BY DEF QueueInit, OnlyReported, Folded, Frozen, Live, NoReport
<1>3. ASSUME NEW j \in Job PROVE Attempts(j, final.counted \cup Underway(j)) <= MaxTotal
  <2>1. final.counted \cup Underway(j) = {}
    BY DEF QueueInit, Underway
  <2>2. Attempts(j, final.counted \cup Underway(j)) = parent[j].attempts + Cardinality({})
    <3>1. Shown(j, final.counted \cup Underway(j)) = {}
      BY <2>1 DEF Shown
    <3> QED
      BY <3>1 DEF Attempts
  <2>3. Cardinality({}) = 0
    BY FS_EmptySet
  <2>4. parent[j].attempts \in 0..MaxTotal
    BY <1>1, QueueTypes DEF QueueIInv, Prior
  <2> QED
    BY <2>2, <2>3, <2>4, BudgetAssumption
<1> QED
  BY <1>1, <1>2, <1>3 DEF BudgetIInv, WithinBudget

LEMMA BudgetInductive == QueueSpec => []BudgetIInv
<1>1. BudgetIInv /\ [QueueNext]_queueVars => BudgetIInv'
  BY ChildBudget, JobBudget, ProcessBudget, BudgetStutters DEF QueueNext, Proceed
<1> QED
  BY <1>1, BudgetInitHolds, PTL DEF QueueSpec

(* The final report counts more attempts of a task than                    *)
(* MAX_TOTAL_EVAL_ATTEMPTS only if a child of that task has failed: the    *)
(* task lock is held from apply_parent_eval_budget to the fold, so that    *)
(* nobody reads the budget while attempts are on their way.                *)
THEOREM OverrunExplained == QueueSpec => []OverrunNeedsADeadChild
<1>1. BudgetIInv => OverrunNeedsADeadChild
  <2> SUFFICES ASSUME BudgetIInv, NEW j \in Job, Observed(j) > MaxTotal, NoneFailed(j)
               PROVE  FALSE
    BY DEF OverrunNeedsADeadChild, NoneFailed
  <2> DEFINE S == final.counted
             T == final.counted \cup Underway(j)
  <2>1. S \in SUBSET Run /\ T \in SUBSET Run /\ S \subseteq T
    BY QueueParts DEF BudgetIInv, Underway
  <2>2. /\ Observed(j) = parent[j].attempts + Count(report, j, S)
        /\ parent[j].attempts + Count(report, j, T) <= MaxTotal
    BY DEF BudgetIInv, WithinBudget, Observed, Attempts, Shown, Count
  <2> HIDE DEF S, T
  <2>3. Count(report, j, S) <= Count(report, j, T)
    BY <2>1, CountGrows
  <2>4. Count(report, j, S) \in Nat /\ Count(report, j, T) \in Nat
    BY <2>1, CountIsFinite
  <2>5. parent[j].attempts \in Nat
    BY QueueTypes DEF BudgetIInv, QueueIInv, Prior
  <2> QED
    BY <2>2, <2>3, <2>4, <2>5, BudgetAssumption
<1> QED
  BY <1>1, BudgetInductive, PTL

-----------------------------------------------------------------------------
(* How often a job is launched.                                            *)

LEMMA FinalChanges ==
    ASSUME BudgetIInv, [QueueNext]_queueVars
    PROVE  /\ UNCHANGED parent
           /\ \A q \in final.counted : report'[q].attempts = report[q].attempts
           /\ UNCHANGED final \/ (\E w \in Run \cup {Queue} : Publishing(w) /\ Fold(w))
<1>1. \A q \in final.counted : q \in Run /\ child[q] # "lock"
  BY QueueParts DEF BudgetIInv, QueueIInv, OneFold, OnlyReported, Reported
<1>2. ASSUME NEW r \in Run, ChildStep(r) \/ ChildDies(r)
      PROVE  /\ UNCHANGED parent
             /\ \A q \in final.counted : report'[q].attempts = report[q].attempts
             /\ UNCHANGED final \/ (Publishing(r) /\ Fold(r))
  <2>1. UNCHANGED parent /\ \A q \in final.counted : report'[q].attempts = report[q].attempts
    BY <1>1, <1>2, ChildChanges DEF BudgetIInv
  <2>2. CASE ChildPublishes(r)
    BY <2>1, <2>2, QueueParts DEF BudgetIInv, ChildPublishes, Publishing
  <2>3. CASE ~ChildPublishes(r)
    BY <1>2, <2>1, <2>3 DEF ChildStep, ChildDies, ChildTakesLock, ChildFindsBudgetSpent, ChildEvaluates,
       ChildSelects, ChildMissesSource, ChildExits, disk
  <2> QED
    BY <2>2, <2>3
<1>3. ASSUME NEW j \in Job, RunJob(j)
      PROVE  /\ UNCHANGED <<parent, final>>
             /\ \A q \in final.counted : report'[q].attempts = report[q].attempts
  BY <1>1, <1>3, JobChanges DEF BudgetIInv
<1>4. ASSUME Refresh \/ Start \/ Crash
      PROVE  /\ UNCHANGED <<parent, report>>
             /\ UNCHANGED final \/ (Publishing(Queue) /\ Fold(Queue))
  BY <1>4 DEF Refresh, LeaveFinal, RefreshSelects, RefreshMissesSource, RefreshPublishes, Start, Crash,
     disk, Publishing
<1>5. CASE UNCHANGED queueVars
  BY <1>5 DEF queueVars, disk
<1> QED
  BY <1>2, <1>3, <1>4, <1>5 DEF QueueNext, Proceed

(* What was observed of a job is lost only with a source of the final      *)
(* report, and then for good.                                              *)
LEMMA ObservedGrows ==
    ASSUME BudgetIInv, BudgetIInv', [QueueNext]_queueVars, NEW j \in Job
    PROVE  /\ Observed(j) \in Nat /\ Observed(j)' \in Nat
           /\ UNCHANGED final => Observed(j)' = Observed(j) /\ SourceLost(j)' = SourceLost(j)
           /\ SourceLost(j) => UNCHANGED final
           /\ SourceLost(j)' \/ Observed(j)' >= Observed(j)
<1> DEFINE S == final.counted
           T == final'.counted
<1>1. /\ UNCHANGED parent
      /\ \A q \in S : report'[q].attempts = report[q].attempts
      /\ UNCHANGED final \/ (\E w \in Run \cup {Queue} : Publishing(w) /\ Fold(w))
  BY FinalChanges
<1>2. S \in SUBSET Run /\ T \in SUBSET Run
  BY QueueParts DEF BudgetIInv, QueueIInv, QueueTypeOK
<1>3. parent[j].attempts \in Nat
  BY QueueTypes DEF BudgetIInv, QueueIInv, Prior
<1>4. /\ Observed(j) = parent[j].attempts + Count(report, j, S)
      /\ Observed(j)' = parent[j].attempts + Count(report', j, T)
  BY <1>1 DEF Observed, Attempts, Shown, Count
<1>5. Count(report, j, S) \in Nat /\ Count(report', j, T) \in Nat
  <2> HIDE DEF S, T
  <2> QED
    BY <1>2, CountIsFinite
<1>6. ASSUME UNCHANGED final PROVE Observed(j)' = Observed(j) /\ SourceLost(j)' = SourceLost(j)
  <2>1. S = T
    BY <1>6
  <2>2. Count(report, j, S) <= Count(report', j, T) /\ Count(report', j, T) <= Count(report, j, S)
    <3> HIDE DEF S, T
    <3> QED
      BY <1>1, <1>2, <2>1, CountGrows
  <2>3. SourceLost(j)' = SourceLost(j)
    BY <1>6 DEF SourceLost
  <2> HIDE DEF S, T
  <2> QED
    BY <1>3, <1>4, <1>5, <2>2, <2>3
<1>7. SourceLost(j) => UNCHANGED final
  BY <1>1 DEF SourceLost, BudgetIInv, Frozen
<1>8. ASSUME ~SourceLost(j)' PROVE Observed(j)' >= Observed(j)
  <2>1. CASE UNCHANGED final
    BY <1>3, <1>4, <1>5, <1>6, <2>1
  <2>2. ASSUME NEW w \in Run \cup {Queue}, Publishing(w), Fold(w)
        PROVE  Count(report, j, S) <= Count(report', j, T)
    <3>1. final'.sources = chosen[w] /\ S \subseteq chosen[w]
      BY <2>2 DEF Fold, BudgetIInv, QueueIInv, OneFold
    <3>2. \A q \in S : q[1] = j => q \in T
      BY <1>8, <3>1 DEF SourceLost
    <3> HIDE DEF S, T
    <3> QED
      BY <1>1, <1>2, <3>2, CountGrows
  <2>3. CASE Count(report, j, S) <= Count(report', j, T)
    <3> HIDE DEF S, T
    <3> QED
      BY <1>3, <1>4, <1>5, <2>3
  <2> QED
    BY <1>1, <2>1, <2>2, <2>3
<1>9. Observed(j) \in Nat /\ Observed(j)' \in Nat
  <2> HIDE DEF S, T
  <2> QED
    BY <1>3, <1>4, <1>5
<1> QED
  BY <1>6, <1>7, <1>8, <1>9

LEMMA BadLivesCounted ==
    ASSUME parent \in Priors, lives \in 0..MaxLives
    PROVE  BadSoFar \in Nat
<1>1. IsFiniteSet(1..lives)
  BY BoundsAssumption, FS_Interval
<1>2. IsFiniteSet(BadLives[parent] \cap 1..lives)
  BY <1>1, FS_Intersection
<1> QED
  BY <1>2, FS_CardinalityType DEF BadSoFar

LEMMA LaunchTypes ==
    ASSUME BudgetIInv, LaunchIInv, NEW j \in Job
    PROVE  /\ BadSoFar \in Nat /\ spawned[j] \in Nat /\ entry[j].launches \in 0..2
           /\ Lost(j) \in {0, 2} /\ Launched(j) \in {spawned[j], spawned[j] + 1}
<1>1. BadSoFar \in Nat
  BY BadLivesCounted, QueueTypes DEF BudgetIInv, QueueIInv, LaunchIInv
<1> QED
  BY <1>1, QueueParts DEF BudgetIInv, Lost, Launched

(* The bounds stay while nobody is launched and no record changes.         *)
LEMMA LaunchesKept ==
    ASSUME BudgetIInv, BudgetIInv', LaunchIInv, [QueueNext]_queueVars,
           UNCHANGED <<entry, spawned, lives>>,
           \A k \in Job : worker'[k] = worker[k] \/ worker'[k] = "queued"
    PROVE  LaunchesInBadLife' /\ LaunchesInAll' /\ LaunchesOnRecord'
<1>1. UNCHANGED parent /\ BadSoFar' = BadSoFar
  BY FinalChanges DEF BadSoFar
<1>2. ASSUME NEW j \in Job
      PROVE  /\ Lost(j)' \in {0, 2} /\ Lost(j)' >= Lost(j)
             /\ Lost(j)' = 2 \/ Observed(j)' >= Observed(j)
             /\ Lost(j) = 2 => Observed(j)' = Observed(j)
             /\ Observed(j) \in Nat /\ Observed(j)' \in Nat
    BY <1>2, ObservedGrows DEF Lost
<1>3. ASSUME NEW j \in Job
      PROVE  /\ Launched(j)' \in Nat /\ Launched(j)' <= Launched(j)
             /\ worker[j] # "reserved" => worker'[j] # "reserved"
  BY <1>3, LaunchTypes DEF Launched
<1>4. LaunchesInBadLife'
  <2> SUFFICES ASSUME lives \in BadLives[parent], NEW j \in Job
               PROVE  worker'[j] # "reserved" /\ spawned[j] <= 2 * BadSoFar + Lost(j)'
    BY <1>1 DEF LaunchesInBadLife
  <2>1. worker[j] # "reserved" /\ spawned[j] <= 2 * BadSoFar + Lost(j)
    BY DEF LaunchIInv, LaunchesInBadLife
  <2> QED
    BY <1>2, <1>3, <2>1, LaunchTypes
<1>5. LaunchesInAll'
  <2> SUFFICES ASSUME NEW j \in Job PROVE Launched(j)' <= 2 * (1 + BadSoFar) + Lost(j)'
    BY <1>1 DEF LaunchesInAll
  <2>1. Launched(j) <= 2 * (1 + BadSoFar) + Lost(j)
    BY DEF LaunchIInv, LaunchesInAll
  <2> QED
    BY <1>2, <1>3, <2>1, LaunchTypes
<1>6. LaunchesOnRecord'
  <2> SUFFICES ASSUME NEW j \in Job, entry[j].status \notin Closed,
                      ~(entry[j].status = "budget_exhausted" /\ Observed(j)' >= MaxTotal)
               PROVE  Launched(j)' <= entry[j].launches + 2 * BadSoFar + Lost(j)'
    BY <1>1 DEF LaunchesOnRecord
  <2>1. CASE entry[j].status = "budget_exhausted" /\ Observed(j) >= MaxTotal
    <3>1. Launched(j) <= 2 * (1 + BadSoFar) + Lost(j)
      BY DEF LaunchIInv, LaunchesInAll
    <3>2. Lost(j)' = 2 /\ Lost(j) = 0
      BY <1>2, <2>1, BudgetAssumption, LaunchTypes
    <3> QED
      BY <1>3, <3>1, <3>2, LaunchTypes
  <2>2. CASE Launched(j) <= entry[j].launches + 2 * BadSoFar + Lost(j)
    BY <1>2, <1>3, <2>2, LaunchTypes
  <2> QED
    BY <2>1, <2>2 DEF LaunchIInv, LaunchesOnRecord
<1> QED
  BY <1>4, <1>5, <1>6

LEMMA ChildLaunches ==
    ASSUME BudgetIInv, BudgetIInv', LaunchIInv, NEW r \in Run, ChildStep(r) \/ ChildDies(r)
    PROVE  LaunchIInv'
<1>1. UNCHANGED <<parent, entry, main, lives, worker, spawned, judged>>
  BY ChildChanges DEF BudgetIInv
<1>2. QueueNext
  BY DEF QueueNext, Proceed
<1>3. LaunchesInBadLife' /\ LaunchesInAll' /\ LaunchesOnRecord'
  BY <1>1, <1>2, LaunchesKept
<1>4. ReportsStay
  BY ChildAdds DEF BudgetIInv
<1>5. \A j \in Job : Verdicts(j) # {} => Verdicts(j)' # {}
  <2>1. \A j \in Job : Verdicts(j) \subseteq Verdicts(j)'
    BY <1>1, <1>4 DEF Verdicts, ReportsStay, TerminalRuns
  <2> QED
    BY <2>1
<1>6. ClosedForGood' /\ NoLaunchUnverified'
  BY <1>1, <1>5 DEF LaunchIInv, ClosedForGood, NoLaunchUnverified
<1> QED
  BY <1>1, <1>3, <1>6 DEF LaunchIInv

LEMMA ProcessLaunches ==
    ASSUME BudgetIInv, BudgetIInv', LaunchIInv, Refresh \/ Start \/ Crash \/ UNCHANGED queueVars
    PROVE  LaunchIInv'
<1>1. /\ UNCHANGED <<parent, entry, spawned, report>>
      /\ \A j \in Job : worker'[j] = worker[j] \/ worker'[j] = "queued"
      /\ UNCHANGED lives \/ Start
  BY DEF Refresh, LeaveFinal, RefreshSelects, RefreshMissesSource, RefreshPublishes, Start, Crash, disk,
         queueVars
<1>2. \A j \in Job : UNCHANGED Verdicts(j)
  BY <1>1 DEF Verdicts, TerminalRuns, Live
<1>3. ClosedForGood' /\ NoLaunchUnverified'
  BY <1>1, <1>2 DEF LaunchIInv, ClosedForGood, NoLaunchUnverified, Resting
<1>4. [QueueNext]_queueVars
  BY DEF QueueNext, Proceed
<1>5. CASE UNCHANGED lives
  <2>1. LaunchesInBadLife' /\ LaunchesInAll' /\ LaunchesOnRecord'
    BY <1>1, <1>4, <1>5, LaunchesKept
  <2> QED
    BY <1>1, <1>3, <2>1 DEF LaunchIInv
<1>6. CASE Start
  <2>1. /\ lives' = lives + 1 /\ \A j \in Job : worker'[j] = "queued"
        /\ UNCHANGED final
    BY <1>6 DEF Start, disk
  <2>2. /\ BadSoFar \in Nat
        /\ BadSoFar' = BadSoFar + (IF lives + 1 \in BadLives[parent] THEN 1 ELSE 0)
    <3> DEFINE B == BadLives[parent] \cap 1..lives
               C == BadLives[parent] \cap 1..lives'
    <3>1. lives \in Nat
      BY QueueTypes, BoundsAssumption DEF BudgetIInv, QueueIInv
    <3>2. C = IF lives + 1 \in BadLives[parent] THEN B \cup {lives + 1} ELSE B
      <4>1. 1..lives' = 1..lives \cup {lives + 1}
        BY <2>1, <3>1
      <4> QED
        BY <4>1
    <3>3. IsFiniteSet(B)
      <4>1. IsFiniteSet(1..lives)
        BY <3>1, FS_Interval
      <4> QED
        BY <4>1, FS_Intersection
    <3>4. lives + 1 \notin B
      BY <3>1
    <3> HIDE DEF B, C
    <3>5. Cardinality(B) \in Nat
      BY <3>3, FS_CardinalityType
    <3>6. Cardinality(B \cup {lives + 1}) = Cardinality(B) + 1
      BY <3>3, <3>4, FS_AddElement
    <3>7. BadSoFar = Cardinality(B) /\ BadSoFar' = Cardinality(C)
      BY <1>1 DEF BadSoFar, B, C
    <3> QED
      BY <3>2, <3>5, <3>6, <3>7
  <2>3. ASSUME NEW j \in Job
        PROVE  /\ Lost(j)' = Lost(j) /\ Lost(j) \in {0, 2} /\ Observed(j)' = Observed(j)
               /\ Launched(j)' = spawned[j] /\ spawned[j] <= Launched(j)
               /\ spawned[j] \in Nat /\ Launched(j) \in Nat /\ entry[j].launches \in 0..2
    <3>1. SourceLost(j)' = SourceLost(j) /\ Observed(j)' = Observed(j)
      BY <1>4, <2>1, ObservedGrows
    <3>2. Launched(j)' = spawned[j]
      BY <1>1, <2>1, LaunchTypes DEF Launched
    <3> QED
      BY <3>1, <3>2, LaunchTypes DEF Lost
  <2>4. LaunchesInBadLife'
    <3> SUFFICES ASSUME lives + 1 \in BadLives[parent], NEW j \in Job
                 PROVE  spawned[j] <= 2 * BadSoFar' + Lost(j)'
      BY <1>1, <2>1 DEF LaunchesInBadLife
    <3>1. Launched(j) <= 2 * (1 + BadSoFar) + Lost(j)
      BY DEF LaunchIInv, LaunchesInAll
    <3> QED
      BY <2>2, <2>3, <3>1
  <2>5. LaunchesInAll'
    <3> SUFFICES ASSUME NEW j \in Job PROVE Launched(j)' <= 2 * (1 + BadSoFar') + Lost(j)'
      BY DEF LaunchesInAll
    <3>1. Launched(j) <= 2 * (1 + BadSoFar) + Lost(j)
      BY DEF LaunchIInv, LaunchesInAll
    <3> QED
      BY <2>2, <2>3, <3>1
  <2>6. LaunchesOnRecord'
    <3> SUFFICES ASSUME NEW j \in Job, entry[j].status \notin Closed,
                        ~(entry[j].status = "budget_exhausted" /\ Observed(j) >= MaxTotal)
                 PROVE  Launched(j)' <= entry[j].launches + 2 * BadSoFar' + Lost(j)'
      BY <1>1, <2>3 DEF LaunchesOnRecord
    <3>1. Launched(j) <= entry[j].launches + 2 * BadSoFar + Lost(j)
      BY DEF LaunchIInv, LaunchesOnRecord
    <3> QED
      BY <2>2, <2>3, <3>1
  <2> QED
    BY <1>1, <1>3, <2>4, <2>5, <2>6 DEF LaunchIInv
<1> QED
  BY <1>1, <1>5, <1>6

LEMMA QueueInitLaunches == QueueInit => LaunchIInv
<1> SUFFICES ASSUME QueueInit PROVE LaunchIInv
  OBVIOUS
<1>1. parent \in Priors /\ lives = 0
  BY DEF QueueInit
<1>2. BadSoFar \in Nat
  BY <1>1, BadLivesCounted, BoundsAssumption
<1>3. \A j \in Job : /\ spawned[j] = 0 /\ worker[j] = "queued"
                     /\ entry[j].status = "absent" /\ entry[j].launches = 0
  BY DEF QueueInit, NoEntry
<1>4. \A j \in Job : Launched(j) = 0 /\ Lost(j) \in {0, 2}
  BY <1>3 DEF Launched, Lost
<1>5. ClosedForGood /\ NoLaunchUnverified
  BY <1>3 DEF ClosedForGood, NoLaunchUnverified, Closed, Resting
<1>6. LaunchesInBadLife /\ LaunchesInAll /\ LaunchesOnRecord
  BY <1>2, <1>3, <1>4 DEF LaunchesInBadLife, LaunchesInAll, LaunchesOnRecord
<1> QED
  BY <1>1, <1>5, <1>6 DEF LaunchIInv

(* A job that may still be launched has all its launches on record.        *)
LEMMA OpenJobs ==
    ASSUME BudgetIInv, LaunchIInv, NEW j \in Job, worker[j] \notin Resting,
           entry[j].status = "running" \/ Observed(j) < MaxTotal
    PROVE  Launched(j) <= entry[j].launches + 2 * BadSoFar + Lost(j)
<1>1. entry[j].status \notin Closed
  BY DEF LaunchIInv, ClosedForGood
<1>2. Observed(j) \in Nat
  <2>1. final.counted \in SUBSET Run
    BY QueueParts DEF BudgetIInv
  <2>2. Count(report, j, final.counted) \in Nat
    BY <2>1, CountIsFinite
  <2>3. parent[j].attempts \in Nat
    BY QueueTypes DEF BudgetIInv, QueueIInv, Prior
  <2> QED
    BY <2>2, <2>3 DEF Observed, Attempts, Shown, Count
<1> QED
  BY <1>1, <1>2, BudgetAssumption DEF LaunchIInv, LaunchesOnRecord

(* The launches of a job after one of its steps.                           *)
JobCounts(j) ==
    /\ lives \in BadLives[parent] => worker'[j] # "reserved" /\ spawned'[j] <= 2 * BadSoFar + Lost(j)
    /\ Launched(j)' <= 2 * (1 + BadSoFar) + Lost(j)
    /\ \/ entry'[j].status \in Closed
       \/ entry'[j].status = "budget_exhausted" /\ Observed(j) >= MaxTotal
       \/ Launched(j)' <= entry'[j].launches + 2 * BadSoFar + Lost(j)

LEMMA JobLaunchesCounted ==
    ASSUME BudgetIInv, LaunchIInv, NEW j \in Job, RunJob(j)
    PROVE  JobCounts(j)
<1>1. /\ BadSoFar \in Nat /\ spawned[j] \in Nat /\ entry[j].launches \in 0..2
      /\ Lost(j) \in {0, 2} /\ Launched(j) \in {spawned[j], spawned[j] + 1}
  BY LaunchTypes
<1>2. /\ entry \in [Job -> [status : Status, launches : 0..2]]
      /\ worker \in [Job -> {"queued", "again", "budget", "reserved", "child", "rejected",
                             "rejected_cleanly", "ended"}]
      /\ spawned \in [Job -> Nat]
  BY QueueParts DEF BudgetIInv
<1>3. /\ lives \in BadLives[parent] => worker[j] # "reserved" /\ spawned[j] <= 2 * BadSoFar + Lost(j)
      /\ Launched(j) <= 2 * (1 + BadSoFar) + Lost(j)
      /\ \/ entry[j].status \in Closed
         \/ entry[j].status = "budget_exhausted" /\ Observed(j) >= MaxTotal
         \/ Launched(j) <= entry[j].launches + 2 * BadSoFar + Lost(j)
  BY DEF LaunchIInv, LaunchesInBadLife, LaunchesInAll, LaunchesOnRecord
<1>4. worker[j] \in {"reserved", "child", "rejected", "rejected_cleanly"} =>
          entry[j].status = "running" /\ worker[j] \notin Resting
  BY DEF BudgetIInv, QueueIInv, Unsettled, Resting
(* A step that launches nothing.                                           *)
<1>5. ASSUME spawned' = spawned, worker'[j] # "reserved",
             \/ entry'[j] = entry[j]
             \/ entry'[j].status \in Closed
             \/ entry'[j].status = "budget_exhausted" /\ Observed(j) >= MaxTotal
             \/ spawned[j] <= entry'[j].launches + 2 * BadSoFar + Lost(j)
      PROVE  JobCounts(j)
  <2>1. Launched(j)' = spawned[j]
    BY <1>1, <1>5 DEF Launched
  <2> QED
    BY <1>1, <1>3, <1>5, <2>1 DEF JobCounts
<1>6. CASE Unidentified(j)
  <2>1. spawned[j] = 0
    BY <1>6 DEF Unidentified, LaunchIInv, NoLaunchUnverified
  <2>2. spawned' = spawned /\ worker'[j] = "ended" /\ entry'[j].launches = 0
    BY <1>2, <1>6 DEF Unidentified, EndsAs, Put, At
  <2> QED
    BY <1>1, <1>5, <2>1, <2>2
<1>7. CASE FindsConflict(j) \/ FindsTerminal(j)
  <2>1. spawned' = spawned /\ worker'[j] = "ended" /\ entry'[j].status \in Closed
    BY <1>2, <1>7 DEF FindsConflict, FindsTerminal, EndsAs, Put, At, Closed
  <2> QED
    BY <1>5, <2>1
<1>8. CASE FindsNothing(j) \/ RejectReport(j)
  <2>1. spawned' = spawned /\ worker'[j] # "reserved" /\ entry'[j] = entry[j]
    BY <1>2, <1>8 DEF FindsNothing, RejectReport, At
  <2> QED
    BY <1>5, <2>1
<1>9. CASE BudgetSpent(j)
  <2>1. /\ spawned' = spawned /\ worker'[j] = "ended"
        /\ entry'[j].status = "budget_exhausted" /\ Observed(j) >= MaxTotal
    BY <1>2, <1>9 DEF BudgetSpent, EndsAs, Put, At
  <2> QED
    BY <1>5, <2>1
<1>10. CASE InvalidTimeout(j)
  <2>1. /\ spawned' = spawned /\ worker'[j] = "ended" /\ entry'[j].launches = 0
        /\ lives \in BadLives[parent]
    BY <1>2, <1>10 DEF InvalidTimeout, EndsAs, Put, At
  <2> QED
    BY <1>1, <1>3, <1>5, <2>1
<1>11. ASSUME SpawnFails(j) \/ AcceptReport(j) \/ PersistRejection(j) \/ NoVerdict(j) \/ LaunchesSpent(j)
       PROVE  JobCounts(j)
  <2>1. spawned' = spawned /\ worker'[j] # "reserved" /\ entry'[j].launches = entry[j].launches
    BY <1>2, <1>11 DEF SpawnFails, AcceptReport, PersistRejection, NoVerdict, LaunchesSpent, Persist,
       EndsAs, Put, At
  <2>2. worker[j] \notin Resting /\ (entry[j].status = "running" \/ Observed(j) < MaxTotal)
    BY <1>4, <1>11 DEF SpawnFails, AcceptReport, PersistRejection, NoVerdict, LaunchesSpent, Collected,
       Resting
  <2>3. Launched(j) <= entry[j].launches + 2 * BadSoFar + Lost(j)
    BY <2>2, OpenJobs
  <2> QED
    BY <1>1, <1>5, <2>1, <2>3
<1>12. CASE ReserveLaunch(j)
  <2>1. /\ spawned' = spawned /\ worker[j] = "budget" /\ worker'[j] = "reserved"
        /\ entry[j].launches < 2 /\ entry'[j].launches = entry[j].launches + 1
        /\ Observed(j) < MaxTotal /\ lives \notin BadLives[parent]
    BY <1>2, <1>12 DEF ReserveLaunch, Put, At
  <2>2. Launched(j) = spawned[j] /\ Launched(j)' = spawned[j] + 1
    BY <1>1, <2>1 DEF Launched
  <2>3. Launched(j) <= entry[j].launches + 2 * BadSoFar + Lost(j)
    BY <2>1, OpenJobs DEF Resting
  <2> QED
    BY <1>1, <2>1, <2>2, <2>3 DEF JobCounts
<1>13. CASE Spawn(j)
  <2>1. /\ spawned'[j] = spawned[j] + 1 /\ worker[j] = "reserved" /\ worker'[j] = "child"
        /\ entry' = entry
    BY <1>2, <1>13 DEF Spawn, At
  <2>2. Launched(j) = spawned[j] + 1 /\ Launched(j)' = spawned[j] + 1
    BY <1>1, <2>1 DEF Launched
  <2> QED
    BY <1>3, <2>1, <2>2 DEF JobCounts
<1> QED
  BY <1>6, <1>7, <1>8, <1>9, <1>10, <1>11, <1>12, <1>13 DEF RunJob, Decide, Conclude

LEMMA JobLaunches ==
    ASSUME BudgetIInv, BudgetIInv', LaunchIInv, NEW j \in Job, RunJob(j)
    PROVE  LaunchIInv'
<1>1. /\ UNCHANGED <<parent, main, lives, chosen, final>>
      /\ \A k \in Job \ {j} : entry'[k] = entry[k] /\ worker'[k] = worker[k] /\ spawned'[k] = spawned[k]
      /\ \A q \in Run : report'[q].says = report[q].says
      /\ Live' \subseteq Live
      /\ \A q \in Live \ Live' : q[1] = j /\ RejectReport(j)
  BY JobChanges, Zenon DEF BudgetIInv
<1>2. BadSoFar' = BadSoFar
  BY <1>1 DEF BadSoFar
<1>3. [QueueNext]_queueVars
  BY DEF QueueNext, Proceed
<1>4. ASSUME NEW k \in Job
      PROVE  Observed(k)' = Observed(k) /\ Lost(k)' = Lost(k)
  BY <1>1, <1>3, ObservedGrows DEF Lost
<1>5. \A k \in Job \ {j} : Launched(k)' = Launched(k)
  BY <1>1 DEF Launched
<1>6. JobCounts(j)
  BY JobLaunchesCounted
<1>7. LaunchesInBadLife'
  <2> SUFFICES ASSUME lives \in BadLives[parent], NEW k \in Job
               PROVE  worker'[k] # "reserved" /\ spawned'[k] <= 2 * BadSoFar + Lost(k)
    BY <1>1, <1>2, <1>4 DEF LaunchesInBadLife
  <2> QED
    BY <1>1, <1>6 DEF JobCounts, LaunchIInv, LaunchesInBadLife
<1>8. LaunchesInAll'
  <2> SUFFICES ASSUME NEW k \in Job PROVE Launched(k)' <= 2 * (1 + BadSoFar) + Lost(k)
    BY <1>2, <1>4 DEF LaunchesInAll
  <2> QED
    BY <1>5, <1>6 DEF JobCounts, LaunchIInv, LaunchesInAll
<1>9. LaunchesOnRecord'
  <2> SUFFICES ASSUME NEW k \in Job
               PROVE  \/ entry'[k].status \in Closed
                      \/ entry'[k].status = "budget_exhausted" /\ Observed(k) >= MaxTotal
                      \/ Launched(k)' <= entry'[k].launches + 2 * BadSoFar + Lost(k)
    BY <1>2, <1>4 DEF LaunchesOnRecord
  <2> QED
    BY <1>1, <1>5, <1>6 DEF JobCounts, LaunchIInv, LaunchesOnRecord
<1>10. ~RejectReport(j) => UNCHANGED Live
  BY <1>1
<1>11. \A k \in Job : k # j \/ ~RejectReport(j) => Verdicts(k)' = Verdicts(k)
  <2> SUFFICES ASSUME NEW k \in Job, k # j \/ ~RejectReport(j) PROVE Verdicts(k)' = Verdicts(k)
    OBVIOUS
  <2>1. TerminalRuns(k)' = TerminalRuns(k)
    BY <1>1, <1>10 DEF TerminalRuns, Live
  <2> QED
    BY <1>1, <2>1 DEF Verdicts, TerminalRuns, Live
<1>12. /\ entry \in [Job -> [status : Status, launches : 0..2]]
       /\ worker \in [Job -> {"queued", "again", "budget", "reserved", "child", "rejected",
                              "rejected_cleanly", "ended"}]
       /\ spawned \in [Job -> Nat]
  BY QueueParts DEF BudgetIInv
<1>13. worker[j] \in {"reserved", "child", "rejected", "rejected_cleanly"} => entry[j].status = "running"
  BY DEF BudgetIInv, QueueIInv, Unsettled
<1>14. entry'[j].status \in Closed => Verdicts(j) # {} /\ worker'[j] = "ended" /\ ~RejectReport(j)
  <2>1. CASE FindsConflict(j) \/ FindsTerminal(j)
    <3>1. Verdicts(j) # {}
      <4>1. Cardinality({}) = 0
        BY FS_EmptySet
      <4> QED
        BY <2>1, <4>1 DEF FindsConflict, FindsTerminal, Verdict
    <3>2. worker'[j] = "ended"
      BY <1>12, <2>1 DEF FindsConflict, FindsTerminal, EndsAs, At
    <3>3. ~RejectReport(j)
      BY <2>1 DEF FindsConflict, FindsTerminal, Running, RejectReport, Collected
    <3> QED
      BY <3>1, <3>2, <3>3
  <2>2. CASE FindsNothing(j)
    <3>1. entry' = entry /\ (entry[j].status \in Failed \/ Verdicts(j) = {})
      BY <2>2 DEF FindsNothing, PreviousFailed
    <3> QED
      BY <3>1 DEF LaunchIInv, ClosedForGood, Closed, Failed
  <2>3. CASE Unidentified(j)
    <3>1. parent[j].identity \in Identity
      BY QueueTypes DEF BudgetIInv, QueueIInv, Prior
    <3>2. entry'[j].status = parent[j].identity
      BY <1>12, <2>3 DEF Unidentified, EndsAs, Put
    <3> QED
      BY <3>1, <3>2 DEF Identity, Closed
  <2>4. CASE BudgetSpent(j) \/ InvalidTimeout(j) \/ LaunchesSpent(j) \/ ReserveLaunch(j)
    BY <1>12, <2>4 DEF BudgetSpent, InvalidTimeout, LaunchesSpent, ReserveLaunch, EndsAs, Put, Closed
  <2>5. CASE Spawn(j) \/ RejectReport(j)
    BY <1>13, <2>5 DEF Spawn, RejectReport, Collected, Closed
  <2>6. CASE SpawnFails(j) \/ AcceptReport(j) \/ PersistRejection(j) \/ NoVerdict(j)
    <3>1. PICK status \in Failed \cup {"terminal"}, clean \in BOOLEAN : Persist(j, status, clean)
      <4>1. /\ AcceptReport(j) => Persist(j, "terminal", TRUE)
            /\ SpawnFails(j) => Persist(j, "command_failed", TRUE)
            /\ PersistRejection(j) => Persist(j, "command_failed", worker[j] = "rejected_cleanly")
            /\ NoVerdict(j) => \E code : \E status \in Failed : Persist(j, status, code # 125)
        BY Zenon DEF SpawnFails, AcceptReport, PersistRejection, NoVerdict, Failed
      <4> QED
        BY <2>6, <4>1, Zenon DEF Failed
    <3>2. entry'[j].status = status
      BY <1>12, <3>1 DEF Persist, Put
    <3> QED
      BY <3>1, <3>2 DEF Failed, Closed
  <2> QED
    BY <2>1, <2>2, <2>3, <2>4, <2>5, <2>6 DEF RunJob, Decide, Conclude
<1>15. ClosedForGood'
  <2> SUFFICES ASSUME NEW k \in Job, entry'[k].status \in Closed
               PROVE  Verdicts(k)' # {} /\ worker'[k] \in Resting
    BY DEF ClosedForGood
  <2>1. CASE k = j
    BY <1>11, <1>14, <2>1 DEF Resting
  <2>2. CASE k # j
    BY <1>1, <1>11, <2>2 DEF LaunchIInv, ClosedForGood
  <2> QED
    BY <2>1, <2>2
<1>16. NoLaunchUnverified'
  <2>1. ASSUME parent[j].identity # "verified" PROVE spawned'[j] = 0 /\ worker'[j] = "ended"
    <3>1. spawned[j] = 0 /\ worker[j] \in {"queued", "ended"}
      BY <2>1 DEF LaunchIInv, NoLaunchUnverified, Resting
    <3>2. Unidentified(j)
      BY <2>1, <3>1 DEF RunJob, Decide, FindsConflict, FindsTerminal, FindsNothing, BudgetSpent,
         InvalidTimeout, LaunchesSpent, ReserveLaunch, Spawn, SpawnFails, Conclude, AcceptReport,
         RejectReport, PersistRejection, NoVerdict, Collected
    <3> QED
      BY <1>12, <3>1, <3>2 DEF Unidentified, EndsAs, At
  <2> QED
    BY <1>1, <2>1 DEF LaunchIInv, NoLaunchUnverified, Resting
<1> QED
  BY <1>1, <1>7, <1>8, <1>9, <1>15, <1>16 DEF LaunchIInv

LEMMA LaunchesInductive == QueueSpec => [](BudgetIInv /\ LaunchIInv)
<1>1. BudgetIInv /\ BudgetIInv' /\ LaunchIInv /\ [QueueNext]_queueVars => LaunchIInv'
  BY ChildLaunches, JobLaunches, ProcessLaunches DEF QueueNext, Proceed
<1> QED
  BY <1>1, BudgetInductive, QueueInitLaunches, PTL DEF QueueSpec

(* A job gets two children at most in all lives of the queue together,     *)
(* and two more for each life with an unusable timeout, and for an attempt *)
(* that a fold has lost: every status that overwrites the launch count of  *)
(* the state file (_set_job_state) but those two ends the launching        *)
(* (_reserve_launch).                                                      *)
THEOREM LaunchesAreBounded == QueueSpec => []LaunchesBounded
<1>1. BudgetIInv /\ LaunchIInv => LaunchesBounded
  <2> SUFFICES ASSUME BudgetIInv, LaunchIInv, NEW j \in Job
               PROVE  spawned[j] <= 2 * (1 + BadSoFar) + Lost(j)
    BY DEF LaunchesBounded, BadSoFar, Lost
  <2> QED
    BY LaunchTypes DEF LaunchIInv, LaunchesInAll
<1> QED
  BY <1>1, LaunchesInductive, PTL
=============================================================================
