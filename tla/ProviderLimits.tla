--------------------------- MODULE ProviderLimits ---------------------------
(***************************************************************************)
(* Cross-process request slots for one upstream provider                   *)
(* (provider_limits.py) with the gateway handler that uses them            *)
(* (_open_direct_upstream and the response loop of llm_api_proxy.py).      *)
(* A slot is a file held by flock; the scan that looks for a free one runs *)
(* file by file under the flock of allocation.lock, while responses of     *)
(* other threads and processes close at any time without that lock.        *)
(***************************************************************************)
EXTENDS Naturals, FiniteSets

CONSTANTS
    Request,    \* handler threads of all gateways
    Process,    \* gateway processes
    Owner,      \* the process of each thread
    NumSlots,   \* slot files in the lock directory, 100 in the code
    Policies,   \* what the policy file may say; reserve also counts the
                \* legacy services found alive with it
    Direct,     \* the processes with --direct-upstream
    NoRequest, NoProcess

ASSUME OwnerAssumption == Owner \in [Request -> Process] /\ IsFiniteSet(Request)
ASSUME SlotsAssumption == NumSlots \in Nat \ {0}
ASSUME PolicyAssumption ==
    Policies \subseteq [valid : BOOLEAN, enabled : BOOLEAN,
                        limit : 1..NumSlots, reserve : Nat]
ASSUME NoneAssumption == NoRequest \notin Request /\ NoProcess \notin Process
ASSUME DirectAssumption == Direct \subseteq Process

VARIABLES
    policy,     \* the policy file
    pc,         \* where each thread is
    seen,       \* the policy a waiting thread read last
    lock,       \* who holds the flock of allocation.lock
    cursor,     \* the slot its scan opens next
    active,     \* the slots its scan found busy
    free,       \* free_fd: the slot its scan kept, 0 for none
    slot,       \* who holds the flock of each slot file
    meta,       \* the pid in each slot file, NoProcess if unreadable
    lease,      \* the slot behind Lease.fd, 0 once it is closed
    conn,       \* the upstream connection of a request
    waiting     \* self.waiting of each process

scanVars == <<lock, cursor, active, free>>
vars == <<policy, pc, seen, scanVars, slot, meta, lease, conn, waiting>>

Slot == 1..NumSlots
NoSlot == 0

NoPolicy == [valid |-> FALSE, enabled |-> FALSE, limit |-> 0, reserve |-> 0]

Init ==
    /\ policy \in {p \in Policies : p.valid /\ p.enabled}
    /\ pc = [r \in Request |-> "idle"]
    /\ seen = [r \in Request |-> NoPolicy]
    /\ lock = NoRequest
    /\ cursor = 1 /\ active = {} /\ free = NoSlot
    /\ slot = [s \in Slot |-> NoRequest]
    /\ meta = [s \in Slot |-> NoProcess]
    /\ lease = [r \in Request |-> NoSlot]
    /\ conn = [r \in Request |-> "none"]
    /\ waiting = [p \in Process |-> 0]

Goto(r, where) == pc' = [pc EXCEPT ![r] = where]

(* The finally of acquire: every way out of it ends the wait.              *)
StopWaiting(r) == waiting' = [waiting EXCEPT ![Owner[r]] = @ - 1]

DropScanLocked ==  \* mutant: the descriptor of allocation.lock leaks
    /\ cursor' = 1
    /\ active' = {}
    /\ free' = NoSlot
    /\ UNCHANGED lock

(* Closing allocation.lock drops its flock; the scan's locals die with it. *)
DropScan ==
    /\ lock' = NoRequest
    /\ cursor' = 1
    /\ active' = {}
    /\ free' = NoSlot

KeepOpen == UNCHANGED slot  \* mutant: the descriptor of free_fd leaks

(* os.close(free_fd): the kept slot is free again.                         *)
CloseKept ==
    slot' = IF free = NoSlot THEN slot ELSE [slot EXCEPT ![free] = NoRequest]

-----------------------------------------------------------------------------
(* acquire up to its loop: a malformed policy is refused before the wait is *)
(* counted.  A handler thread whose last connection attempt still runs is   *)
(* not reused (bound).                                                      *)
Enter(r) ==
    /\ pc[r] = "idle"
    /\ conn[r] = "none"
    /\ policy.valid
    /\ Goto(r, "look")
    /\ waiting' = [waiting EXCEPT ![Owner[r]] = @ + 1]
    /\ UNCHANGED <<policy, seen, scanVars, slot, meta, lease, conn>>

(* The head of the loop: gone client, malformed policy, disabled provider. *)
GiveUp(r) ==
    /\ pc[r] = "look"
    /\ Goto(r, "idle")
    /\ StopWaiting(r)
    /\ UNCHANGED <<policy, seen, scanVars, slot, meta, lease, conn>>

Look(r) ==
    /\ pc[r] = "look"
    /\ policy.valid /\ policy.enabled
    /\ seen' = [seen EXCEPT ![r] = policy]
    /\ Goto(r, "lock")
    /\ UNCHANGED <<policy, scanVars, slot, meta, lease, conn, waiting>>

TakeLock(r) ==
    /\ pc[r] \in {"lock", "snaplock"}
    /\ lock = NoRequest
    /\ lock' = r
    /\ Goto(r, IF pc[r] = "lock" THEN "scan" ELSE "snapscan")
    /\ UNCHANGED <<policy, seen, cursor, active, free, slot, meta, lease, conn, waiting>>

CountBusy == active \cup {cursor}

(* One turn of scan: open the next slot file and try its flock.            *)
ScanSlot(r) ==
    /\ pc[r] \in {"scan", "snapscan"}
    /\ cursor <= NumSlots
    /\ cursor' = cursor + 1
    /\ \/ /\ slot[cursor] # NoRequest
          /\ active' = CountBusy
          /\ UNCHANGED <<free, slot>>
       \/ /\ slot[cursor] = NoRequest
          /\ pc[r] = "scan" /\ free = NoSlot
          /\ free' = cursor
          /\ slot' = [slot EXCEPT ![cursor] = r]
          /\ UNCHANGED active
       \/ /\ slot[cursor] = NoRequest
          /\ pc[r] = "snapscan" \/ free # NoSlot
          /\ UNCHANGED <<active, free, slot>>
    /\ UNCHANGED <<policy, pc, seen, lock, meta, lease, conn, waiting>>

(* os.open or flock raises in the middle of the scan.                      *)
ScanFails(r) ==
    /\ pc[r] \in {"scan", "snapscan"}
    /\ cursor <= NumSlots
    /\ CloseKept
    /\ DropScan
    /\ Goto(r, "idle")
    /\ IF pc[r] = "scan" THEN StopWaiting(r) ELSE UNCHANGED waiting
    /\ UNCHANGED <<policy, seen, meta, lease, conn>>

Scanned(r) == pc[r] = "scan" /\ cursor = NumSlots + 1

(* Mutant: one request too many.                                           *)
HasRoomForOneMore(r) ==
    /\ free # NoSlot
    /\ Cardinality(active) + seen[r].reserve <= seen[r].limit

HasRoom(r) ==
    /\ free # NoSlot
    /\ Cardinality(active) + seen[r].reserve < seen[r].limit

WriteMetadata(r) == meta' = [meta EXCEPT ![free] = Owner[r]]

Grant(r) ==
    /\ Scanned(r) /\ HasRoom(r)
    /\ WriteMetadata(r)
    /\ lease' = [lease EXCEPT ![r] = free]
    /\ DropScan
    /\ Goto(r, "granted")
    /\ StopWaiting(r)
    /\ UNCHANGED <<policy, seen, slot, conn>>

(* ftruncate, write or a short write fails: the file is left unreadable    *)
(* and the descriptor closed.                                              *)
MetadataFails(r) ==
    /\ Scanned(r) /\ HasRoom(r)
    /\ meta' = [meta EXCEPT ![free] = NoProcess]
    /\ CloseKept
    /\ DropScan
    /\ Goto(r, "idle")
    /\ StopWaiting(r)
    /\ UNCHANGED <<policy, seen, lease, conn>>

NoRoom(r) ==
    /\ Scanned(r) /\ ~HasRoom(r)
    /\ CloseKept
    /\ DropScan
    /\ Goto(r, "sleep")
    /\ UNCHANGED <<policy, seen, meta, lease, conn, waiting>>

Wake(r) ==
    /\ pc[r] = "sleep"
    /\ Goto(r, "look")
    /\ UNCHANGED <<policy, seen, scanVars, slot, meta, lease, conn, waiting>>

-----------------------------------------------------------------------------
(* open_limited: the original open runs under the lease.                   *)
StartOpen(r) ==
    /\ pc[r] = "granted"
    /\ Goto(r, "opening")
    /\ conn' = [conn EXCEPT ![r] = "connecting"]
    /\ UNCHANGED <<policy, seen, scanVars, slot, meta, lease, waiting>>

(* The connection is made and the request is on its way.  In direct mode a  *)
(* worker thread does this, whether or not the handler still waits for it. *)
Connects(r) ==
    /\ conn[r] = "connecting"
    /\ conn' = [conn EXCEPT ![r] = "open"]
    /\ UNCHANGED <<policy, pc, seen, scanVars, slot, meta, lease, waiting>>

(* Headers arrived; an HTTPError is a response too.                        *)
Opened(r) ==
    /\ pc[r] = "opening" /\ conn[r] = "open"
    /\ Goto(r, "open")
    /\ UNCHANGED <<policy, seen, scanVars, slot, meta, lease, conn, waiting>>

(* The open itself raised.                                                 *)
OpenFails(r) ==
    /\ pc[r] = "opening"
    /\ conn' = [conn EXCEPT ![r] = "none"]
    /\ Goto(r, "last")
    /\ UNCHANGED <<policy, seen, scanVars, slot, meta, lease, waiting>>

(* The client is gone or the deadline passed.  _abort_connection shuts the  *)
(* socket down if there is one; a worker still connecting has none yet and  *)
(* outlives worker.join(1).                                                 *)
AbortOpen(r) ==
    /\ Owner[r] \in Direct
    /\ pc[r] = "opening"
    /\ conn' = [conn EXCEPT ![r] = IF @ = "open" THEN "none" ELSE @]
    /\ Goto(r, "last")
    /\ UNCHANGED <<policy, seen, scanVars, slot, meta, lease, waiting>>

(* An abandoned connection attempt fails, or its request ends.             *)
StrayEnds(r) ==
    /\ pc[r] = "idle" /\ conn[r] # "none"
    /\ conn' = [conn EXCEPT ![r] = "none"]
    /\ UNCHANGED <<policy, pc, seen, scanVars, slot, meta, lease, waiting>>

(* Mutant: the lease is closed and the response left to the collector.     *)
CloseLeaseOnly(r) ==
    /\ pc[r] = "open"
    /\ Goto(r, "last")
    /\ UNCHANGED <<policy, seen, scanVars, slot, meta, lease, conn, waiting>>

(* LeasedResponse.close by the disconnect watcher (direct mode) or by the   *)
(* handler, which joins the watcher first and then closes again.  It closes *)
(* the response before anything else.                                       *)
CloseResponse(r) ==
    /\ pc[r] = "open"
    /\ conn' = [conn EXCEPT ![r] = "none"]
    /\ \/ Goto(r, "last")
       \/ Owner[r] \in Direct /\ Goto(r, "first")
    /\ UNCHANGED <<policy, seen, scanVars, slot, meta, lease, waiting>>

(* Lease.close: idempotent through fd = None.                              *)
CloseLease(r) ==
    /\ slot' = IF lease[r] = NoSlot THEN slot ELSE [slot EXCEPT ![lease[r]] = NoRequest]
    /\ lease' = [lease EXCEPT ![r] = NoSlot]

Release(r) ==
    /\ pc[r] \in {"first", "last"}
    /\ CloseLease(r)
    /\ Goto(r, IF pc[r] = "first" THEN "last" ELSE "idle")
    /\ UNCHANGED <<policy, seen, scanVars, meta, conn, waiting>>

-----------------------------------------------------------------------------
(* snapshot: the same scan, keeping nothing.                               *)
StartSnapshot(r) ==
    /\ pc[r] = "idle" /\ conn[r] = "none"
    /\ policy.valid
    /\ Goto(r, "snaplock")
    /\ UNCHANGED <<policy, seen, scanVars, slot, meta, lease, conn, waiting>>

EndSnapshot(r) ==
    /\ pc[r] = "snapscan" /\ cursor = NumSlots + 1
    /\ DropScan
    /\ Goto(r, "idle")
    /\ UNCHANGED <<policy, seen, slot, meta, lease, conn, waiting>>

(* The operator edits the file, or a legacy service comes or goes.         *)
Reconfigure ==
    /\ policy' \in Policies \ {policy}
    /\ UNCHANGED <<pc, seen, scanVars, slot, meta, lease, conn, waiting>>

(* A gateway exits or is killed: the kernel closes every descriptor of it. *)
Mine(p) == {r \in Request : Owner[r] = p}

ProcessExits(p) ==
    /\ \E r \in Mine(p) : pc[r] # "idle"
    /\ pc' = [r \in Request |-> IF r \in Mine(p) THEN "idle" ELSE pc[r]]
    /\ conn' = [r \in Request |-> IF r \in Mine(p) THEN "none" ELSE conn[r]]
    /\ lease' = [r \in Request |-> IF r \in Mine(p) THEN NoSlot ELSE lease[r]]
    /\ slot' = [s \in Slot |-> IF slot[s] \in Mine(p) THEN NoRequest ELSE slot[s]]
    /\ waiting' = [waiting EXCEPT ![p] = 0]
    /\ IF lock \in Mine(p) THEN DropScan ELSE UNCHANGED scanVars
    /\ UNCHANGED <<policy, seen, meta>>

-----------------------------------------------------------------------------
Acquire(r) ==
    \/ Look(r)
    \/ ScanSlot(r)
    \/ Grant(r)
    \/ NoRoom(r)
    \/ Wake(r)

Serve(r) ==
    \/ StartOpen(r)
    \/ Connects(r)
    \/ Opened(r)
    \/ CloseResponse(r)
    \/ Release(r)
    \/ EndSnapshot(r)

Fault(r) ==
    \/ GiveUp(r)
    \/ ScanFails(r)
    \/ MetadataFails(r)
    \/ OpenFails(r)
    \/ AbortOpen(r)
    \/ StrayEnds(r)

RequestStep(r) ==
    \/ Enter(r)
    \/ StartSnapshot(r)
    \/ TakeLock(r)
    \/ Acquire(r)
    \/ Serve(r)
    \/ Fault(r)

Next ==
    \/ \E r \in Request : RequestStep(r)
    \/ Reconfigure
    \/ \E p \in Process : ProcessExits(p)

Spec == Init /\ [][Next]_vars

(* Threads run, flock wakes its blocked waiters, upstream requests end.    *)
FairSpec ==
    /\ Spec
    /\ \A r \in Request : /\ WF_vars(Acquire(r) \/ GiveUp(r))
                          /\ WF_vars(Serve(r))
                          /\ SF_vars(TakeLock(r))

-----------------------------------------------------------------------------
Waiting == {"look", "lock", "scan", "sleep"}
Serving == {"granted", "opening", "open", "first", "last"}

(* The requests that count against the limit.                              *)
Held == {r \in Request : lease[r] # NoSlot}

TypeOK ==
    /\ policy \in Policies
    /\ pc \in [Request -> Waiting \cup Serving \cup {"idle", "snaplock", "snapscan"}]
    /\ seen \in [Request -> Policies \cup {NoPolicy}]
    /\ lock \in Request \cup {NoRequest}
    /\ cursor \in 1..NumSlots + 1
    /\ active \subseteq Slot
    /\ free \in Slot \cup {NoSlot}
    /\ slot \in [Slot -> Request \cup {NoRequest}]
    /\ meta \in [Slot -> Process \cup {NoProcess}]
    /\ lease \in [Request -> Slot \cup {NoSlot}]
    /\ conn \in [Request -> {"none", "connecting", "open"}]
    /\ waiting \in [Process -> Nat]

(* Slots have exactly one accountable holder: a flocked slot is either the  *)
(* lease of the request that holds it or the one the scan in progress kept, *)
(* so no exit path leaks a slot and no late or second close of a lease      *)
(* frees a slot that was handed to somebody else.                           *)
SlotsAccounted ==
    /\ \A r \in Request : lease[r] # NoSlot => slot[lease[r]] = r /\ pc[r] \in Serving
    /\ free # NoSlot => lock # NoRequest /\ slot[free] = lock /\ pc[lock] = "scan"
    /\ \A s \in Slot : slot[s] # NoRequest =>
          s = lease[slot[s]] \/ (s = free /\ slot[s] = lock)

(* "Slots held until the actual upstream response closes": no upstream      *)
(* request of a standard opener is in flight without a slot                 *)
(* (provider_limits.py, first line).  TLC refutes it for a direct gateway:  *)
(* an attempt abandoned by AbortOpen may still connect.                    *)
SlotCoversUpstream ==
    \A r \in Request : conn[r] = "open" /\ Owner[r] \notin Direct => r \in Held

(* Waiting is not for ever while capacity turns over: each waiter is at     *)
(* last served, refused, or overtaken by another grant.                     *)
WaitersMakeProgress ==
    \A r \in Request :
        pc[r] = "look" ~> pc[r] \notin Waiting \/ \E q \in Request \ {r} : pc[q] = "granted"

(* The file protocol implements the promise of RequestCapacity.            *)
View == [r \in Request |-> IF pc[r] \in {"lock", "scan"} THEN seen[r] ELSE NoPolicy]

Capacity == INSTANCE RequestCapacity WITH held <- Held, view <- View

ImplementsCapacity == Capacity!Spec
=============================================================================
