-------------------------- MODULE RequestCapacity ---------------------------
(***************************************************************************)
(* What provider_limits.py promises for one upstream provider, whatever    *)
(* files, locks and scans it uses to keep the promise: a set of requests   *)
(* holds the capacity, and a request joins it only within the limit of a   *)
(* policy that was in force when it last looked.                           *)
(***************************************************************************)
EXTENDS Naturals, FiniteSets

CONSTANTS
    Request,    \* who may hold capacity
    Policies    \* the policy file: [valid, enabled, limit, reserve]

VARIABLES
    held,   \* the requests that hold capacity
    view,   \* the policy each candidate looked at, NoView for the others
    policy  \* the policy file

NoView == [valid |-> FALSE, enabled |-> FALSE, limit |-> 0, reserve |-> 0]

Usable(p) == p.valid /\ p.enabled

Room(r) == Cardinality(held) + view[r].reserve < view[r].limit

Init ==
    /\ held = {}
    /\ view = [r \in Request |-> NoView]
    /\ policy \in {p \in Policies : Usable(p)}

Look(r) ==
    /\ r \notin held
    /\ Usable(policy)
    /\ view' = [view EXCEPT ![r] = policy]
    /\ UNCHANGED <<held, policy>>

Grant(r) ==
    /\ Usable(view[r])
    /\ Room(r)
    /\ held' = held \cup {r}
    /\ view' = [view EXCEPT ![r] = NoView]
    /\ UNCHANGED policy

(* Some requests end or give up: closed, cancelled, refused, exited.       *)
Leave(R) ==
    /\ held' = held \ R
    /\ view' = [r \in Request |-> IF r \in R THEN NoView ELSE view[r]]
    /\ UNCHANGED policy

Reconfigure ==
    /\ policy' \in Policies
    /\ UNCHANGED <<held, view>>

Next ==
    \/ \E r \in Request : Look(r) \/ Grant(r)
    \/ \E R \in SUBSET Request : Leave(R)
    \/ Reconfigure

Spec == Init /\ [][Next]_<<held, view, policy>>
=============================================================================
