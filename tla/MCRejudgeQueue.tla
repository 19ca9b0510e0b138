--------------------------- MODULE MCRejudgeQueue ---------------------------
(* Small instances of RejudgeQueue for TLC.                                *)
EXTENDS RejudgeQueue

CONSTANTS j1, j2

Fresh == [identity |-> "verified", attempts |-> 0, verdict |-> "none"]
Judged == [Fresh EXCEPT !.verdict = "unresolved", !.attempts = 1]
Unknown == [Fresh EXCEPT !.identity = "candidate_identity_missing"]

OneLeft == [Fresh EXCEPT !.attempts = MaxTotal - 1]

(* A job that never launches, beside one with all or one of its attempts    *)
(* left; and two that launch at the same time, each for its last attempt.   *)
Beside == {[j \in Job |-> IF j = j1 THEN Judged ELSE Fresh],
           [j \in Job |-> IF j = j1 THEN Unknown ELSE OneLeft]}
Together == {[j \in Job |-> OneLeft]}
MCPriors == Beside \cup Together

(* The third life is misconfigured, except where its launches matter. *)
MCBadLives == [p \in MCPriors |-> IF p \in Together THEN {} ELSE {3}]

(* One job fails technically, the other contradicts itself. *)
MCOutcomes ==
    [r \in Run |-> IF r[1] = j1 THEN {"technical"}
                   ELSE IF r[2] = 1 THEN {"unresolved"} ELSE {"resolved"}]

MCMaxSlots == [j \in Job |-> IF j = j1 THEN 1 ELSE 5]
=============================================================================
