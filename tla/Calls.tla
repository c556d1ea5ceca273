-------------------------------- MODULE Calls --------------------------------
(***************************************************************************)
(* What a remote call over the bridge promises its caller: it is performed *)
(* at most once, its promise settles exactly once, and says what happened, *)
(* unless the link was closed, which leaves the caller in the dark.        *)
(***************************************************************************)
CONSTANT Ids

VARIABLES
    promise,  \* what the caller sees of each call
    outcome,  \* how the engine ended it
    open      \* the link has not been closed

vars == <<promise, outcome, open>>

\* "lost": pending when the link closed; "refused": issued after that.
Promises == {"none", "pending", "resolved", "rejected", "lost", "refused"}
Outcomes == {"none", "ok", "error"}

TypeOK ==
    /\ promise \in [Ids -> Promises]
    /\ outcome \in [Ids -> Outcomes]
    /\ open \in BOOLEAN

Init ==
    /\ promise = [id \in Ids |-> "none"]
    /\ outcome = [id \in Ids |-> "none"]
    /\ open = TRUE

Issue(id) ==
    /\ promise[id] = "none"
    /\ promise' = [promise EXCEPT ![id] = IF open THEN "pending" ELSE "refused"]
    /\ UNCHANGED <<outcome, open>>

\* The engine may be performing a call whose caller was already turned away.
Perform(id) ==
    /\ promise[id] \notin {"none", "refused"} /\ outcome[id] = "none"
    /\ \E o \in {"ok", "error"} : outcome' = [outcome EXCEPT ![id] = o]
    /\ UNCHANGED <<promise, open>>

Answer(id) ==
    /\ promise[id] = "pending" /\ outcome[id] # "none"
    /\ promise' = [promise EXCEPT ![id] = IF outcome[id] = "ok" THEN "resolved" ELSE "rejected"]
    /\ UNCHANGED <<outcome, open>>

\* Closing settles every call that is still pending, in the same step.
Close ==
    /\ open
    /\ open' = FALSE
    /\ promise' = [id \in Ids |-> IF promise[id] = "pending" THEN "lost" ELSE promise[id]]
    /\ UNCHANGED outcome

Next == Close \/ \E id \in Ids : Issue(id) \/ Perform(id) \/ Answer(id)

Spec == Init /\ [][Next]_vars
=============================================================================
