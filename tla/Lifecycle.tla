------------------------------ MODULE Lifecycle ------------------------------
(***************************************************************************)
(* What the library promises to the user of a platform that every domain   *)
(* starts and no domain leaves through EXIT (docs/ipc.pu): the domains get *)
(* ready one by one, run together, end one by one; the user gets one       *)
(* verdict, that of some domain that ended, and the controller returns     *)
(* last.                                                                   *)
(***************************************************************************)
CONSTANT Domains

VARIABLES
    state,     \* state[d]: how far domain d is
    result,    \* result[d]: how domain d ended
    verdict,   \* what the user was told
    returned   \* the controller has returned

vars == <<state, result, verdict, returned>>

Results == {"success", "error"}

Init ==
    /\ state = [d \in Domains |-> "building"]
    /\ result = [d \in Domains |-> "none"]
    /\ verdict = "none"
    /\ returned = FALSE

GetReady(d) ==
    /\ state[d] = "building"
    /\ state' = [state EXCEPT ![d] = "ready"]
    /\ UNCHANGED <<result, verdict, returned>>

Run(d) ==
    /\ state[d] = "ready"
    /\ \A e \in Domains : state[e] # "building"
    /\ state' = [state EXCEPT ![d] = "running"]
    /\ UNCHANGED <<result, verdict, returned>>

End(d, r) ==
    /\ state[d] = "running"
    /\ state' = [state EXCEPT ![d] = "ended"]
    /\ result' = [result EXCEPT ![d] = r]
    /\ UNCHANGED <<verdict, returned>>

Judged(d) ==
    /\ verdict = "none"
    /\ state[d] = "ended"
    /\ verdict' = result[d]

AllEnded == \A d \in Domains : state[d] = "ended"

(* The last domain that ends may be the one that is judged.                *)
Judge ==
    /\ \E d \in Domains : Judged(d)
    /\ returned' \in {FALSE, AllEnded}
    /\ UNCHANGED <<state, result>>

Return ==
    /\ verdict # "none"
    /\ AllEnded
    /\ ~ returned
    /\ returned' = TRUE
    /\ UNCHANGED <<state, result, verdict>>

Next ==
    \/ \E d \in Domains : GetReady(d) \/ Run(d) \/ \E r \in Results : End(d, r)
    \/ Judge
    \/ Return

Spec == Init /\ [][Next]_vars

(* Everybody runs, the verdict falls once a domain has ended, and the      *)
(* controller returns once all of them have.                               *)
Fairness ==
    /\ \A d \in Domains : WF_vars(GetReady(d)) /\ WF_vars(Run(d))
    /\ WF_vars(Judge)
    /\ WF_vars(Return)

FairSpec == Spec /\ Fairness
=============================================================================
