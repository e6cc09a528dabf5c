----------------------------- MODULE HttpPromise -----------------------------
(***************************************************************************)
(* What the HTTP client promises of each request, whatever sockets and     *)
(* queues are behind it: it ends at most once, after it was made, with the *)
(* answer that a server gave to this very request, or with none.  One that *)
(* is exposed may be given an answer to another, but none that no server   *)
(* gave.  How often servers carry it out is not promised: even after it    *)
(* has ended one that is on its way may be.                                *)
(***************************************************************************)
EXTENDS Naturals

CONSTANTS
    Requests,
    None        \* no answer

VARIABLES
    stage,      \* "new", "asked", "done"
    runs,       \* how often a server carried the request out
    answer,     \* the request whose answer the callback was given
    exposed     \* requests that cannot tell whose answer they are given: who
                \* is exposed and when is for the implementation to say

promise == <<stage, runs, answer>>

Init ==
    /\ stage = [r \in Requests |-> "new"]
    /\ runs = [r \in Requests |-> 0]
    /\ answer = [r \in Requests |-> None]

Ask(r) ==
    /\ stage[r] = "new"
    /\ stage' = [stage EXCEPT ![r] = "asked"]
    /\ UNCHANGED <<runs, answer>>

Run(r) ==
    /\ stage[r] # "new"
    /\ runs' = [runs EXCEPT ![r] = @ + 1]
    /\ UNCHANGED <<stage, answer>>

\* vk_close ends all of them at once.
Finish(R) ==
    /\ \A r \in R : stage[r] = "asked"
    /\ stage' = [r \in Requests |-> IF r \in R THEN "done" ELSE stage[r]]
    /\ \E heard \in [R -> {r \in Requests : runs[r] > 0} \cup {None}] :
         /\ \A r \in R : heard[r] \in {r, None} \/ r \in exposed
         /\ answer' = [r \in Requests |-> IF r \in R THEN heard[r] ELSE answer[r]]
    /\ UNCHANGED runs

Refuse(r) ==
    /\ stage[r] = "new"
    /\ stage' = [stage EXCEPT ![r] = "done"]
    /\ UNCHANGED <<runs, answer>>

Next ==
    \/ \E r \in Requests : Ask(r) \/ Run(r) \/ Refuse(r)
    \/ \E R \in SUBSET Requests : Finish(R)

Spec == Init /\ [][Next]_promise

=============================================================================
