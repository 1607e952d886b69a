----------------------------- MODULE DurableQueue -----------------------------
(***************************************************************************)
(* What the job queue promises its users ("Guarantees", platform/jobs.py), *)
(* whatever the dialect, the number of workers, their crashes and the      *)
(* races between them:                                                     *)
(*   - a job that was enqueued never disappears;                           *)
(*   - it is acknowledged as succeeded only after its handler returned     *)
(*     normally at least once (at-least-once execution);                   *)
(*   - it is given up as failed only when its attempts are used up;        *)
(*   - every execution claimed is counted.                                 *)
(* It does not promise that a settled job stays settled: a late worker may *)
(* put it back in the queue.                                               *)
(***************************************************************************)
EXTENDS Naturals

CONSTANTS Jobs, MaxAttempts

VARIABLES
    state,      \* status of each job, "absent" before it is enqueued
    attempts,   \* number of claims of each job
    returned    \* the jobs whose handler has returned normally

Init ==
    /\ state = [j \in Jobs |-> "absent"]
    /\ attempts = [j \in Jobs |-> 0]
    /\ returned = {}

Enqueued(j) ==
    /\ state[j] = "absent"
    /\ state'[j] = "queued"
    /\ attempts'[j] = attempts[j]

Started(j) ==
    /\ state[j] \in {"queued", "running"}
    /\ state'[j] = "running"
    /\ attempts'[j] = attempts[j] + 1

Acknowledged(j) ==
    /\ state[j] # "absent" /\ j \in returned
    /\ state'[j] = "succeeded"
    /\ attempts'[j] = attempts[j]

GivenUp(j) ==
    /\ state[j] # "absent" /\ attempts[j] >= MaxAttempts
    /\ state'[j] = "failed"
    /\ attempts'[j] = attempts[j]

RetriedOrCancelled(j) ==
    /\ state[j] # "absent"
    /\ state'[j] \in {"queued", "cancelled"}
    /\ attempts'[j] = attempts[j]

Unmoved(j) == state'[j] = state[j] /\ attempts'[j] = attempts[j]

\* A handler returns.
Return ==
    /\ \E j \in Jobs : state[j] # "absent" /\ returned' = returned \cup {j}
    /\ UNCHANGED <<state, attempts>>

\* A commit may move several jobs: a worker's success of one job becomes
\* durable together with its claim of the next.
Move ==
    /\ \A j \in Jobs :
        \/ Enqueued(j) \/ Started(j) \/ Acknowledged(j) \/ GivenUp(j)
        \/ RetriedOrCancelled(j) \/ Unmoved(j)
    /\ DOMAIN state' = Jobs /\ DOMAIN attempts' = Jobs
    /\ UNCHANGED returned

Next == Return \/ Move

Spec == Init /\ [][Next]_<<state, attempts, returned>>
=============================================================================
