------------------------------ MODULE MCDeployment ------------------------------
(* A deployment on PostgreSQL, on a small instance: the processes migrate the  *)
(* schema, or, with the schema in place, workers serve the queue; the first    *)
(* state says which.                                                           *)
EXTENDS JobQueue, Migrations

MCContents == [old |-> <<"a", "b">>, new |-> <<"a", "b", "c">>, edited |-> <<"a", "b2">>]

VARIABLE part

DeploymentInit ==
    /\ part \in {"start", "serve"}
    /\ Init /\ MigrationsInit
    /\ part = "serve" => \A p \in Processes : release[p] = "new"

\* The queue is served by processes that have been started.
DeploymentNext ==
    \/ part = "start" /\ MigrationsNext /\ UNCHANGED <<queueVars, part>>
    \/ part = "serve" /\ Next /\ UNCHANGED <<migrationVars, part>>

DeploymentSpec ==
    /\ DeploymentInit /\ [][DeploymentNext]_<<migrationVars, vars, part>>
    /\ part = "start" => MigrationsFairness
    /\ part = "serve" => Fairness
=============================================================================
