------------------------------ MODULE Migrations ------------------------------
(***************************************************************************)
(* run_migrations (platform/database.py), which every process runs when it *)
(* starts: each file in a transaction of its own, in filename order, under *)
(* the check that an applied file still has the contents it was applied    *)
(* with.  Several processes start together, of releases that may differ.   *)
(***************************************************************************)
EXTENDS Transactions, Naturals, FiniteSets

CONSTANTS
    Processes,      \* the API and worker processes that start
    Contents,       \* for each release, the contents of each of its files
    MaxStarts,      \* bound: starts of each process
    MaxDeaths       \* bound: processes that die while they migrate

ASSUME ProcessesAssumption == Processes \subseteq Sessions
ASSUME ContentsAssumption == \A r \in DOMAIN Contents : DOMAIN Contents[r] \subseteq Nat
ASSUME StartsAssumption == MaxStarts \in Nat /\ MaxDeaths \in Nat

VARIABLES
    release,        \* the release that each process runs
    applied,        \* schema_migrations: the contents of each applied version
    ran,            \* how often the statements of each version were committed
    process,        \* where each process is
    starts,         \* how often it has been started
    deaths

migrationVars == <<release, applied, ran, process, starts, deaths>>

Versions == UNION {DOMAIN Contents[r] : r \in DOMAIN Contents}
Files(p) == Contents[release[p]]
Texts == UNION {{Contents[r][v] : v \in DOMAIN Contents[r]} : r \in DOMAIN Contents}

ASSUME TextsAssumption == None \notin Texts

\* The file a process is at is kept as the versions it has left.
Process == [step : {"down", "up", "next"}, left : SUBSET Versions]
           \cup [step : {"running"}, left : SUBSET Versions, found : Versions]

MigrationsTypeOK ==
    /\ release \in [Processes -> DOMAIN Contents]
    /\ applied \in [Versions -> Texts \cup {None}]
    /\ ran \in [Versions -> Nat]
    /\ process \in [Processes -> Process]
    /\ starts \in [Processes -> 0..MaxStarts]
    /\ deaths \in 0..MaxDeaths

Down == [step |-> "down", left |-> {}]

MigrationsInit ==
    /\ release \in [Processes -> DOMAIN Contents]
    /\ applied = [v \in Versions |-> None]
    /\ ran = [v \in Versions |-> 0]
    /\ process = [p \in Processes |-> Down]
    /\ starts = [p \in Processes |-> 0]
    /\ deaths = 0

Goes(p, s) == process' = [process EXCEPT ![p] = s]
First(versions) == CHOOSE v \in versions : \A w \in versions : v <= w

Start(p) ==
    /\ process[p] = Down
    /\ starts[p] < MaxStarts
    /\ starts' = [starts EXCEPT ![p] = @ + 1]
    /\ Goes(p, [step |-> "next", left |-> DOMAIN Files(p)])
    /\ UNCHANGED <<release, applied, ran, deaths, txnVars>>

\* A file that is applied and unchanged is passed over.
SkipApplied(p) ==
    /\ process[p].step = "next" /\ process[p].left # {}
    /\ LET v == First(process[p].left)
       IN  /\ applied[v] = Files(p)[v]
           /\ Goes(p, [step |-> "next", left |-> process[p].left \ {v}])
    /\ UNCHANGED <<release, applied, ran, starts, deaths, txnVars>>

\* Fault: what is applied must not be there at all.
AppliedAtAll(p, v) == applied[v] # None

Edited(p, v) == applied[v] \notin {None, Files(p)[v]}

\* "changed after being applied": MigrationError, and the process does not start.
RefuseEdited(p) ==
    /\ process[p].step = "next" /\ process[p].left # {}
    /\ Edited(p, First(process[p].left))
    /\ Goes(p, Down)
    /\ UNCHANGED <<release, applied, ran, starts, deaths, txnVars>>

\* applied_migrations has not found the version.
FindOutstanding(p) ==
    /\ process[p].step = "next" /\ process[p].left # {}
    /\ LET v == First(process[p].left)
       IN  /\ applied[v] = None
           /\ Goes(p, [step |-> "running", left |-> process[p].left, found |-> v])
    /\ Read(p)
    /\ UNCHANGED <<release, applied, ran, starts, deaths>>

\* Fault: nothing keeps a version from being inserted twice.
NoPrimaryKey(v) == TRUE

\* version is the primary key, and the tables a file creates must not exist.
Insertable(v) == applied[v] = None

\* The statements of the file and the row of schema_migrations.
Apply(p) ==
    /\ process[p].step = "running"
    /\ LET v == process[p].found
       IN  /\ Insertable(v)
           /\ applied' = [applied EXCEPT ![v] = Files(p)[v]]
           /\ ran' = [ran EXCEPT ![v] = @ + 1]
           /\ Goes(p, [step |-> "next", left |-> process[p].left \ {v}])
    /\ Commit(p)
    /\ UNCHANGED <<release, starts, deaths>>

\* "database is locked", "already exists", a duplicate key: the start fails.
ApplyRefused(p) ==
    /\ process[p].step = "running"
    /\ ~ (MayWrite(p) /\ Insertable(process[p].found))
    /\ Rollback(p)
    /\ Goes(p, Down)
    /\ UNCHANGED <<release, applied, ran, starts, deaths>>

\* Every file has been passed or applied.
Started(p) ==
    /\ process[p].step = "next" /\ process[p].left = {}
    /\ Goes(p, [step |-> "up", left |-> {}])
    /\ UNCHANGED <<release, applied, ran, starts, deaths, txnVars>>

\* The process dies while it migrates.
Dies(p) ==
    /\ process[p].step \in {"next", "running"}
    /\ deaths < MaxDeaths
    /\ deaths' = deaths + 1
    /\ Rollback(p)
    /\ Goes(p, Down)
    /\ UNCHANGED <<release, applied, ran, starts>>

Migrates(p) ==
    \/ Start(p) \/ SkipApplied(p) \/ RefuseEdited(p) \/ FindOutstanding(p)
    \/ Apply(p) \/ ApplyRefused(p) \/ Started(p)

MigrationsNext == \E p \in Processes : Migrates(p) \/ Dies(p)

\* The deployment restarts a process that has stopped, and lets it run.
MigrationsFairness == \A p \in Processes : WF_<<migrationVars, txnVars>>(Migrates(p))

MigrationsSpec ==
    TxnInit /\ MigrationsInit /\ [][MigrationsNext]_<<migrationVars, txnVars>> /\ MigrationsFairness

-----------------------------------------------------------------------------
(***************************************************************************)
(* Properties.                                                             *)
(***************************************************************************)
\* A process that serves requests has the schema it was built for, whoever
\* applied its files: each was applied once, with its contents, and "in filename
\* order", also while several processes shared the work.
StartedMeansMigrated ==
    \A p \in Processes :
        /\ process[p].step = "up"
               => \A v \in DOMAIN Files(p) : applied[v] = Files(p)[v] /\ ran[v] = 1
        /\ \A v, w \in DOMAIN Files(p) :
               v < w /\ applied[w] = Files(p)[w] => applied[v] # None

\* Restarting is enough: unless somebody has applied other contents under a
\* version of its files, a process that was started comes up in the end, though
\* starts collide and processes die.
GenuineComesUp ==
    \A p \in Processes :
        [](\A v \in DOMAIN Files(p) : applied[v] \in {None, Files(p)[v]})
            => (process[p].step # "down" ~> process[p].step = "up")
=============================================================================
