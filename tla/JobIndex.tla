-------------------------------- MODULE JobIndex --------------------------------
(***************************************************************************)
(* The migration of the index that keeps the jobs of creation steps        *)
(* unique: from one over all jobs to one within a provider's account       *)
(* (migrate/creation_step_execution_index.go), run by an operator while    *)
(* old and new writers create steps and any process may initialise the     *)
(* schema.                                                                 *)
(***************************************************************************)
EXTENDS Naturals

CONSTANTS Steps, Jobs, Scopes, NoJob    \* NoJob is none of Jobs

VARIABLES
    steps,      \* collection creation_steps: the job bound and the route frozen
    indexes,    \* the indexes that concern jobs
    writers,    \* "old" while a process runs that creates steps without a route
    migration   \* the run of the migration command under way

jobIndexVars == <<steps, indexes, writers, migration>>

\* A route is whole; names provider and account and lacks a version or has a
\* malformed one; or lacks provider or account; "none" is of no step at all.
Routes == {"whole", "malformed", "missing"}
Step == [job : Jobs \cup {NoJob}, scope : Scopes, route : Routes \cup {"none"}]
MigrationModes == {"preflight", "create-scoped", "retire-legacy"}
\* "lookalike": an index that has the scoped one's name and is not unique.
IndexNames == {"legacy", "scoped", "lookalike"}

Idle == [mode |-> "none", at |-> "idle", again |-> FALSE, clean |-> TRUE]

HasJob(step) == step.job # NoJob
\* The documents the partial index holds.
Indexed(step) == HasJob(step) /\ step.route # "missing"
Valid(step) == step.route = "whole"

SameKey(name, x, y) ==
    \/ name = "legacy" /\ HasJob(x) /\ x.job = y.job
    \/ name = "scoped" /\ Indexed(x) /\ Indexed(y) /\ x.job = y.job /\ x.scope = y.scope

\* No two documents have one key of a unique index.
Holds(name, documents) == \A s, t \in Steps : SameKey(name, documents[s], documents[t]) => s = t

\* A deployment with history has the old index; a fresh one is initialised
\* before anything is written and has the new one.
JobIndexInit ==
    /\ steps \in [Steps -> [job : {NoJob}, scope : Scopes, route : {"none"}]]
    /\ \/ indexes \in {{"legacy"}, {"legacy", "lookalike"}} /\ writers = "old"
       \/ indexes = {"scoped"} /\ writers = "new"
    /\ migration = Idle
-----------------------------------------------------------------------------
\* A write takes effect when every unique index allows it.
Store(s, document) ==
    /\ steps' = [steps EXCEPT ![s] = document]
    /\ \A name \in indexes : Holds(name, steps')
    /\ UNCHANGED <<indexes, writers, migration>>

\* Today's writers freeze a whole route on every step, yesterday's did not.
CreateStep(s, scope, route) ==
    /\ steps[s].route = "none"
    /\ route = "whole" \/ writers = "old"
    /\ Store(s, [job |-> NoJob, scope |-> scope, route |-> route])

\* A job is bound to any step without one: a step without a route counts as
\* one of the local platform.
BindJob(s, job) ==
    /\ steps[s].route # "none" /\ ~HasJob(steps[s])
    /\ Store(s, [steps[s] EXCEPT !.job = job])

\* The operator completes the route of a historical job.
Backfill(s, scope) ==
    /\ HasJob(steps[s]) /\ ~Valid(steps[s])
    /\ Store(s, [steps[s] EXCEPT !.scope = scope, !.route = "whole"])

\* The last old writer is replaced.
Deploy ==
    /\ writers = "old" /\ writers' = "new"
    /\ UNCHANGED <<steps, indexes, migration>>

\* Creating the scoped index fails on duplicates and on a name already taken.
CanCreateScoped == "lookalike" \notin indexes /\ Holds("scoped", steps)

\* Schema initialisation knows the scoped index only: it never brings the old
\* one back.
Ensure ==
    /\ CanCreateScoped
    /\ indexes' = indexes \cup {"scoped"}
    /\ UNCHANGED <<steps, writers, migration>>

\* An operator removes the index that only looks like the scoped one.
DropLookalike ==
    /\ indexes' = indexes \ {"lookalike"}
    /\ UNCHANGED <<steps, writers, migration>>
-----------------------------------------------------------------------------
(* The migration command.                                                   *)

\* retire-legacy asks for the confirmation that every writer is new; the
\* operator tells the truth.
Run(mode) ==
    /\ migration.at = "idle"
    /\ mode = "retire-legacy" => writers = "new"
    /\ migration' = [Idle EXCEPT !.mode = mode, !.at = "scan"]
    /\ UNCHANGED <<steps, indexes, writers>>

\* The preflight reads every job's route, ...
ScanSteps ==
    /\ migration.at = "scan"
    /\ migration' = [migration EXCEPT !.at = "group",
           !.clean = \A s \in Steps : HasJob(steps[s]) => Valid(steps[s])]
    /\ UNCHANGED <<steps, indexes, writers>>

\* ... then groups them.  The command runs it, and the operation it calls runs
\* it again.
AfterPreflight(ready) ==
    CASE ~ready \/ migration.mode = "preflight" -> Idle
      [] ~migration.again -> [migration EXCEPT !.at = "scan", !.again = TRUE]
      [] migration.mode = "create-scoped" -> [migration EXCEPT !.at = "create"]
      [] OTHER -> [migration EXCEPT !.at = "installed"]

Group ==
    /\ migration.at = "group"
    /\ migration' = AfterPreflight(migration.clean /\ Holds("scoped", steps))
    /\ UNCHANGED <<steps, indexes, writers>>

\* MongoDB refuses what it cannot create.
EnsureScopedUnique ==
    /\ migration.at = "create"
    /\ indexes' = IF CanCreateScoped THEN indexes \cup {"scoped"} ELSE indexes
    /\ migration' = Idle
    /\ UNCHANGED <<steps, writers>>

\* The replacement must be the very index, unique, with its keys and its filter.
ScopedIndexInstalled == "scoped" \in indexes

CheckInstalled ==
    /\ migration.at = "installed"
    /\ migration' = IF ScopedIndexInstalled THEN [migration EXCEPT !.at = "drop"] ELSE Idle
    /\ UNCHANGED <<steps, indexes, writers>>

\* Nothing to drop is no error.
RetireLegacyGlobalUnique ==
    /\ migration.at = "drop"
    /\ indexes' = indexes \ {"legacy"} /\ migration' = Idle
    /\ UNCHANGED <<steps, writers>>

MigrationFails ==
    /\ migration.at # "idle" /\ migration' = Idle
    /\ UNCHANGED <<steps, indexes, writers>>
-----------------------------------------------------------------------------
JobIndexNext ==
    \/ \E s \in Steps, scope \in Scopes, route \in Routes : CreateStep(s, scope, route)
    \/ \E s \in Steps, job \in Jobs : BindJob(s, job)
    \/ \E s \in Steps, scope \in Scopes : Backfill(s, scope)
    \/ Deploy \/ Ensure \/ DropLookalike
    \/ \E mode \in MigrationModes : Run(mode)
    \/ ScanSteps \/ Group \/ EnsureScopedUnique \/ CheckInstalled \/ RetireLegacyGlobalUnique \/ MigrationFails

JobIndexSpec == JobIndexInit /\ [][JobIndexNext]_jobIndexVars

\* The state has its shape.
JobIndexTypeOK ==
    /\ steps \in [Steps -> Step]
    /\ indexes \subseteq IndexNames /\ writers \in {"old", "new"}
    /\ migration \in [mode : MigrationModes \cup {"none"}, again : BOOLEAN, clean : BOOLEAN,
           at : {"idle", "scan", "group", "create", "installed", "drop"}]

\* At no moment of the migration do two steps whose routes name provider and
\* account share one job there: a callback finds one step
\* (migrate/creation_step_execution_index.go, EnsureScopedUnique and
\* RetireLegacyGlobalUnique).
JobsUnique ==
    \A s, t \in Steps :
        Indexed(steps[s]) /\ Indexed(steps[t]) /\ s # t
        => steps[s].job # steps[t].job \/ steps[s].scope # steps[t].scope
=============================================================================
