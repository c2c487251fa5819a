------------------------------- MODULE Retention -------------------------------
(***************************************************************************)
(* How long the outbox keeps its events, and how the worker tells its      *)
(* backlog.  The retention command (cmd/outbox-retention) counts what has  *)
(* outlived its period, purges it in batches or, when nothing is left to   *)
(* purge, installs the three TTL indexes; workers and operators move the   *)
(* same events meanwhile.  Time is counted in days; MaxDay bounds it.      *)
(***************************************************************************)
EXTENDS Integers, FiniteSets, Sequences

CONSTANTS
    Events,
    BatchSize,  \* of the purge
    MaxDay,
    Period      \* the days a terminal status is kept

VARIABLES
    outbox,     \* collection outbox_events: status and times, or NoEvent
    ttl,        \* the statuses a TTL index covers
    day,
    command,    \* the run of the retention command under way
    removed,    \* history: how each removed event stood when it was removed
    worker,     \* the worker's observability endpoint and its snapshot
    gauges      \* what its metrics say

retentionVars == <<outbox, ttl, day, command, removed, worker, gauges>>

NoEvent == [status |-> "absent", created |-> 0, updated |-> 0]
ActiveStatuses == {"pending", "dispatching", "reconciling"}
Policy == <<"delivered", "failed", "needs_attention">>
Terminal == {Policy[i] : i \in 1..3}

\* The command keeps every terminal status for some days at least.
ASSUME RetentionAssumption ==
    /\ Period \in [Terminal -> Nat \ {0}]
    /\ MaxDay \in Nat \ {0} /\ BatchSize \in Nat \ {0}

NoCommand == [mode |-> "none", at |-> "idle", rule |-> 1, now |-> 0, expired |-> FALSE, found |-> {}]
NoSnapshot == [counts |-> [s \in ActiveStatuses \cup {"needs_attention"} |-> 0], active |-> -1, attention |-> -1]
Resting == [started |-> FALSE, ready |-> FALSE, at |-> "down", next |-> 0, now |-> 0, snapshot |-> NoSnapshot]
NoGauges == [snapshot |-> NoSnapshot, at |-> -1]

In(status) == {e \in Events : outbox[e].status = status}
\* The events of a status whose last change is a retention period old.
Expired(status, now) == {e \in In(status) : outbox[e].updated <= now - Period[status]}

RetentionInit ==
    /\ outbox \in [Events -> {NoEvent} \cup {[status |-> s, created |-> 0, updated |-> 0] : s \in Terminal}]
    /\ ttl = {} /\ day = 1 /\ command = NoCommand /\ removed = {}
    /\ worker = Resting /\ gauges = NoGauges
-----------------------------------------------------------------------------
(* The life of an event, as far as its age depends on it.                   *)

Enqueue(e) ==
    /\ outbox[e] = NoEvent
    /\ outbox' = [outbox EXCEPT ![e] = [status |-> "pending", created |-> day, updated |-> day]]
    /\ UNCHANGED <<ttl, day, command, removed, worker, gauges>>

\* An event that moves on is dated anew.
MovesOn(e, status, updated) ==
    /\ outbox' = [outbox EXCEPT ![e] = [status |-> status, created |-> outbox[e].created, updated |-> updated]]
    /\ UNCHANGED <<ttl, day, command, removed, worker, gauges>>

\* A claim; one that takes an expired lease over makes the event reconciling.
Claim(e) ==
    /\ outbox[e].status \in ActiveStatuses
    /\ MovesOn(e, IF outbox[e].status = "dispatching" THEN "reconciling" ELSE "dispatching", day)

Leased(e) == outbox[e].status \in {"dispatching", "reconciling"}

RenewLease(e) == Leased(e) /\ MovesOn(e, outbox[e].status, day)

\* Its end: delivered, failed or given up.
Finish(e) == Leased(e) /\ \E status \in Terminal : MovesOn(e, status, day)

\* A requeued event is dated by its next attempt, which lies ahead.
Requeue(e) == Leased(e) /\ MovesOn(e, "pending", day + 1)

RedriveAttention(e) == outbox[e].status = "needs_attention" /\ MovesOn(e, "pending", day)

Tick ==
    /\ day < MaxDay /\ day' = day + 1
    /\ UNCHANGED <<outbox, ttl, command, removed, worker, gauges>>

\* MongoDB's own thread removes what a TTL index has let expire.
ExpireByIndex(e) ==
    /\ outbox[e].status \in ttl /\ e \in Expired(outbox[e].status, day)
    /\ removed' = removed \cup {outbox[e].status}
    /\ outbox' = [outbox EXCEPT ![e] = NoEvent]
    /\ UNCHANGED <<ttl, day, command, worker, gauges>>
-----------------------------------------------------------------------------
(* The retention command.                                                   *)

\* create and purge are refused without the confirmation.
RunCommand(mode, confirmed) ==
    /\ command.at = "idle"
    /\ mode \in {"create", "purge"} => confirmed
    /\ command' = [NoCommand EXCEPT !.mode = mode, !.at = "count", !.now = day]
    /\ UNCHANGED <<outbox, ttl, day, removed, worker, gauges>>

\* What follows the preflight.  Indexes are never created over expired events.
AfterCounts(expired) ==
    CASE command.mode = "purge" -> "find"
      [] command.mode = "create" /\ ~expired -> "create"
      [] OTHER -> "idle"

\* The preflight counts one status after another.
CountStatus ==
    /\ command.at = "count"
    /\ LET expired == command.expired \/ Expired(Policy[command.rule], command.now) # {}
       IN command' = IF command.rule < Len(Policy)
                     THEN [command EXCEPT !.rule = @ + 1, !.expired = expired]
                     ELSE [command EXCEPT !.rule = 1, !.expired = expired, !.at = AfterCounts(expired)]
    /\ UNCHANGED <<outbox, ttl, day, removed, worker, gauges>>

CreateIndexes ==
    /\ command.at = "create"
    /\ ttl' = Terminal /\ command' = NoCommand
    /\ UNCHANGED <<outbox, day, removed, worker, gauges>>

NextRule == IF command.rule < Len(Policy) THEN [command EXCEPT !.rule = @ + 1, !.at = "find"] ELSE NoCommand

\* The oldest expired events of the status, at most a batch of them.
FindBatch ==
    /\ command.at = "find"
    /\ LET expired == Expired(Policy[command.rule], command.now)
       IN IF expired = {} THEN command' = NextRule
          ELSE \E batch \in SUBSET expired :
                 /\ Cardinality(batch) = BatchSize \/ (batch = expired /\ Cardinality(batch) < BatchSize)
                 /\ \A b \in batch, e \in expired \ batch : outbox[b].updated <= outbox[e].updated
                 /\ command' = [command EXCEPT !.found = batch, !.at = "delete"]
    /\ UNCHANGED <<outbox, ttl, day, removed, worker, gauges>>

\* What the deletion removes: of the events found, those still in the status.
Deletable(found, status) == found \cap In(status)

DeleteBatch ==
    /\ command.at = "delete"
    /\ LET gone == Deletable(command.found, Policy[command.rule])
       IN /\ removed' = removed \cup {outbox[e].status : e \in gone}
          /\ outbox' = [e \in Events |-> IF e \in gone THEN NoEvent ELSE outbox[e]]
          /\ command' = IF gone = {} THEN NextRule ELSE [command EXCEPT !.found = {}, !.at = "find"]
    /\ UNCHANGED <<ttl, day, worker, gauges>>

\* MongoDB fails, the time is up, or the command is stopped.
CommandFails ==
    /\ command.at # "idle" /\ command' = NoCommand
    /\ UNCHANGED <<outbox, ttl, day, removed, worker, gauges>>
-----------------------------------------------------------------------------
(* The worker's backlog metrics.                                            *)

StartEndpoint ==
    /\ worker.at = "down"
    /\ worker' = [Resting EXCEPT !.started = TRUE, !.at = "deliver"]
    /\ UNCHANGED <<outbox, ttl, day, command, removed, gauges>>

\* The endpoint stops serving while the worker goes on.
EndpointFails ==
    /\ worker.started
    /\ worker' = [worker EXCEPT !.started = FALSE, !.ready = FALSE]
    /\ UNCHANGED <<outbox, ttl, day, command, removed, gauges>>

BecomesReady(w) == [w EXCEPT !.ready = TRUE]

\* The slot of the next sample is taken before the first query.
Sampling(w) == IF w.next > day THEN w ELSE [w EXCEPT !.next = day + 1, !.now = day, !.at = "aggregate"]

\* A cycle without an error makes the worker ready and, once a day, samples the
\* backlog.
ObserveCycle ==
    /\ worker.at = "deliver"
    /\ worker' = Sampling(BecomesReady(worker))
    /\ UNCHANGED <<outbox, ttl, day, command, removed, gauges>>

Aggregate ==
    /\ worker.at = "aggregate"
    /\ worker' = [worker EXCEPT !.at = "oldestActive",
           !.snapshot.counts = [s \in DOMAIN NoSnapshot.counts |-> Cardinality(In(s))]]
    /\ UNCHANGED <<outbox, ttl, day, command, removed, gauges>>

CreatedOf(set) ==
    IF set = {} THEN -1
    ELSE CHOOSE t \in {outbox[e].created : e \in set} : \A e \in set : t <= outbox[e].created

OldestActive ==
    /\ worker.at = "oldestActive"
    /\ worker' = [worker EXCEPT !.at = "oldestAttention", !.snapshot.active = CreatedOf(UNION {In(s) : s \in ActiveStatuses})]
    /\ UNCHANGED <<outbox, ttl, day, command, removed, gauges>>

OldestAttention ==
    /\ worker.at = "oldestAttention"
    /\ worker' = [worker EXCEPT !.at = "publish", !.snapshot.attention = CreatedOf(In("needs_attention"))]
    /\ UNCHANGED <<outbox, ttl, day, command, removed, gauges>>

ObserveBacklog ==
    /\ worker.at = "publish"
    /\ gauges' = [snapshot |-> worker.snapshot, at |-> worker.now]
    /\ worker' = [worker EXCEPT !.at = "deliver", !.snapshot = NoSnapshot]
    /\ UNCHANGED <<outbox, ttl, day, command, removed>>

\* A failed query costs the snapshot and leaves the gauges.
ObserveBacklogFailure ==
    /\ worker.at \in {"aggregate", "oldestActive", "oldestAttention"}
    /\ worker' = [worker EXCEPT !.at = "deliver", !.snapshot = NoSnapshot]
    /\ UNCHANGED <<outbox, ttl, day, command, removed, gauges>>

\* A delivery error ends the process, and its metrics with it.
Exit ==
    /\ worker.at = "deliver"
    /\ worker' = Resting /\ gauges' = NoGauges
    /\ UNCHANGED <<outbox, ttl, day, command, removed>>
-----------------------------------------------------------------------------
RetentionNext ==
    \/ \E e \in Events :
           Enqueue(e) \/ Claim(e) \/ RenewLease(e) \/ Finish(e) \/ Requeue(e) \/ RedriveAttention(e) \/ ExpireByIndex(e)
    \/ Tick
    \/ \E mode \in {"preflight", "create", "purge"}, confirmed \in BOOLEAN : RunCommand(mode, confirmed)
    \/ CountStatus \/ CreateIndexes \/ FindBatch \/ DeleteBatch \/ CommandFails
    \/ StartEndpoint \/ EndpointFails \/ ObserveCycle \/ Aggregate \/ OldestActive \/ OldestAttention
    \/ ObserveBacklog \/ ObserveBacklogFailure \/ Exit

RetentionSpec == RetentionInit /\ [][RetentionNext]_retentionVars

\* The state has its shape.
RetentionTypeOK ==
    /\ \A e \in Events : outbox[e].status \in {"absent"} \cup ActiveStatuses \cup Terminal
    /\ ttl \in {{}, Terminal} /\ day \in 0..MaxDay
    /\ command.at \in {"idle", "count", "create", "find", "delete"} /\ command.found \subseteq Events
    /\ worker.started \in BOOLEAN /\ worker.ready \in BOOLEAN

\* Whatever the purge had found, an event on its way is never removed: one an
\* operator redrives between the search and the deletion stays
\* (migrate/outbox_retention.go:128-129).
NothingActiveRemoved == removed \subseteq Terminal

\* When the command is about to install the TTL indexes, no event is older than
\* its period at the time of the preflight, although it counted the three
\* statuses one after another while events moved between them
\* (cmd/outbox-retention, "create").
CreatedOverNothing ==
    command.at = "create" => \A status \in Terminal : Expired(status, command.now) = {}

\* The safety of the component.
RetentionSafe == NothingActiveRemoved /\ CreatedOverNothing
=============================================================================
