------------------------------- MODULE Outbox -------------------------------
(***************************************************************************)
(* The transactional outbox: the outbox_events collection of               *)
(* data/outbox_repository.go, the workers that lease its events, and the   *)
(* operators who re-drive an event the automatic path gave up on.          *)
(*                                                                         *)
(* A worker's DeliverOnce is several steps: a claim, then business I/O     *)
(* during which time passes, leases expire and other workers run, then one *)
(* conditional update fenced by the lease token.  In between the worker    *)
(* decides from the copy of the event it claimed (held[w].ev), never from  *)
(* the document.                                                           *)
(*                                                                         *)
(* A fresh random lease token is represented by the number of the claim    *)
(* that drew it: attempt_count grows by one with every claim and no        *)
(* operation resets it, so two claims of an event never share a token.     *)
(***************************************************************************)
EXTENDS Integers

CONSTANTS
    Events,                   \* event identifiers, ordered like _id
    Kind,                     \* Kind[e]: the worker family that owns the event
    Workers,                  \* delivery workers, over all processes
    Operators,                \* people who may re-drive an event
    Keys,                     \* idempotency keys an operator may choose
    LeaseDuration,            \* defaultLeaseDuration
    MaxDelay,                 \* submissionRetryCap, materialUploadRetryCap
    MaxEventAge,
    MaterialUploadRetryBudget,
    MaxRedriveCount,
    MaxTime                   \* bound: the clock stops here

Kinds == {"materialize", "settle", "plain"}

ASSUME ConstantsAssumption ==
    /\ Events \subseteq Nat
    /\ Kind \in [Events -> Kinds]
    /\ LeaseDuration \in Nat \ {0}
    /\ MaxDelay \in Nat \ {0}
    /\ MaxEventAge \in Nat \ {0}
    /\ MaterialUploadRetryBudget \in Nat \ {0}
    /\ MaxRedriveCount \in Nat
    /\ MaxTime \in Nat

VARIABLES
    clock,
    events,         \* the outbox_events documents
    held,           \* what each worker has claimed and not yet let go
    uploadPending,  \* r2_upload_pending of the event's step
    mediaFailures,  \* history: media failures of the current retry window
    seen,           \* the redrive count an operator last looked at
    audits          \* the admin_audit rows of re-drives

vars == <<clock, events, held, uploadPending, mediaFailures, seen, audits>>
----------------------------------------------------------------------------
NoTime == -1
NoToken == 0
Idle == [id |-> -1]
NoView == [id |-> -1]

Open == {"pending", "reconciling", "dispatching"}       \* claimable states
Claimed == {"reconciling", "dispatching"}
Closed == {"delivered", "failed", "needs_attention"}
Reasons == {"none", "material_upload_budget_exhausted", "event_age_exceeded"}
Times == Nat \cup {NoTime}

Status == {"absent"} \cup Open \cup Closed

Event == [status : Status, attempts : Nat,
          next : Nat, token : Nat, until : Times, created : Nat,
          reason : Reasons, redriveAt : Times, redriveBase : Nat,
          redriveCount : Nat]

\* io: downloading or calling out.  publish: the synchronous renewal before
\* the publication transaction succeeded.  mark, attention: the two writes of
\* giving up after a media failure.
Phases == {"io", "publish", "mark", "attention"}

Lease == [id : Events, ev : Event, phase : Phases, reason : Reasons]
View == [id : Events, count : Nat]
Audit == [actor : Operators, key : Keys, expected : Nat, id : Events]

Absent == [status |-> "absent", attempts |-> 0, next |-> 0, token |-> NoToken,
           until |-> NoTime, created |-> 0, reason |-> "none",
           redriveAt |-> NoTime, redriveBase |-> 0, redriveCount |-> 0]

TypeOK ==
    /\ clock \in Nat
    /\ events \in [Events -> Event]
    /\ held \in [Workers -> {Idle} \cup Lease]
    /\ uploadPending \in [Events -> BOOLEAN]
    /\ mediaFailures \in [Events -> Nat]
    /\ seen \in [Operators -> {NoView} \cup View]
    /\ audits \subseteq Audit

Init ==
    /\ clock = 0
    /\ events = [e \in Events |-> Absent]
    /\ held = [w \in Workers |-> Idle]
    /\ uploadPending = [e \in Events |-> FALSE]
    /\ mediaFailures = [e \in Events |-> 0]
    /\ seen = [o \in Operators |-> NoView]
    /\ audits = {}
----------------------------------------------------------------------------
(* The retry window: it starts at creation and is moved by a re-drive.     *)

WindowStart(ev) ==
    IF ev.redriveAt # NoTime /\ ev.redriveAt > ev.created
    THEN ev.redriveAt ELSE ev.created

WindowBase(ev) == IF ev.redriveAt = NoTime THEN 0 ELSE ev.redriveBase

RetryBudgetExhausted(ev) ==
    ev.attempts - WindowBase(ev) >= MaterialUploadRetryBudget

EventAgeExceeded(ev, now) == now - WindowStart(ev) >= MaxEventAge

\* The reason for which the automatic path gives up, "none" to go on.  Only
\* the materializer has a media leg, and only that leg looks at the budget.
AttentionReason(ev, cause, now) ==
    IF cause = "media" /\ RetryBudgetExhausted(ev)
    THEN "material_upload_budget_exhausted"
    ELSE IF EventAgeExceeded(ev, now) THEN "event_age_exceeded" ELSE "none"
----------------------------------------------------------------------------
(* Writes of the repository to one event document.                         *)

Enqueue(e) ==
    /\ events[e].status = "absent"
    /\ events' = [events EXCEPT ![e] =
                    [Absent EXCEPT !.status = "pending", !.next = clock,
                                   !.created = clock]]
    /\ UNCHANGED <<clock, held, uploadPending, mediaFailures, seen, audits>>

Claimable(e, kind) ==
    /\ Kind[e] = kind
    /\ events[e].status \in Open
    /\ events[e].next <= clock
    /\ events[e].until <= clock

\* An expired dispatching event is taken over as reconciling; an expired
\* reconciling one goes back to dispatching.
ClaimedEvent(ev) ==
    [ev EXCEPT !.status = IF ev.status = "dispatching" THEN "reconciling"
                                                       ELSE "dispatching",
               !.token = ev.attempts + 1,
               !.until = clock + LeaseDuration,
               !.attempts = ev.attempts + 1]

Claim(w, e) ==
    /\ held[w] = Idle
    /\ events' = [events EXCEPT ![e] = ClaimedEvent(events[e])]
    /\ held' = [held EXCEPT ![w] = [id |-> e, ev |-> ClaimedEvent(events[e]),
                                    phase |-> "io", reason |-> "none"]]
    /\ UNCHANGED <<clock, uploadPending, mediaFailures, seen, audits>>

Precedes(e, f) ==
    \/ events[e].next < events[f].next
    \/ events[e].next = events[f].next /\ e <= f

ClaimByType(w, kind) ==
    \E e \in Events :
        /\ Claimable(e, kind)
        /\ \A f \in Events : Claimable(f, kind) => Precedes(e, f)
        /\ Claim(w, e)

ClaimByIDAndType(w, e, kind) == Claimable(e, kind) /\ Claim(w, e)

\* Mistaken variant: the write is not fenced by the token.
OwnsByStatusOnly(w) == events[held[w].id].status \in Claimed

\* The filter of updateClaimed: the token matches and the event is claimed.
\* It does not look at lease_until.
Owns(w) ==
    LET doc == events[held[w].id]
    IN  doc.token = held[w].ev.token /\ doc.status \in Claimed

LeaseLive(w) == Owns(w) /\ events[held[w].id].until > clock

Unleased(ev) == [ev EXCEPT !.token = NoToken, !.until = NoTime]

\* One fenced update of the held event; a lost fence (ErrLeaseConflict) is
\* swallowed by settleOutboxError.  Either way the worker is done.
UpdateClaimed(w, ev) ==
    /\ events' = IF Owns(w) THEN [events EXCEPT ![held[w].id] = ev] ELSE events
    /\ held' = [held EXCEPT ![w] = Idle]

Doc(w) == events[held[w].id]

MarkDelivered(w) == UpdateClaimed(w, [Unleased(Doc(w)) EXCEPT !.status = "delivered"])

MarkFailed(w) == UpdateClaimed(w, [Unleased(Doc(w)) EXCEPT !.status = "failed"])

MarkNeedsAttention(w, reason) ==
    UpdateClaimed(w, [Unleased(Doc(w)) EXCEPT !.status = "needs_attention",
                                              !.reason = reason])

\* Mistaken variant: the delay is taken off instead of added.
RequeueEarlier(w) ==
    \E delay \in 1 .. MaxDelay :
        UpdateClaimed(w, [Unleased(Doc(w)) EXCEPT !.status = "pending",
                                                  !.next = clock - delay])

\* The backoff is any delay the two policies can return.
Requeue(w) ==
    \E delay \in 1 .. MaxDelay :
        UpdateClaimed(w, [Unleased(Doc(w)) EXCEPT !.status = "pending",
                                                  !.next = clock + delay])

\* Mistaken variant: a renewal extends the old expiry instead of resetting it.
RenewLeaseCumulative(w) ==
    [events EXCEPT ![held[w].id].until = @ + LeaseDuration]

RenewLease(w) ==
    [events EXCEPT ![held[w].id].until = clock + LeaseDuration]
----------------------------------------------------------------------------
(* Steps of the workers.                                                   *)

Holds(w, kinds) == held[w] # Idle /\ Kind[held[w].id] \in kinds

InPhase(w, phase) == held[w] # Idle /\ held[w].phase = phase

Unchanged == UNCHANGED <<clock, uploadPending, mediaFailures, seen, audits>>

\* The reconcile, inbox-consume and cancel workers close their event, or the
\* settlement transaction closes it together with the refund.
Deliver(w) ==
    /\ Holds(w, {"plain", "settle"})
    /\ MarkDelivered(w)
    /\ Unchanged

\* The materializer's lease guard renews in the background while the result
\* is being copied; a failed renewal means the lease is lost, the I/O is
\* cancelled and the worker leaves without writing anything.
GuardRenew(w) ==
    /\ Holds(w, {"materialize"})
    /\ InPhase(w, "io")
    /\ \/ LeaseLive(w) /\ events' = RenewLease(w) /\ UNCHANGED held
       \/ ~LeaseLive(w) /\ held' = [held EXCEPT ![w] = Idle] /\ UNCHANGED events
    /\ Unchanged

\* The copy is complete: stop the guard, renew once synchronously, publish
\* only if that renewal succeeded.
Materialized(w) ==
    /\ Holds(w, {"materialize"})
    /\ InPhase(w, "io")
    /\ \/ /\ LeaseLive(w)
          /\ events' = RenewLease(w)
          /\ held' = [held EXCEPT ![w].phase = "publish"]
       \/ ~LeaseLive(w) /\ held' = [held EXCEPT ![w] = Idle] /\ UNCHANGED events
    /\ Unchanged

\* Mistaken variant: publishing leaves r2_upload_pending as it was.
PublishWithoutClearing(w) ==
    /\ InPhase(w, "publish")
    /\ MarkDelivered(w)
    /\ Unchanged

\* The publication transaction: asset, step, creation, gate and event in one.
\* The event is matched by its token (and by a lease that outlives the
\* publication timestamp, which the renewal just made true), so a lost fence
\* aborts all of it; publishing clears r2_upload_pending.
Publish(w) ==
    /\ InPhase(w, "publish")
    /\ MarkDelivered(w)
    /\ uploadPending' = IF Owns(w)
                        THEN [uploadPending EXCEPT ![held[w].id] = FALSE]
                        ELSE uploadPending
    /\ UNCHANGED <<clock, mediaFailures, seen, audits>>

\* A failure that no retry can change closes the event.
FailPermanently(w) ==
    /\ held[w] # Idle
    /\ held[w].phase \in {"io", "publish"}
    /\ MarkFailed(w)
    /\ Unchanged

\* retryOrAbandon after a dependency failure.  Only the materializer and the
\* settlement worker ever give up; the other workers requeue for ever.
DependencyFails(w) ==
    /\ held[w] # Idle
    /\ held[w].phase \in {"io", "publish"}
    /\ LET reason == AttentionReason(held[w].ev, "dependency", clock)
       IN  IF reason # "none" /\ Kind[held[w].id] # "plain"
           THEN MarkNeedsAttention(w, reason)
           ELSE Requeue(w)
    /\ Unchanged

\* retryOrAbandon after the download or the object write failed.
MediaFails(w) ==
    /\ Holds(w, {"materialize"})
    /\ InPhase(w, "io")
    /\ mediaFailures' = [mediaFailures EXCEPT ![held[w].id] = @ + 1]
    /\ LET reason == AttentionReason(held[w].ev, "media", clock)
       IN  IF reason = "none"
           THEN Requeue(w)
           ELSE /\ held' = [held EXCEPT ![w].phase = "mark", ![w].reason = reason]
                /\ UNCHANGED events
    /\ UNCHANGED <<clock, uploadPending, seen, audits>>

\* First the durable fact on the step row, which a published step refuses; if
\* it cannot be written the event is requeued instead of given up.
MarkUploadPending(w) ==
    /\ InPhase(w, "mark")
    /\ \/ /\ events[held[w].id].status # "delivered"
          /\ uploadPending' = [uploadPending EXCEPT ![held[w].id] = TRUE]
          /\ held' = [held EXCEPT ![w].phase = "attention"]
          /\ UNCHANGED events
       \/ Requeue(w) /\ UNCHANGED uploadPending
    /\ UNCHANGED <<clock, mediaFailures, seen, audits>>

\* Then the event itself.
GiveUp(w) ==
    /\ InPhase(w, "attention")
    /\ MarkNeedsAttention(w, held[w].reason)
    /\ Unchanged

\* The process dies, or an error ends DeliverOnce before its last write.
Crash(w) ==
    /\ held[w] # Idle
    /\ held' = [held EXCEPT ![w] = Idle]
    /\ UNCHANGED events
    /\ Unchanged
----------------------------------------------------------------------------
(* Manual re-drive: an operator looks at an event, and later submits a     *)
(* command carrying the count seen.  The command may be submitted again.   *)

Observe(o, e) ==
    /\ events[e].status = "needs_attention"
    /\ seen' = [seen EXCEPT ![o] = [id |-> e, count |-> events[e].redriveCount]]
    /\ UNCHANGED <<clock, events, held, uploadPending, mediaFailures, audits>>

RedriveEligible(ev) ==
    ev.status = "needs_attention" /\ ev.redriveCount < MaxRedriveCount

RedriveAttention(ev) ==
    [ev EXCEPT !.status = "pending", !.next = clock, !.reason = "none",
               !.redriveAt = clock, !.redriveBase = ev.attempts,
               !.redriveCount = ev.redriveCount + 1]

\* One transaction: replay probe, eligibility, compare-and-set on the count,
\* audit row.  A command already audited changes nothing, a stale count or a
\* closed gate is refused, and then nothing changes either.
Redrive(o, key) ==
    LET e == seen[o].id
        audit == [actor |-> o, key |-> key, expected |-> seen[o].count, id |-> e]
        sameKey == {a \in audits : /\ a.actor = o /\ a.key = key
                                   /\ a.expected = seen[o].count}
    IN  /\ seen[o] # NoView
        /\ sameKey = {}
        /\ Kind[e] # "plain"
        /\ RedriveEligible(events[e])
        /\ events[e].redriveCount = seen[o].count
        /\ events' = [events EXCEPT ![e] = RedriveAttention(events[e])]
        /\ mediaFailures' = [mediaFailures EXCEPT ![e] = 0]
        /\ audits' = audits \cup {audit}
        /\ UNCHANGED <<clock, held, uploadPending, seen>>

Tick ==
    /\ clock < MaxTime
    /\ clock' = clock + 1
    /\ UNCHANGED <<events, held, uploadPending, mediaFailures, seen, audits>>

WorkerStep(w) ==
    \/ \E kind \in Kinds : ClaimByType(w, kind)
    \/ \E e \in Events : ClaimByIDAndType(w, e, Kind[e])
    \/ Deliver(w)
    \/ GuardRenew(w)
    \/ Materialized(w)
    \/ Publish(w)
    \/ FailPermanently(w)
    \/ DependencyFails(w)
    \/ MediaFails(w)
    \/ MarkUploadPending(w)
    \/ GiveUp(w)
    \/ Crash(w)

Next ==
    \/ \E e \in Events : Enqueue(e)
    \/ \E w \in Workers : WorkerStep(w)
    \/ \E o \in Operators, e \in Events : Observe(o, e)
    \/ \E o \in Operators, key \in Keys : Redrive(o, key)
    \/ Tick

Spec == Init /\ [][Next]_vars
----------------------------------------------------------------------------
(* Properties.                                                             *)

\* At most one worker can write an event: however long a worker was away,
\* its token is dead once the event was claimed again (updateClaimed).
LeaseExclusive ==
    \A v, w \in Workers :
        /\ v # w
        /\ held[v] # Idle /\ held[w] # Idle
        /\ held[v].id = held[w].id
        => ~(Owns(v) /\ Owns(w))

\* delivered and failed are final; needs_attention is left only by a re-drive,
\* which counts itself, and never more than MaxRedriveCount times.
ClosedIsFinal ==
    [][\A e \in Events :
        /\ events[e].status \in {"delivered", "failed"} => events'[e] = events[e]
        /\ events[e].status = "needs_attention" =>
            \/ events'[e] = events[e]
            \/ /\ events'[e].status = "pending"
               /\ events'[e].redriveCount = events[e].redriveCount + 1
               /\ events'[e].redriveCount <= MaxRedriveCount]_vars

\* An event is given up only when the window of the document, not of some
\* worker's older copy of it, is used up: a re-driven event gets its full
\* budget and its full age again.
WindowRespected ==
    [][\A e \in Events :
        events'[e].status = "needs_attention" /\ events[e].status # "needs_attention" =>
            \/ /\ events'[e].reason = "material_upload_budget_exhausted"
               /\ RetryBudgetExhausted(events[e])
            \/ /\ events'[e].reason = "event_age_exceeded"
               /\ EventAgeExceeded(events[e], clock)]_vars

\* Every re-drive of an event left exactly one audit row, under the count it
\* was submitted with, and no row exists for a re-drive that did not happen:
\* not when two operators submit the same count, nor when one submits twice.
AuditPerRedrive ==
    \A e \in Events :
        /\ events[e].redriveCount <= MaxRedriveCount
        /\ \A n \in 0 .. events[e].redriveCount - 1 :
              \E a \in audits : a.id = e /\ a.expected = n
        /\ \A a, b \in audits : a.id = e /\ b.id = e =>
              /\ a.expected < events[e].redriveCount
              /\ a.expected = b.expected => a = b

\* An ending and its undoing: an event that is done stays done, one that is
\* given up had its whole window, and each of its re-drives is on record.
RedrivesSound == ClosedIsFinal /\ WindowRespected /\ []AuditPerRedrive

\* What r2_upload_pending tells an operator: an event given up for its upload
\* budget is flagged, and a published result never is, whatever a slow worker
\* writes after losing its lease.
UploadPendingTruthful ==
    \A e \in Events : Kind[e] = "materialize" =>
        /\ events[e].reason = "material_upload_budget_exhausted" => uploadPending[e]
        /\ events[e].status = "delivered" => ~uploadPending[e]

\* An open event is never parked: if everybody holding it died now, it would
\* be claimable within one lease or one backoff, whichever is longer.
WakesInTime ==
    \A e \in Events : events[e].status \in Open =>
        /\ events[e].next <= clock + MaxDelay
        /\ events[e].until <= clock + LeaseDuration

\* provider_result_materializer.go says that dependency failures do not
\* consume the material-upload budget.  The budget is compared with
\* attempt_count, which every claim increments, so they do.
BudgetSpentOnMediaOnly ==
    \A e \in Events :
        events[e].reason = "material_upload_budget_exhausted" =>
            mediaFailures[e] >= MaterialUploadRetryBudget
----------------------------------------------------------------------------
(* The inductive invariant behind the properties above.                    *)

\* A claimed event carries the token of its latest claim, any other no lease.
TokenOfLatestClaim ==
    \A e \in Events :
        /\ events[e].status \in Claimed => events[e].token = events[e].attempts
        /\ events[e].status \notin Claimed =>
            events[e].token = NoToken /\ events[e].until = NoTime

\* What a worker's copy still says: its token is that of an earlier claim,
\* and as long as the token is alive the retry window has not moved.
CopyCurrentWhileOwned ==
    \A w \in Workers : held[w] # Idle =>
        LET h == held[w]
            doc == events[h.id]
        IN  /\ h.ev.token > 0
            /\ h.ev.token = h.ev.attempts
            /\ h.ev.token <= doc.attempts
            /\ Owns(w) => /\ h.ev.created = doc.created
                          /\ h.ev.redriveAt = doc.redriveAt
                          /\ h.ev.redriveBase = doc.redriveBase

TokensDistinct ==
    \A v, w \in Workers :
        v # w /\ held[v] # Idle /\ held[w] # Idle /\ held[v].id = held[w].id
            => held[v].ev.token # held[w].ev.token

\* Between deciding to give up and doing so the decision stays right.
DecisionStands ==
    \A w \in Workers : held[w] # Idle =>
        /\ held[w].phase # "io" => Kind[held[w].id] = "materialize"
        /\ held[w].phase \in {"mark", "attention"} =>
            /\ held[w].reason # "none"
            /\ Owns(w) =>
                LET doc == events[held[w].id]
                IN  /\ held[w].reason = "material_upload_budget_exhausted" =>
                            RetryBudgetExhausted(doc)
                    /\ held[w].reason = "event_age_exceeded" =>
                            EventAgeExceeded(doc, clock)
        /\ held[w].phase = "attention" /\ Owns(w) => uploadPending[held[w].id]

ReasonOnlyInAttention ==
    \A e \in Events : events[e].reason # "none" => events[e].status = "needs_attention"

UnclaimedBeforeEnqueue ==
    \A e \in Events : events[e].status = "absent" =>
        events[e].attempts = 0 /\ events[e].redriveCount = 0

IInv ==
    /\ TypeOK
    /\ UnclaimedBeforeEnqueue
    /\ TokenOfLatestClaim
    /\ CopyCurrentWhileOwned
    /\ TokensDistinct
    /\ DecisionStands
    /\ ReasonOnlyInAttention
    /\ UploadPendingTruthful
    /\ WakesInTime
    /\ AuditPerRedrive
=============================================================================
