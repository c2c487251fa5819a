----------------------------- MODULE Submission -----------------------------
(***************************************************************************)
(* First submission of one generation step to its provider:                *)
(* worker/generation_submission.go and generation_submission_b2b.go over   *)
(* data/generation_submission_repository.go and provider_submission.go,    *)
(* racing the user's cancellation (data/generation_cancel.go).             *)
(*                                                                         *)
(* Every multi-document write runs in a MongoDB transaction (data/tx.go).  *)
(* A transaction reads from the snapshot of its first operation and aborts *)
(* when a document it WRITES changed since; nothing protects a document it *)
(* only reads.  A transaction that writes every document it depends on is  *)
(* therefore one step here; one that also depends on a document it only    *)
(* reads is two steps, the snapshot and the commit.                        *)
(*                                                                         *)
(* Time is abstract: a lease may expire at any moment and a backoff may    *)
(* end at any moment.                                                      *)
(***************************************************************************)
EXTENDS Integers

CONSTANTS
    Workers,        \* submission workers, over all processes
    User,           \* the client that may cancel the creation
    NoOne,          \* no worker; no snapshot
    Providers       \* the routes a step may be frozen with: "local", "b2b"

ASSUME SubmissionAssumption ==
    /\ User \notin Workers
    /\ NoOne \notin Workers \cup {User}
    /\ Providers \subseteq {"local", "b2b"}

VARIABLES
    db,         \* the documents of the creation, as committed
    leased,     \* lease_until of the submission event lies in the future
    work,       \* where each worker stands, and what it read
    snap,       \* the snapshot of each open transaction
    inflight,   \* submit requests on their way to the provider
    outcome,    \* what the provider made of the idempotency key
    posts       \* history: submit requests ever sent

vars == <<db, leased, work, snap, inflight, outcome, posts>>
----------------------------------------------------------------------------
Open == {"pending", "dispatching", "reconciling"}
Claimed == {"dispatching", "reconciling"}

Creation == {"pending_submission", "cancelling", "submission_failed", "confiscated"}
Step == [provider : Providers,      \* the frozen route
         status : {"ready", "submitting", "reconciling", "submitted",
                   "submission_failed", "confiscated"},
         intent : BOOLEAN,      \* submission_intent exists
         bound : BOOLEAN]       \* external_execution_id exists
Reservation == [status : {"reserved", "reversed", "confiscated"},
                gate : {"absent", "open", "reversed", "confiscated"}]

\* A worker holds one claim at a time, so the holder identifies the token.
\* again: attempt_count > 1.
Event == [status : Open \cup {"delivered", "failed"},
          holder : Workers \cup {NoOne}, claims : 0 .. 2]

Database == [creation : Creation, step : Step, reservation : Reservation,
             event : Event, recovery : {"absent"} \cup Open,
             cancel : {"absent", "pending"}]

Phases == {"idle", "claimed", "submit", "prepare", "preparing", "post", "wait",
           "lookup", "bind", "binding", "reject", "confiscate", "unknown", "requeue"}

\* seen: the creation status in the record loaded after the claim.
Work == [phase : Phases, status : Claimed, again : BOOLEAN, seen : Creation]

Outcomes == {"none", "accepted", "refused"}

TypeOK ==
    /\ db \in Database
    /\ leased \in BOOLEAN
    /\ work \in [Workers -> Work]
    /\ snap \in [Workers \cup {User} -> Database \cup {NoOne}]
    /\ inflight \in Nat
    /\ outcome \in Outcomes
    /\ posts \in Nat

Idle == [phase |-> "idle", status |-> "dispatching", again |-> FALSE,
         seen |-> "pending_submission"]

\* A creation just committed by CreateReserved with its ready first step.
Init ==
    /\ \E provider \in Providers :
          db = [creation |-> "pending_submission",
                step |-> [provider |-> provider, status |-> "ready",
                          intent |-> FALSE, bound |-> FALSE],
                reservation |-> [status |-> "reserved", gate |-> "absent"],
                event |-> [status |-> "pending", holder |-> NoOne, claims |-> 0],
                recovery |-> "absent", cancel |-> "absent"]
    /\ leased = FALSE
    /\ work = [w \in Workers |-> Idle]
    /\ snap = [p \in Workers \cup {User} |-> NoOne]
    /\ inflight = 0
    /\ outcome = "none"
    /\ posts = 0
----------------------------------------------------------------------------
(* Conditions the repository puts into its filters.                        *)

Owns(d, w) == d.event.status \in Claimed /\ d.event.holder = w

\* recoverableSubmissionStepFilter
Recoverable(step) ==
    \/ step.status \in {"ready", "reconciling"}
    \/ step.status = "submitting" /\ step.provider = "b2b" /\ step.intent /\ ~step.bound

\* TransitionReservation, ReserveInTx's gate: what still may be settled.
Settleable(reservation) ==
    reservation.status = "reserved" /\ reservation.gate \in {"absent", "open"}

\* Mistaken variant: the job of a step whose outcome was unknown is refused.
TakesJobBeforeReconciling(step) ==
    ~step.bound /\ step.status \in {IF step.provider = "b2b" THEN "submitting" ELSE "ready"}

\* updateStepSubmitted and the step filter of BindProviderJob
TakesJob(step) ==
    /\ ~step.bound
    /\ step.status \in {IF step.provider = "b2b" THEN "submitting" ELSE "ready", "reconciling"}

\* The step filter of PrepareProviderSubmission
AwaitsPermission(step) == step.status = "ready" /\ ~step.intent /\ ~step.bound
----------------------------------------------------------------------------
(* Claims and leases (data/outbox_repository.go, module Outbox).           *)

\* Mistaken variant: an expired claim of either kind is taken over as
\* reconciling.
TakeoverAlwaysReconciling(status) ==
    IF status \in Claimed THEN "reconciling" ELSE "dispatching"

ClaimedStatus(status) == IF status = "dispatching" THEN "reconciling" ELSE "dispatching"

\* Mistaken variant: the local path judges by the delivery status alone.
MustLookUpByStatus(status, again) == status = "reconciling"

\* DeliverOnce: when the claim alone already forbids a submit.
MustLookUp(status, again) ==
    status = "reconciling" \/ (db.step.provider = "local" /\ again)

Goto(w, phase) == work' = [work EXCEPT ![w].phase = phase]

Leave(w) == work' = [work EXCEPT ![w] = Idle]

In(w, phase) == work[w].phase = phase

Claim(w) ==
    LET status == ClaimedStatus(db.event.status)
        claims == IF db.event.claims = 0 THEN 1 ELSE 2
    IN  /\ In(w, "idle")
        /\ db.event.status \in Open
        /\ ~leased
        /\ db' = [db EXCEPT !.event = [status |-> status, holder |-> w, claims |-> claims]]
        /\ leased' = TRUE
        /\ work' = [work EXCEPT ![w] = [Idle EXCEPT !.phase = "claimed",
                                        !.status = status, !.again = claims > 1]]
        /\ UNCHANGED <<snap, inflight, outcome, posts>>

Expire ==
    /\ leased
    /\ leased' = FALSE
    /\ UNCHANGED <<db, work, snap, inflight, outcome, posts>>

Unleased(status) == [status |-> status, holder |-> NoOne, claims |-> db.event.claims]

\* What ends a claim: the event's fenced last write, then the worker is idle.
\* A write that misses its filters changes nothing (resolveConflict).
Settle(w, allowed, new) ==
    /\ db' = IF allowed THEN new ELSE db
    /\ leased' = (leased /\ ~allowed)
    /\ Leave(w)
    /\ UNCHANGED <<snap, inflight, outcome, posts>>

Remote == UNCHANGED <<db, leased, snap, inflight, outcome, posts>>
----------------------------------------------------------------------------
(* From the claim to the decision.                                         *)

\* ClaimedSubmission: the event must still be this worker's, the step open,
\* and the creation pending or cancelling.
Loadable(w) ==
    /\ Owns(db, w)
    /\ Recoverable(db.step)
    /\ db.creation \in {"pending_submission", "cancelling"}

Loaded(w, phase) ==
    /\ In(w, "claimed")
    /\ work' = [work EXCEPT ![w].phase = IF Loadable(w) THEN phase ELSE "idle",
                            ![w].seen = db.creation]
    /\ Remote

LoadForSubmit(w) == ~MustLookUp(work[w].status, work[w].again) /\ Loaded(w, "submit")

LoadForLookup(w) == MustLookUp(work[w].status, work[w].again) /\ Loaded(w, "lookup")

\* submit, local route: a bad payload, or any failure of the content review,
\* rejects; a review that says no confiscates; else the request goes out.
SubmitLocal(w) ==
    /\ db.step.provider = "local"
    /\ In(w, "submit")
    /\ \E phase \in {"reject", "confiscate", "post"} : Goto(w, phase)
    /\ Remote

\* submitB2B: an existing intent means the request may be out already.  A
\* catalog that cannot be read requeues; a recipe it can never map rejects.
SubmitB2B(w) ==
    /\ db.step.provider = "b2b"
    /\ In(w, "submit")
    /\ IF db.step.intent THEN Goto(w, "lookup")
       ELSE IF db.step.status # "ready" \/ work[w].seen = "cancelling" THEN Leave(w)
       ELSE \E phase \in {"prepare", "reject", "requeue"} : Goto(w, phase)
    /\ Remote
----------------------------------------------------------------------------
(* PrepareProviderSubmission: the one permission to send the request.      *)

Begin(p) == snap' = [snap EXCEPT ![p] = db]

End(p) == snap' = [snap EXCEPT ![p] = NoOne]

\* The written documents still are what the transaction saw.
NoWriteConflict(p, documents) == \A k \in documents : db[k] = snap[p][k]

PrepareBegin(w) ==
    /\ In(w, "prepare")
    /\ Begin(w)
    /\ Goto(w, "preparing")
    /\ UNCHANGED <<db, leased, inflight, outcome, posts>>

Preparable(d, w) ==
    /\ Owns(d, w)
    /\ d.event.status = "dispatching"
    /\ d.creation = "pending_submission"
    /\ Settleable(d.reservation)
    /\ AwaitsPermission(d.step)
    /\ d.recovery = "absent"

Prepared(d) ==
    [d EXCEPT !.reservation.gate = "open", !.step.intent = TRUE,
              !.step.status = "submitting", !.recovery = "pending"]

\* Committed: the request may be sent.  Filters missed: look up instead.  A
\* document it writes has changed: the driver runs the transaction again.
PrepareCommit(w) ==
    /\ In(w, "preparing")
    /\ IF ~Preparable(snap[w], w) THEN Goto(w, "lookup") /\ UNCHANGED db
       ELSE IF NoWriteConflict(w, {"event", "reservation", "step", "recovery"})
       THEN Goto(w, "post") /\ db' = Prepared(db)
       ELSE Goto(w, "prepare") /\ UNCHANGED db
    /\ End(w)
    /\ UNCHANGED <<leased, inflight, outcome, posts>>
----------------------------------------------------------------------------
(* The request and its answer.                                             *)

\* Local validation may still fail before anything leaves the process.
Post(w) ==
    /\ In(w, "post")
    /\ \/ /\ posts' = posts + 1
          /\ inflight' = inflight + 1
          /\ Goto(w, "wait")
       \/ Goto(w, "reject") /\ UNCHANGED <<posts, inflight>>
    /\ UNCHANGED <<db, leased, snap, outcome>>

\* The provider, external.  A request may arrive long after its sender gave
\* up waiting, or never.
ProviderReceives ==
    /\ inflight > 0
    /\ inflight' = inflight - 1
    /\ \/ outcome' = "accepted"
       \/ outcome # "accepted" /\ outcome' = "refused"
       \/ UNCHANGED outcome
    /\ UNCHANGED <<db, leased, work, snap, posts>>

\* Mistaken variant: a submit that timed out counts as refused.
AfterNoAnswerReject == "reject"

AfterNoAnswer == "unknown"

\* The B2B platform may also answer that it knows the key already: the worker
\* looks the job up at once.
Answer(w) ==
    /\ In(w, "wait")
    /\ \/ outcome = "accepted" /\ Goto(w, "bind")
       \/ outcome = "refused" /\ Goto(w, "reject")
       \/ Goto(w, AfterNoAnswer)
       \/ db.step.provider = "b2b" /\ Goto(w, "lookup")
    /\ Remote

NothingFound == "requeue"

LookupFinds(w) ==
    /\ In(w, "lookup")
    /\ db.step.provider = "b2b" => db.step.intent
    /\ outcome = "accepted"
    /\ Goto(w, "bind")
    /\ Remote

\* 404, a transport failure or a job not visible yet prove nothing.  Only the
\* local platform may report a refusal.  A B2B look-up without an intent
\* returns an error that ends the runner.
LookupFails(w) ==
    /\ In(w, "lookup")
    /\ IF db.step.provider = "b2b" /\ ~db.step.intent THEN Leave(w)
       ELSE \/ Goto(w, NothingFound)
            \/ db.step.provider = "local" /\ outcome = "refused" /\ Goto(w, "reject")
    /\ Remote
----------------------------------------------------------------------------
(* Recording the conclusion.                                               *)

\* MarkSubmitted, local route
MarkSubmitted(w) ==
    /\ db.step.provider = "local"
    /\ In(w, "bind")
    /\ Settle(w, Owns(db, w) /\ TakesJob(db.step),
              [db EXCEPT !.event = Unleased("delivered"),
                         !.step.status = "submitted", !.step.bound = TRUE])

\* BindProviderJob, B2B route: a transaction that reads the creation.
BindBegin(w) ==
    /\ db.step.provider = "b2b"
    /\ In(w, "bind")
    /\ Begin(w)
    /\ Goto(w, "binding")
    /\ UNCHANGED <<db, leased, inflight, outcome, posts>>

Bindable(d, w) ==
    Owns(d, w) /\ TakesJob(d.step) /\ d.recovery \in {"pending", "reconciling"}

\* Binding schedules the provider cancellation if its snapshot says cancelling.
BindCommit(w) ==
    /\ In(w, "binding")
    /\ IF ~Bindable(snap[w], w) THEN Leave(w) /\ UNCHANGED <<db, leased>>
       ELSE IF NoWriteConflict(w, {"event", "step", "recovery"})
       THEN /\ db' = [db EXCEPT !.event = Unleased("delivered"),
                                !.step.status = "submitted", !.step.bound = TRUE,
                                !.cancel = IF snap[w].creation = "cancelling"
                                           THEN "pending" ELSE @]
            /\ leased' = FALSE
            /\ Leave(w)
       ELSE Goto(w, "bind") /\ UNCHANGED <<db, leased>>
    /\ End(w)
    /\ UNCHANGED <<inflight, outcome, posts>>

\* MarkReconciling
MarkReconciling(w) ==
    /\ In(w, "unknown")
    /\ Settle(w, Owns(db, w) /\ Recoverable(db.step),
              [db EXCEPT !.event = Unleased("reconciling"), !.step.status = "reconciling"])

Requeue(w) ==
    /\ In(w, "requeue")
    /\ Settle(w, Owns(db, w), [db EXCEPT !.event = Unleased("pending")])

Closable(w) ==
    /\ Owns(db, w)
    /\ Recoverable(db.step)
    /\ db.creation = "pending_submission"
    /\ Settleable(db.reservation)

\* Mistaken variant: the reservation is left as it is.
ClosedWithoutSettlement(stepStatus, reservationStatus) ==
    [db EXCEPT !.event = Unleased("failed"), !.creation = stepStatus,
               !.step.status = stepStatus]

\* Mistaken variant: the two kinds of status are swapped.
ClosedAsSwapped(stepStatus, reservationStatus) ==
    [db EXCEPT !.event = Unleased("failed"), !.creation = reservationStatus,
               !.step.status = reservationStatus,
               !.reservation = [status |-> stepStatus, gate |-> stepStatus]]

\* Creation, step, reservation with its gate, and event in one transaction.
ClosedAs(stepStatus, reservationStatus) ==
    [db EXCEPT !.event = Unleased("failed"), !.creation = stepStatus,
               !.step.status = stepStatus,
               !.reservation = [status |-> reservationStatus, gate |-> reservationStatus]]

Reject(w) ==
    In(w, "reject") /\ Settle(w, Closable(w), ClosedAs("submission_failed", "reversed"))

Confiscate(w) ==
    In(w, "confiscate") /\ Settle(w, Closable(w), ClosedAs("confiscated", "confiscated"))

\* The process dies, or an error or a failed commit ends DeliverOnce.
Crash(w) ==
    /\ ~In(w, "idle")
    /\ Leave(w)
    /\ End(w)
    /\ UNCHANGED <<db, leased, inflight, outcome, posts>>
----------------------------------------------------------------------------
(* The reconcile worker (worker/provider_reconcile.go) holds the recovery  *)
(* event now and then; before the job is bound it only requeues it.        *)

ReconcileClaim ==
    /\ db.recovery \in Open
    /\ db' = [db EXCEPT !.recovery = ClaimedStatus(@)]
    /\ UNCHANGED <<leased, work, snap, inflight, outcome, posts>>

ReconcileRequeue ==
    /\ db.recovery \in Claimed
    /\ ~db.step.bound
    /\ db' = [db EXCEPT !.recovery = "pending"]
    /\ UNCHANGED <<leased, work, snap, inflight, outcome, posts>>
----------------------------------------------------------------------------
(* RequestCancellation: the transaction reads the steps and writes the     *)
(* creation.  A creation already cancelling is only counted.               *)

CancelBegin ==
    /\ snap[User] = NoOne
    /\ Begin(User)
    /\ UNCHANGED <<db, leased, work, inflight, outcome, posts>>

\* Mistaken variant: a step that was never sent is cancelled as well.
CancellableBeforeSubmit(d) ==
    d.creation = "pending_submission" /\ d.step.provider = "b2b"

Cancellable(d) ==
    d.creation = "pending_submission" /\ d.step.provider = "b2b" /\ d.step.intent

CancelCommit ==
    /\ snap[User] # NoOne
    /\ db' = IF Cancellable(snap[User]) /\ NoWriteConflict(User, {"creation", "cancel"})
             THEN [db EXCEPT !.creation = "cancelling",
                             !.cancel = IF snap[User].step.bound THEN "pending" ELSE @]
             ELSE db
    /\ End(User)
    /\ UNCHANGED <<leased, work, inflight, outcome, posts>>
----------------------------------------------------------------------------
WorkerStep(w) ==
    \/ Claim(w)
    \/ LoadForSubmit(w) \/ LoadForLookup(w)
    \/ SubmitLocal(w) \/ SubmitB2B(w)
    \/ PrepareBegin(w) \/ PrepareCommit(w)
    \/ Post(w) \/ Answer(w)
    \/ LookupFinds(w) \/ LookupFails(w)
    \/ MarkSubmitted(w)
    \/ BindBegin(w) \/ BindCommit(w)
    \/ MarkReconciling(w) \/ Requeue(w)
    \/ Reject(w) \/ Confiscate(w)
    \/ Crash(w)

Next ==
    \/ \E w \in Workers : WorkerStep(w)
    \/ Expire
    \/ ProviderReceives
    \/ ReconcileClaim \/ ReconcileRequeue
    \/ CancelBegin \/ CancelCommit

Spec == Init /\ [][Next]_vars

\* Leases run out and no worker stands still.  Workers may crash, lose their
\* lease or miss a job in a look-up, again and again, but not every time: each
\* step towards the job is taken by some worker that still holds the event, if
\* that is possible again and again.  The reconcile worker requeues what it
\* claims with a backoff far longer than a delivery; that it does not meet every
\* binding for ever is put as: in the end it leaves the event alone.
Timely(A(_)) == \E w \in Workers : Owns(db, w) /\ A(w)

Concludes(w) == PrepareCommit(w) \/ Reject(w)

MapsRecipe(w) == SubmitB2B(w) /\ work'[w].phase # "requeue"

Binds(w) == MarkSubmitted(w) \/ BindBegin(w)

CommitsBinding(w) == BindCommit(w) /\ NoWriteConflict(w, {"event", "step", "recovery"})

Fairness ==
    /\ WF_vars(Expire)
    /\ \A w \in Workers : WF_vars(WorkerStep(w))
    /\ WF_vars(ReconcileRequeue)
    /\ <>[][~ReconcileClaim]_vars
    /\ SF_vars(Timely(LoadForSubmit))
    /\ SF_vars(Timely(MapsRecipe))
    /\ SF_vars(Timely(PrepareBegin))
    /\ SF_vars(Timely(Concludes))
    /\ SF_vars(Timely(LoadForLookup))
    /\ SF_vars(Timely(LookupFinds))
    /\ SF_vars(Timely(Binds))
    /\ SF_vars(Timely(CommitsBinding))

FairSpec == Spec /\ Fairness
----------------------------------------------------------------------------
(* Properties.                                                             *)

\* The request leaves at most once, over all workers, retries, takeovers and
\* crashes: the local path because only the very first claim may send it, the
\* B2B path because the permission is granted by one transaction.
AtMostOnePost == posts <= 1

\* Money moves back, or is confiscated, only when no job exists and none can
\* appear: no request is out, and nobody holds a permission to send one.
SettledWithoutJob ==
    db.reservation.status # "reserved" =>
        /\ outcome # "accepted"
        /\ inflight = 0
        /\ \A w \in Workers : ~In(w, "post")

\* The documents of a creation tell the same story.
StoryAgrees ==
    /\ db.reservation.status = "reversed" <=> db.creation = "submission_failed"
    /\ db.reservation.status = "confiscated" <=> db.creation = "confiscated"
    /\ db.event.status = "failed" <=> db.reservation.status # "reserved"
    /\ db.event.status = "delivered" <=> db.step.bound
    /\ db.step.bound => db.step.status = "submitted" /\ outcome = "accepted"
    /\ db.cancel = "pending" => db.step.bound /\ db.creation = "cancelling"
    /\ db.creation = "cancelling" => db.step.intent /\ db.reservation.gate = "open"

\* Up to the binding, too, the diamonds and what the owner sees are decided
\* together, once, and the decision stands (MarkRejected, MarkConfiscated).
Bargain == INSTANCE Charge WITH
    money <- CASE db.reservation.status = "reserved" -> "held"
               [] db.reservation.status = "reversed" -> "returned"
               [] db.reservation.status = "confiscated" -> "forfeited",
    story <- CASE db.creation \in {"pending_submission", "cancelling"} -> "open"
               [] db.creation = "submission_failed" -> "failed"
               [] db.creation = "confiscated" -> "confiscated"

ImplementsCharge == Bargain!Spec

\* submitB2B's comment: a cancelling creation never obtains a first permission
\* to POST.  The check is a read of the creation in Prepare's snapshot.
NoPermissionOnceCancelling ==
    [][db.creation # "pending_submission" => (db'.step.intent => db.step.intent)]_vars

\* A job the provider accepted is found and bound, whoever crashed on the way.
JobEventuallyBound == outcome = "accepted" ~> db.step.bound

\* B2B route: a worker that dies before the permission is granted strands
\* nobody: the permission is granted later, or the creation is closed.
NeverStrandedBeforePermission ==
    db.step.provider = "b2b" ~> (db.step.intent \/ db.event.status \notin Open)

\* provider_submission.go says binding schedules the provider cancellation of
\* a creation that is cancelling, and generation_cancel.go relies on it.
CancelScheduled ==
    db.creation = "cancelling" /\ db.step.bound => db.cancel = "pending"
=============================================================================
