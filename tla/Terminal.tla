------------------------------ MODULE Terminal ------------------------------
(***************************************************************************)
(* From the provider's terminal answer to the end of a B2B creation with   *)
(* one step, or with two (a frame, then the video made from it):           *)
(*   - deliveries are acknowledged into the inbox and consumed, look-ups   *)
(*     ask the provider, and both apply the answer to one slot per step    *)
(*     (data/provider_inbox.go, biz/generation/provider_inbox_consumer.go, *)
(*     worker/provider_reconcile.go, biz/generation/provider_terminal.go); *)
(*   - a completed slot is materialized and published, a failed one is     *)
(*     settled with a refund, each through an outbox event written in the  *)
(*     transaction of the slot (data/generation_callback_repository.go,    *)
(*     worker/provider_result_materializer.go,                             *)
(*     worker/provider_terminal_settlement.go);                            *)
(*   - meanwhile the owner may cancel (data/generation_cancel.go).         *)
(*                                                                         *)
(* A transaction that writes every document it depends on is one step; the *)
(* cancellation, which only reads the steps, is a snapshot and a commit.   *)
(* The submission of the second step is module Submission in three         *)
(* actions, leases are those of module Outbox with abstract time.          *)
(***************************************************************************)
EXTENDS Integers

CONSTANTS
    Workers,        \* reconcile, materializer and settlement workers
    Deliveries,     \* delivery identifiers the provider uses
    Results,        \* result locators, up to their rotating signature
    Failures,       \* terminal statuses other than "completed"
    NoOne, NoResult,
    MaxRedrives,    \* bound on re-drives of one event
    MaxCrashes      \* bound on crashes of workers

ASSUME TerminalAssumption ==
    /\ NoOne \notin Workers
    /\ NoResult \notin Results
    /\ Failures \subseteq {"failed", "cancelled"}
    /\ MaxRedrives \in Nat
    /\ MaxCrashes \in Nat

VARIABLES
    creation,       \* status of the creation
    steps,          \* its step documents
    recipe,         \* the deferred recipe of the second step
    reservation,    \* status and publication gate of the reservation
    submission,     \* delivery status of the second step's submission event
    assets,         \* the assets the steps own
    events,         \* reconcile, materialize and settle events of each step
    inbox,          \* acknowledged deliveries and their consume events
    work,           \* where each worker stands
    asking,         \* a cancellation has read its snapshot
    crashes         \* crashes so far

vars == <<creation, steps, recipe, reservation, submission, assets, events,
          inbox, work, asking, crashes>>
----------------------------------------------------------------------------
Stages == {1, 2}

Nothing == [status |-> "", result |-> NoResult]

\* ProviderTerminalFact, up to the identity every path has already checked
Facts == [status : {"completed"}, result : Results]
             \cup [status : Failures, result : {NoResult}]

Step == [submit : {"absent", "blocked", "ready", "submitting", "submitted",
                   "succeeded", "generation_failed", "submission_failed"},
         job : {"none", "prepared", "bound"},   \* intent, then external job
         terminal : Facts \cup {Nothing},
         quarantined : BOOLEAN,
         uploadPending : BOOLEAN]

Kinds == {"reconcile", "materialize", "settle"}

\* young: the automatic retry window (EventAgeExceeded) is not over.
Event == [status : {"absent", "pending", "claimed", "delivered", "failed",
                    "needs_attention"},
          holder : Workers \cup {NoOne}, young : BOOLEAN, redrives : 0 .. MaxRedrives]

Delivery == [status : {"pending", "applied", "quarantined"}, stage : Stages,
             fact : Facts, event : {"open", "delivered", "failed"}]

NoDelivery == [status |-> "absent", stage |-> 1, fact |-> Nothing, event |-> "absent"]

Phases == {"idle", "claimed", "lookup", "copy", "flag", "publish", "settle",
           "deliver", "retry", "requeue", "abandon", "attention"}

TypeOK ==
    /\ creation \in {"pending_submission", "cancelling", "succeeded",
                     "generation_failed", "submission_failed"}
    /\ steps \in [Stages -> Step]
    /\ recipe \in {"none", "pending", "consumed", "abandoned"}
    /\ reservation \in [status : {"reserved", "reversed"},
                        gate : {"open", "published", "reversed"}]
    /\ submission \in {"absent", "open", "delivered", "failed"}
    /\ assets \subseteq ({"intermediate_result", "result"} \X Stages)
    /\ events \in [Kinds \X Stages -> Event]
    /\ inbox \in [Deliveries -> Delivery \cup {NoDelivery}]
    /\ work \in [Workers -> [phase : Phases, event : Kinds \X Stages]]
    /\ asking \in BOOLEAN
    /\ crashes \in 0 .. MaxCrashes

Idle == [phase |-> "idle", event |-> <<"reconcile", 1>>]

NoEvent == [status |-> "absent", holder |-> NoOne, young |-> TRUE, redrives |-> 0]

NewEvent == [NoEvent EXCEPT !.status = "pending"]

NewStep(submit, job) ==
    [submit |-> submit, job |-> job, terminal |-> Nothing,
     quarantined |-> FALSE, uploadPending |-> FALSE]

\* The first step's job has just been bound: its submission event is
\* delivered, its recovery event waits, a second step, if any, is blocked.
Init ==
    /\ creation = "pending_submission"
    /\ \E second \in {"absent", "blocked"} :
        /\ steps = <<NewStep("submitted", "bound"), NewStep(second, "none")>>
        /\ recipe = IF second = "absent" THEN "none" ELSE "pending"
    /\ reservation = [status |-> "reserved", gate |-> "open"]
    /\ submission = "absent"
    /\ assets = {}
    /\ events = [e \in Kinds \X Stages |->
                    IF e = <<"reconcile", 1>> THEN NewEvent ELSE NoEvent]
    /\ inbox = [d \in Deliveries |-> NoDelivery]
    /\ work = [w \in Workers |-> Idle]
    /\ asking = FALSE
    /\ crashes = 0
----------------------------------------------------------------------------
(* Filters shared by the repository's operations.                          *)

OneStep == steps[2].submit = "absent"

\* preTerminalCreationStatusFilter
PreTerminal == creation \in {"pending_submission", "cancelling"}

\* The gate that publication, refund and permission to submit all require.
GateOpen == reservation.status = "reserved" /\ reservation.gate = "open"

\* loadB2BSecondStepTarget
Waiting == steps[2].submit = "blocked" /\ recipe = "pending"

\* verifyUnactivatedB2BSecondStep
Unactivated == Waiting /\ submission = "absent"

\* verifyActivatedB2BSecondStep
Activated == steps[1].submit = "succeeded" /\ submission = "delivered"

\* Mistaken variant: the conflicting answer is not looked at.
LoadableResultUnfrozen(s) ==
    /\ steps[s].terminal.status = "completed"
    /\ PreTerminal
    /\ s = 1 => OneStep \/ Waiting

\* LoadProviderResultMaterialization
LoadableResult(s) ==
    /\ steps[s].terminal.status = "completed"
    /\ ~steps[s].quarantined
    /\ PreTerminal
    /\ s = 1 => OneStep \/ Waiting

\* LoadProviderTerminalSettlement
LoadableFailure(s) ==
    /\ steps[s].terminal.status \in Failures
    /\ ~steps[s].quarantined
    /\ PreTerminal
----------------------------------------------------------------------------
(* The terminal slot (ApplyProviderTerminal, domain and repository).       *)

Verdict(step, fact) ==
    IF step.quarantined THEN "quarantined"
    ELSE IF step.terminal = Nothing THEN "applied"
    ELSE IF step.terminal = fact THEN "noop" ELSE "quarantined"

\* The event that carries the answer on.
HandOff(fact) == IF fact.status = "completed" THEN "materialize" ELSE "settle"

\* Mistaken variant: the slot is written, the hand-off left for later.
ApplyTerminalAlone(s, fact) ==
    /\ steps' = [steps EXCEPT
           ![s].terminal = IF Verdict(steps[s], fact) = "applied" THEN fact ELSE @,
           ![s].quarantined = @ \/ Verdict(steps[s], fact) = "quarantined"]
    /\ events' = [events EXCEPT ![<<"reconcile", s>>].status = "delivered",
                                ![<<"reconcile", s>>].holder = NoOne]

\* One transaction: the slot, the hand-off, and the end of the look-ups.
ApplyTerminal(s, fact) ==
    LET verdict == Verdict(steps[s], fact) IN
    /\ steps' = [steps EXCEPT
           ![s].terminal = IF verdict = "applied" THEN fact ELSE @,
           ![s].quarantined = @ \/ verdict = "quarantined"]
    /\ events' = IF verdict # "applied" THEN events
                 ELSE [events EXCEPT ![<<HandOff(fact), s>>] = NewEvent,
                          ![<<"reconcile", s>>].status = "delivered",
                          ![<<"reconcile", s>>].holder = NoOne]
----------------------------------------------------------------------------
(* The inbox.                                                              *)

\* ApplyAndSchedule: the acknowledgement of a delivery for a step that has an
\* intent.  A delivery repeated with other contents is quarantined.
Receive(d, s, fact) ==
    /\ steps[s].job # "none"
    /\ \/ /\ inbox[d] = NoDelivery
          /\ inbox' = [inbox EXCEPT ![d] = [status |-> "pending", stage |-> s,
                                            fact |-> fact, event |-> "open"]]
       \/ /\ inbox[d] # NoDelivery
          /\ inbox' = IF inbox[d].stage = s /\ inbox[d].fact = fact THEN inbox
                      ELSE [inbox EXCEPT ![d].status = "quarantined"]
    /\ events' = [events EXCEPT ![<<"reconcile", inbox'[d].stage>>] =
                     IF @.status = "absent" THEN NewEvent ELSE @]
    /\ UNCHANGED <<creation, steps, recipe, reservation, submission, assets,
                   work, asking, crashes>>

\* Consume: the slot and the delivery in one transaction.  A job not bound yet
\* is retried.  A quarantined slot takes the delivery but does not apply it.
Consume(d) ==
    LET s == inbox[d].stage IN
    /\ inbox[d].event = "open"
    /\ inbox[d].status = "pending"
    /\ steps[s].job = "bound"
    /\ ApplyTerminal(s, inbox[d].fact)
    /\ inbox' = [inbox EXCEPT ![d].status =
           IF Verdict(steps[s], inbox[d].fact) = "quarantined" THEN @ ELSE "applied"]
    /\ UNCHANGED <<creation, recipe, reservation, submission, assets, work,
                   asking, crashes>>

\* The delivery contradicts itself, or what it answers.
JudgedAway(d) ==
    \/ inbox[d].status = "quarantined"
    \/ (inbox[d].status = "pending" /\ steps[inbox[d].stage].quarantined)

\* Mistaken variant: only an applied delivery is closed.
CloseDeliveryApplied(d) ==
    /\ inbox[d].event = "open"
    /\ inbox[d].status = "applied" /\ inbox' = [inbox EXCEPT ![d].event = "delivered"]
    /\ UNCHANGED <<creation, steps, recipe, reservation, submission, assets,
                   events, work, asking, crashes>>

\* The consume event is closed after the transaction, by the same delivery or
\* by a later one that finds the work done.
CloseDelivery(d) ==
    /\ inbox[d].event = "open"
    /\ \/ inbox[d].status = "applied" /\ inbox' = [inbox EXCEPT ![d].event = "delivered"]
       \/ JudgedAway(d) /\ inbox' = [inbox EXCEPT ![d].event = "failed"]
    /\ UNCHANGED <<creation, steps, recipe, reservation, submission, assets,
                   events, work, asking, crashes>>
----------------------------------------------------------------------------
(* The workers: claim, act, and close the claim under the lease token.     *)

EventOf(w) == work[w].event
StageOf(w) == work[w].event[2]
In(w, kind, phase) == work[w].phase = phase /\ work[w].event[1] = kind

Goto(w, phase) == work' = [work EXCEPT ![w].phase = phase]

Leave(w) == work' = [work EXCEPT ![w] = Idle]

\* A worker holds one claim at a time, so the holder identifies the token.
Holds(w) == events[EventOf(w)].status = "claimed" /\ events[EventOf(w)].holder = w

Documents == <<creation, steps, recipe, reservation, submission, assets>>

Local == UNCHANGED <<Documents, events, inbox, asking, crashes>>

\* ClaimByType: a waiting event, or a claim whose lease has run out.
Claim(w, e) ==
    /\ work[w].phase = "idle"
    /\ events[e].status \in {"pending", "claimed"}
    /\ events' = [events EXCEPT ![e].status = "claimed", ![e].holder = w]
    /\ work' = [work EXCEPT ![w] = [phase |-> "claimed", event |-> e]]
    /\ UNCHANGED <<Documents, inbox, asking, crashes>>

\* What the claimed event asks for: nothing yet, its work, or nothing any more.
LoadReconcile(w) ==
    /\ In(w, "reconcile", "claimed")
    /\ Goto(w, IF steps[StageOf(w)].job = "bound" THEN "lookup" ELSE "requeue")
    /\ Local

LoadMaterialize(w) ==
    /\ In(w, "materialize", "claimed")
    /\ \/ Goto(w, IF LoadableResult(StageOf(w)) THEN "copy" ELSE "abandon")
       \/ Goto(w, "retry")
    /\ Local

LoadSettle(w) ==
    /\ In(w, "settle", "claimed")
    /\ \/ Goto(w, IF LoadableFailure(StageOf(w)) THEN "settle" ELSE "abandon")
       \/ Goto(w, "retry")
    /\ Local

\* ProviderReconcileWorker: a terminal answer goes through the slot.
LookUpAnswered(w) ==
    /\ In(w, "reconcile", "lookup")
    /\ \E fact \in Facts :
        /\ ApplyTerminal(StageOf(w), fact)
        /\ Goto(w, IF Verdict(steps[StageOf(w)], fact) = "quarantined"
                   THEN "abandon" ELSE "deliver")
    /\ UNCHANGED <<creation, recipe, reservation, submission, assets, inbox,
                   asking, crashes>>

\* Still running, not found or unreachable; or a query that cannot be sent.
LookUpInconclusive(w) ==
    /\ In(w, "reconcile", "lookup")
    /\ \E phase \in {"requeue", "abandon"} : Goto(w, phase)
    /\ Local

\* The result is copied while the lease is renewed.  A dependency may fail, or
\* the medium be invalid, or the renewal show that the claim is lost.
Copy(w) ==
    /\ In(w, "materialize", "copy")
    /\ \/ Holds(w) /\ Goto(w, "publish")
       \/ ~Holds(w) /\ Leave(w)
       \/ \E phase \in {"retry", "abandon"} : Goto(w, phase)
    /\ Local

\* A media failure is given up when the window or the budget is over.
CopyFails(w) ==
    /\ In(w, "materialize", "copy")
    /\ \/ events[EventOf(w)].young /\ Goto(w, "requeue")
       \/ Goto(w, "flag")
    /\ Local

\* MarkProviderResultUploadPending: neither the token nor the quarantine is in
\* its filter.
Flaggable(step) == step.terminal.status = "completed" /\ step.submit # "succeeded"

FlagUploadPending(w) ==
    LET s == StageOf(w) IN
    /\ In(w, "materialize", "flag")
    /\ steps' = [steps EXCEPT ![s].uploadPending = @ \/ Flaggable(steps[s])]
    /\ Goto(w, IF Flaggable(steps[s]) THEN "attention" ELSE "requeue")
    /\ UNCHANGED <<creation, recipe, reservation, submission, assets, events,
                   inbox, asking, crashes>>

\* A failed marker does not cost the event: "better to keep retrying".
FlagFails(w) ==
    /\ In(w, "materialize", "flag")
    /\ Goto(w, "requeue")
    /\ Local
----------------------------------------------------------------------------
(* Publication and settlement, each one transaction.                       *)

Delivered(w) == [events EXCEPT ![EventOf(w)].status = "delivered",
                               ![EventOf(w)].holder = NoOne]

CanPublish(s) ==
    /\ LoadableResult(s)
    /\ GateOpen
    /\ steps[s].submit = "submitted"
    /\ IF s = 2 \/ OneStep THEN <<"result", s>> \notin assets
       ELSE <<"intermediate_result", s>> \notin assets /\ submission = "absent"
    /\ s = 2 => Activated

\* publishFinalProviderResult
PublishFinal(s) ==
    /\ OneStep \/ s = 2
    /\ reservation' = [reservation EXCEPT !.gate = "published"]
    /\ assets' = assets \cup {<<"result", s>>}
    /\ steps' = [steps EXCEPT ![s].submit = "succeeded", ![s].uploadPending = FALSE]
    /\ creation' = "succeeded"
    /\ UNCHANGED <<recipe, submission>>

\* activateB2BSecondStep and reopenCreationAfterCompletedFirstStage: the gate
\* is only read, and so is a creation that is not cancelling.
ActivateSecondStep(s) ==
    /\ ~OneStep /\ s = 1
    /\ assets' = assets \cup {<<"intermediate_result", s>>}
    /\ recipe' = "consumed"
    /\ steps' = [steps EXCEPT ![1].submit = "succeeded", ![1].uploadPending = FALSE,
                              ![2].submit = "ready"]
    /\ submission' = "open"
    /\ creation' = "pending_submission"
    /\ UNCHANGED reservation

Publish(w) ==
    /\ In(w, "materialize", "publish")
    /\ Holds(w) /\ CanPublish(StageOf(w))
    /\ PublishFinal(StageOf(w)) \/ ActivateSecondStep(StageOf(w))
    /\ events' = Delivered(w)
    /\ Leave(w)
    /\ UNCHANGED <<inbox, asking, crashes>>

CanSettle(s) ==
    /\ LoadableFailure(s)
    /\ GateOpen \/ reservation.status = "reversed"      \* ReverseInTx
    /\ steps[s].submit = "submitted"
    /\ s = 1 => OneStep \/ Unactivated
    /\ s = 2 => Activated

\* Mistaken variant: the blocked second step of a refunded video survives.
SettledLeavingBlocked(s) ==
    /\ steps' = [steps EXCEPT ![s].submit = "generation_failed"]
    /\ UNCHANGED recipe

\* terminateBlockedB2BSecondStep
SettledSteps(s) ==
    /\ steps' = [t \in Stages |->
           IF t = s \/ (t = 2 /\ ~OneStep)
           THEN [steps[t] EXCEPT !.submit = "generation_failed"] ELSE steps[t]]
    /\ recipe' = IF s = 1 /\ ~OneStep THEN "abandoned" ELSE recipe

\* Mistaken variant: the reservation is not reversed.
SettleUnrefunded(w) ==
    /\ In(w, "settle", "settle")
    /\ Holds(w) /\ CanSettle(StageOf(w))
    /\ SettledSteps(StageOf(w))
    /\ creation' = "generation_failed"
    /\ events' = Delivered(w)
    /\ Leave(w)
    /\ UNCHANGED <<reservation, submission, assets, inbox, asking, crashes>>

\* ReverseInTx, then SettleProviderTerminal
SettleFailure(w) ==
    /\ In(w, "settle", "settle")
    /\ Holds(w) /\ CanSettle(StageOf(w))
    /\ reservation' = [status |-> "reversed", gate |-> "reversed"]
    /\ SettledSteps(StageOf(w))
    /\ creation' = "generation_failed"
    /\ events' = Delivered(w)
    /\ Leave(w)
    /\ UNCHANGED <<submission, assets, inbox, asking, crashes>>

\* A transaction that finds a conflict is final, any other failure is not.
PublishFails(w) ==
    /\ In(w, "materialize", "publish")
    /\ \/ ~(Holds(w) /\ CanPublish(StageOf(w))) /\ Goto(w, "abandon")
       \/ Goto(w, "retry")
    /\ Local

SettleFails(w) ==
    /\ In(w, "settle", "settle")
    /\ \/ ~(Holds(w) /\ CanSettle(StageOf(w))) /\ Goto(w, "abandon")
       \/ Goto(w, "retry")
    /\ Local
----------------------------------------------------------------------------
(* The end of a claim.                                                     *)

\* Mistaken variant: any failure of the worker ends the event for good.
EndingFailsOnRetry(phase, young) ==
    IF phase = "deliver" THEN "delivered"
    ELSE IF phase \in {"abandon", "retry"} THEN "failed"
    ELSE IF phase = "requeue" THEN "pending"
    ELSE "needs_attention"

\* Mistaken variant: a retry is written under the name of the worker's outcome.
EndingByOutcome(phase, young) ==
    IF phase = "deliver" THEN "delivered"
    ELSE IF phase = "abandon" THEN "failed"
    ELSE IF phase \in {"requeue", "retry"} /\ young THEN "pending"
    ELSE phase

\* Status the event gets: a failed dependency is retried within the window.
Ending(phase, young) ==
    IF phase = "deliver" THEN "delivered"
    ELSE IF phase = "abandon" THEN "failed"
    ELSE IF phase = "requeue" \/ (phase = "retry" /\ young) THEN "pending"
    ELSE "needs_attention"

\* A claim that is lost changes nothing.
Conclude(w) ==
    /\ work[w].phase \in {"deliver", "retry", "requeue", "abandon", "attention"}
    /\ events' = IF ~Holds(w) THEN events
                 ELSE [events EXCEPT ![EventOf(w)].holder = NoOne,
                          ![EventOf(w)].status =
                              Ending(work[w].phase, events[EventOf(w)].young)]
    /\ Leave(w)
    /\ UNCHANGED <<Documents, inbox, asking, crashes>>

Crash(w) ==
    /\ work[w].phase # "idle"
    /\ crashes < MaxCrashes
    /\ crashes' = crashes + 1
    /\ Leave(w)
    /\ UNCHANGED <<Documents, events, inbox, asking>>

\* The automatic window of a materialization or a settlement ends.
Age(e) ==
    /\ e[1] # "reconcile"
    /\ events[e].status \in {"pending", "claimed"}
    /\ events[e].young
    /\ events' = [events EXCEPT ![e].young = FALSE]
    /\ UNCHANGED <<Documents, inbox, work, asking, crashes>>

\* Redrive of biz/redrive: the gate is run again, and a settlement needs a
\* reservation that is still reserved.
Redrive(e) ==
    /\ events[e].status = "needs_attention"
    /\ events[e].redrives < MaxRedrives
    /\ e[1] = "materialize" => LoadableResult(e[2])
    /\ e[1] = "settle" => LoadableFailure(e[2]) /\ reservation.status = "reserved"
    /\ events' = [events EXCEPT ![e].status = "pending", ![e].young = TRUE,
                                ![e].redrives = @ + 1]
    /\ UNCHANGED <<Documents, inbox, work, asking, crashes>>
----------------------------------------------------------------------------
(* The second step's submission, in brief (module Submission).             *)

\* PrepareProviderSubmission: the permission, with the step's recovery event.
PrepareSecond ==
    /\ steps[2].submit = "ready"
    /\ creation = "pending_submission"
    /\ GateOpen
    /\ steps' = [steps EXCEPT ![2].submit = "submitting", ![2].job = "prepared"]
    /\ events' = [events EXCEPT ![<<"reconcile", 2>>] = NewEvent]
    /\ UNCHANGED <<creation, recipe, reservation, submission, assets, inbox,
                   work, asking, crashes>>

\* BindProviderJob
BindSecond ==
    /\ steps[2].submit = "submitting"
    /\ steps' = [steps EXCEPT ![2].submit = "submitted", ![2].job = "bound"]
    /\ submission' = "delivered"
    /\ UNCHANGED <<creation, recipe, reservation, assets, events, inbox, work,
                   asking, crashes>>

\* MarkRejected with its reversal
RejectSecond ==
    /\ steps[2].submit \in {"ready", "submitting"}
    /\ creation = "pending_submission"
    /\ GateOpen
    /\ steps' = [steps EXCEPT ![2].submit = "submission_failed"]
    /\ creation' = "submission_failed"
    /\ reservation' = [status |-> "reversed", gate |-> "reversed"]
    /\ submission' = "failed"
    /\ UNCHANGED <<recipe, assets, events, inbox, work, asking, crashes>>
----------------------------------------------------------------------------
(* RequestCancellation: the snapshot, then the write of the creation, which *)
(* misses when the creation has been written since.                        *)

\* cancelCandidates: no submitted step may have a terminal answer.
Cancellable ==
    /\ creation = "pending_submission"
    /\ \A s \in Stages : steps[s].job # "none" => steps[s].terminal = Nothing

CancelBegin ==
    /\ ~asking
    /\ Cancellable
    /\ asking' = TRUE
    /\ UNCHANGED <<Documents, events, inbox, work, crashes>>

CancelCommit ==
    /\ asking
    /\ asking' = FALSE
    /\ creation' = IF creation = "pending_submission" THEN "cancelling" ELSE creation
    /\ UNCHANGED <<steps, recipe, reservation, submission, assets, events,
                   inbox, work, crashes>>
----------------------------------------------------------------------------
WorkerStep(w) ==
    \/ LoadReconcile(w) \/ LoadMaterialize(w) \/ LoadSettle(w)
    \/ LookUpAnswered(w) \/ LookUpInconclusive(w)
    \/ Copy(w) \/ CopyFails(w) \/ FlagUploadPending(w) \/ FlagFails(w)
    \/ Publish(w) \/ PublishFails(w)
    \/ SettleFailure(w) \/ SettleFails(w)
    \/ Conclude(w)

Next ==
    \/ \E w \in Workers : WorkerStep(w) \/ Crash(w)
    \/ \E w \in Workers, e \in Kinds \X Stages : Claim(w, e)
    \/ \E e \in Kinds \X Stages : Age(e) \/ Redrive(e)
    \/ \E d \in Deliveries, s \in Stages, fact \in Facts : Receive(d, s, fact)
    \/ \E d \in Deliveries : Consume(d) \/ CloseDelivery(d)
    \/ PrepareSecond \/ BindSecond \/ RejectSecond
    \/ CancelBegin \/ CancelCommit

Spec == Init /\ [][Next]_vars

\* The runner keeps every worker polling and retrying; windows end with time.
\* The upload mark is retried without end, so the database must take it some
\* time.  Nothing is assumed of the provider, the object store or the operator.
Fairness ==
    /\ \A w \in Workers : WF_vars(WorkerStep(w)) /\ SF_vars(FlagUploadPending(w))
    /\ \A e \in Kinds \X Stages :
        /\ SF_vars(\E w \in Workers : Claim(w, e))
        /\ WF_vars(Age(e))
    /\ \A d \in Deliveries : WF_vars(Consume(d)) /\ WF_vars(CloseDelivery(d))

FairSpec == Spec /\ Fairness
----------------------------------------------------------------------------
(* What must hold.                                                         *)

Ended(status) == status \in {"succeeded", "generation_failed", "submission_failed"}

\* The diamonds and what the owner sees are decided together, once: the
\* repository never publishes after a refund, refunds after a publication, or
\* ends the creation and leaves the reservation as it was.
Bargain == INSTANCE Charge WITH
    money <- IF reservation.status = "reversed" THEN "returned"
             ELSE IF reservation.gate = "published" THEN "kept" ELSE "held",
    story <- IF creation = "succeeded" THEN "delivered"
             ELSE IF PreTerminal THEN "open" ELSE "failed"

ImplementsCharge == Bargain!Spec

\* The step graph: a result is shown exactly by a creation that succeeded; a
\* second step runs only on an owned frame of a successful first one; and a
\* refund leaves nothing that could still run or be published.
GraphConsistent ==
    /\ creation = "succeeded" <=> \E s \in Stages : <<"result", s>> \in assets
    /\ recipe = "consumed" <=> <<"intermediate_result", 1>> \in assets
    /\ steps[2].job # "none" => recipe = "consumed" /\ steps[1].submit = "succeeded"
    /\ reservation.status = "reversed" =>
        \A s \in Stages : steps[s].submit \notin {"blocked", "ready", "submitting", "submitted"}

\* The first terminal answer of a job stays its answer, and once a second one
\* contradicts it, no step is published or refunded on it any more, whatever a
\* worker read before.
FirstAnswerStands ==
    [][\A s \in Stages :
        /\ steps[s].terminal # Nothing => steps'[s].terminal = steps[s].terminal
        /\ steps[s].quarantined =>
            steps'[s].quarantined /\ steps'[s].submit = steps[s].submit]_vars

\* A job that failed can always still be refunded: until it is, its settlement
\* event waits, is claimed, or is with the operator.  Only a contradicting
\* answer may end it otherwise.
RefundNotLost ==
    \A s \in Stages :
        steps[s].terminal.status \in Failures /\ ~steps[s].quarantined =>
            \/ Ended(creation)
            \/ events[<<"settle", s>>].status \in {"pending", "claimed", "needs_attention"}

----------------------------------------------------------------------------
(* The inductive invariant behind them: where a creation can stand.        *)

FirstUnderway ==
    /\ PreTerminal
    /\ steps[1].submit = "submitted"
    /\ <<steps[2].submit, recipe>> \in {<<"absent", "none">>, <<"blocked", "pending">>}
    /\ steps[2].job = "none" /\ submission = "absent"
    /\ assets = {}

FrameOwned ==
    /\ steps[1].submit = "succeeded" /\ steps[1].terminal.status = "completed"
    /\ recipe = "consumed" /\ <<"intermediate_result", 1>> \in assets

SecondUnderway ==
    /\ PreTerminal
    /\ FrameOwned /\ assets = {<<"intermediate_result", 1>>}
    /\ <<steps[2].submit, steps[2].job, submission>> \in
          {<<"ready", "none", "open">>, <<"submitting", "prepared", "open">>,
           <<"submitted", "bound", "delivered">>}

Succeeded ==
    /\ creation = "succeeded"
    /\ \/ /\ OneStep /\ steps[2].job = "none" /\ steps[1].submit = "succeeded"
          /\ recipe = "none" /\ assets = {<<"result", 1>>}
       \/ /\ FrameOwned /\ steps[2].submit = "succeeded" /\ steps[2].job = "bound"
          /\ assets = {<<"intermediate_result", 1>>, <<"result", 2>>}

Failed ==
    \/ /\ creation = "generation_failed"
       /\ steps[1].submit = "generation_failed"
       /\ steps[2].submit \in {"absent", "generation_failed"} /\ steps[2].job = "none"
       /\ recipe \in {"none", "abandoned"} /\ assets = {}
    \/ /\ creation = "generation_failed" /\ steps[2].job = "bound"
       /\ FrameOwned /\ steps[2].submit = "generation_failed"
       /\ assets = {<<"intermediate_result", 1>>}
    \/ /\ creation = "submission_failed" /\ steps[2].job # "bound"
       /\ FrameOwned /\ steps[2].submit = "submission_failed"
       /\ assets = {<<"intermediate_result", 1>>}

Position == FirstUnderway \/ SecondUnderway \/ Succeeded \/ Failed

\* The reservation follows the creation.
MoneyFollows ==
    reservation = IF creation = "succeeded" THEN [status |-> "reserved", gate |-> "published"]
                  ELSE IF PreTerminal THEN [status |-> "reserved", gate |-> "open"]
                  ELSE [status |-> "reversed", gate |-> "reversed"]

\* Only a bound job has an answer, and only its workers look for one.
AnswersBound ==
    /\ steps[1].job = "bound"
    /\ steps[2].job # "bound" => steps[2].terminal = Nothing /\ ~steps[2].quarantined
    /\ \A w \in Workers : In(w, "reconcile", "lookup") => steps[StageOf(w)].job = "bound"

\* A settlement event belongs to a failed step, and is abandoned only where
\* there is nothing left to settle.
SettlementsMeant ==
    /\ \A s \in Stages :
        events[<<"settle", s>>].status # "absent" => steps[s].terminal.status \in Failures
    /\ \A w \in Workers : work[w].event[1] = "settle" =>
        /\ work[w].phase \in {"claimed", "settle", "retry", "abandon"}
        /\ work[w].phase = "abandon" /\ Holds(w) =>
            steps[StageOf(w)].quarantined \/ Ended(creation)

IInv == TypeOK /\ Position /\ MoneyFollows /\ AnswersBound /\ SettlementsMeant /\ RefundNotLost
----------------------------------------------------------------------------
\* An acknowledged delivery for a bound job is consumed or judged.
DeliveryConsumed ==
    \A d \in Deliveries :
        (inbox[d].event = "open" /\ steps[inbox[d].stage].job = "bound")
            ~> inbox[d].event # "open"

\* A terminal answer leads on: to the publication, the activation, the refund
\* or the operator, in spite of crashes and expired claims.
AnswerLeadsOn ==
    \A s \in Stages :
        (steps[s].terminal # Nothing /\ steps[s].submit = "submitted") ~>
            \/ steps[s].submit # "submitted" \/ steps[s].quarantined
            \/ events[<<HandOff(steps[s].terminal), s>>].status \in {"failed", "needs_attention"}

\* MarkProviderResultUploadPending, comment: "a marker on a superseded or
\* quarantined terminal would be a lie about which result is still missing".
NoMarkOnQuarantined ==
    [][\A s \in Stages :
        steps[s].quarantined /\ ~steps[s].uploadPending => ~steps'[s].uploadPending]_vars

\* reopenCreationAfterCompletedFirstStage, comment: a cancellation "must not
\* leave the just-created second submission permanently blocked by
\* CreationStatusCancelling".
SecondStepNotStranded == ~(steps[2].submit = "ready" /\ creation = "cancelling")
=============================================================================
