---------------------------- MODULE OutboxProofs ----------------------------
(***************************************************************************)
(* Proofs about Outbox, for any set of events, workers, operators and keys *)
(* and any durations and limits.                                           *)
(***************************************************************************)
EXTENDS Outbox, TLAPS

\* The document updates of the repository stay inside the document type.
LEMMA EventUpdates ==
    ASSUME ConstantsAssumption, clock \in Nat, NEW ev \in Event
    PROVE  /\ Unleased(ev) \in Event
           /\ ClaimedEvent(ev) \in Event
           /\ RedriveAttention(ev) \in Event
           /\ [Absent EXCEPT !.status = "pending", !.next = clock,
                             !.created = clock] \in Event
           /\ [ev EXCEPT !.until = clock + LeaseDuration] \in Event
           /\ [Unleased(ev) EXCEPT !.status = "delivered"] \in Event
           /\ [Unleased(ev) EXCEPT !.status = "failed"] \in Event
           /\ \A reason \in Reasons :
                [Unleased(ev) EXCEPT !.status = "needs_attention",
                                     !.reason = reason] \in Event
           /\ \A delay \in 1 .. MaxDelay :
                [Unleased(ev) EXCEPT !.status = "pending",
                                     !.next = clock + delay] \in Event
<1>0. /\ {"absent", "pending", "reconciling", "dispatching", "delivered",
           "failed", "needs_attention"} \subseteq Status
      /\ "none" \in Reasons
      /\ NoToken \in Nat /\ NoTime \in Times /\ clock \in Times
      /\ clock + LeaseDuration \in Nat /\ clock + LeaseDuration \in Times
      /\ \A delay \in 1 .. MaxDelay : clock + delay \in Nat
  BY DEF Status, Open, Closed, Times, NoTime, NoToken, Reasons, ConstantsAssumption
<1> USE <1>0 DEF Event
<1>1. Unleased(ev) \in Event
  BY DEF Unleased
<1>2. ClaimedEvent(ev) \in Event
  <2>1. /\ ev.attempts + 1 \in Nat
        /\ (IF ev.status = "dispatching" THEN "reconciling" ELSE "dispatching") \in Status
    OBVIOUS
  <2> DEFINE status == IF ev.status = "dispatching" THEN "reconciling" ELSE "dispatching"
             attempts == ev.attempts + 1
             until == clock + LeaseDuration
  <2>2. /\ ClaimedEvent(ev) = [ev EXCEPT !.status = status, !.token = attempts,
                                        !.until = until, !.attempts = attempts]
        /\ status \in Status /\ attempts \in Nat /\ until \in Times
    BY <2>1 DEF ClaimedEvent
  <2> HIDE DEF status, attempts, until
  <2>3. QED
    BY <2>2
<1>3. RedriveAttention(ev) \in Event
  <2>1. ev.redriveCount + 1 \in Nat /\ clock \in Nat /\ clock \in Times
    OBVIOUS
  <2> DEFINE count == ev.redriveCount + 1
  <2>2. /\ RedriveAttention(ev) =
            [ev EXCEPT !.status = "pending", !.next = clock, !.reason = "none",
                       !.redriveAt = clock, !.redriveBase = ev.attempts,
                       !.redriveCount = count]
        /\ count \in Nat
    BY <2>1 DEF RedriveAttention
  <2> HIDE DEF count
  <2>3. QED
    BY <2>1, <2>2
<1>4. [Absent EXCEPT !.status = "pending", !.next = clock, !.created = clock] \in Event
  BY DEF Absent
<1>5. [ev EXCEPT !.until = clock + LeaseDuration] \in Event
  BY DEF ConstantsAssumption
<1>6. [Unleased(ev) EXCEPT !.status = "delivered"] \in Event
  BY <1>1
<1>7. [Unleased(ev) EXCEPT !.status = "failed"] \in Event
  BY <1>1
<1>8. \A reason \in Reasons :
        [Unleased(ev) EXCEPT !.status = "needs_attention", !.reason = reason] \in Event
  BY <1>1
<1>9. \A delay \in 1 .. MaxDelay :
        [Unleased(ev) EXCEPT !.status = "pending", !.next = clock + delay] \in Event
  BY <1>1 DEF ConstantsAssumption
<1> HIDE <1>0 DEF Event
<1>10. QED
  BY <1>1, <1>2, <1>3, <1>4, <1>5, <1>6, <1>7, <1>8, <1>9

\* A worker that holds an event has a well-formed copy of it.
LEMMA HeldLease ==
    ASSUME TypeOK, NEW w \in Workers, held[w] # Idle
    PROVE  /\ held[w] \in Lease
           /\ held[w].id \in Events
           /\ held[w].ev \in Event
           /\ Doc(w) = events[held[w].id]
           /\ Doc(w) \in Event
  BY DEF TypeOK, Lease, Doc
----------------------------------------------------------------------------
(* The last write of a worker: it releases its copy, and if its token is    *)
(* alive replaces the document by one that is no longer claimed.            *)

\* What no closing or requeueing write changes.
SameHistory(ev, doc) ==
    /\ ev.attempts = doc.attempts
    /\ ev.created = doc.created
    /\ ev.redriveAt = doc.redriveAt
    /\ ev.redriveBase = doc.redriveBase
    /\ ev.redriveCount = doc.redriveCount

Release(w, ev) ==
    /\ UpdateClaimed(w, ev)
    /\ ev \in Event
    /\ ev.status \notin Claimed
    /\ ev.token = NoToken
    /\ ev.until = NoTime
    /\ SameHistory(ev, Doc(w))
    /\ UNCHANGED <<clock, seen, audits>>

\* What a release writes: each of the final writes keeps the event's identity,
\* count and window and gives up the lease.
LEMMA ReleaseForms ==
    ASSUME ConstantsAssumption, TypeOK, NEW w \in Workers, held[w] # Idle,
           UNCHANGED <<clock, seen, audits>>
    PROVE  /\ MarkDelivered(w) => \E ev : /\ Release(w, ev)
                                          /\ ev.status = "delivered"
                                          /\ ev.reason = Doc(w).reason
           /\ MarkFailed(w) => \E ev : /\ Release(w, ev)
                                       /\ ev.status = "failed"
                                       /\ ev.reason = Doc(w).reason
           /\ \A reason \in Reasons : MarkNeedsAttention(w, reason) =>
                \E ev : /\ Release(w, ev)
                        /\ ev.status = "needs_attention"
                        /\ ev.reason = reason
           /\ Requeue(w) => \E ev : /\ Release(w, ev)
                                    /\ ev.status = "pending"
                                    /\ ev.reason = Doc(w).reason
                                    /\ ev.next <= clock + MaxDelay
<1> DEFINE D == [Unleased(Doc(w)) EXCEPT !.status = "delivered"]
           F == [Unleased(Doc(w)) EXCEPT !.status = "failed"]
<1>1. Doc(w) \in Event /\ clock \in Nat
  BY HeldLease DEF TypeOK
<1>2. {"delivered", "failed", "needs_attention", "pending"} \cap Claimed = {}
  BY DEF Claimed
<1>3. ASSUME MarkDelivered(w)
      PROVE  \E ev : Release(w, ev) /\ ev.status = "delivered" /\ ev.reason = Doc(w).reason
  <2>1. /\ D.status = "delivered" /\ D.token = NoToken /\ D.until = NoTime
        /\ SameHistory(D, Doc(w))
        /\ D.reason = Doc(w).reason
    BY <1>1 DEF Event, Unleased, SameHistory
  <2>2. D \in Event
    BY <1>1, EventUpdates
  <2>3. QED
    BY <1>2, <1>3, <2>1, <2>2 DEF MarkDelivered, Release
<1>4. ASSUME MarkFailed(w)
      PROVE  \E ev : Release(w, ev) /\ ev.status = "failed" /\ ev.reason = Doc(w).reason
  <2>1. /\ F.status = "failed" /\ F.token = NoToken /\ F.until = NoTime
        /\ SameHistory(F, Doc(w))
        /\ F.reason = Doc(w).reason
    BY <1>1 DEF Event, Unleased, SameHistory
  <2>2. F \in Event
    BY <1>1, EventUpdates
  <2>3. QED
    BY <1>2, <1>4, <2>1, <2>2 DEF MarkFailed, Release
<1>5. ASSUME NEW reason \in Reasons, MarkNeedsAttention(w, reason)
      PROVE  \E ev : Release(w, ev) /\ ev.status = "needs_attention" /\ ev.reason = reason
  <2> DEFINE N == [Unleased(Doc(w)) EXCEPT !.status = "needs_attention",
                                           !.reason = reason]
  <2>1. /\ N.status = "needs_attention" /\ N.token = NoToken /\ N.until = NoTime
        /\ SameHistory(N, Doc(w)) /\ N.reason = reason
    BY <1>1 DEF Event, Unleased, SameHistory
  <2>2. N \in Event
    BY <1>1, EventUpdates
  <2>3. QED
    BY <1>2, <1>5, <2>1, <2>2 DEF MarkNeedsAttention, Release
<1>6. ASSUME Requeue(w)
      PROVE  \E ev : /\ Release(w, ev)
                     /\ ev.status = "pending"
                     /\ ev.reason = Doc(w).reason
                     /\ ev.next <= clock + MaxDelay
  <2>1. PICK delay \in 1 .. MaxDelay :
          UpdateClaimed(w, [Unleased(Doc(w)) EXCEPT !.status = "pending",
                                                    !.next = clock + delay])
    BY <1>6 DEF Requeue
  <2> DEFINE P == [Unleased(Doc(w)) EXCEPT !.status = "pending",
                                           !.next = clock + delay]
  <2>2. /\ P.status = "pending" /\ P.token = NoToken /\ SameHistory(P, Doc(w))
        /\ P.reason = Doc(w).reason /\ P.next = clock + delay /\ P.until = NoTime
    BY <1>1 DEF Event, Unleased, SameHistory
  <2>3. P \in Event
    BY <1>1, EventUpdates
  <2>4. clock + delay <= clock + MaxDelay
    BY <1>1 DEF ConstantsAssumption
  <2>5. UpdateClaimed(w, P)
    BY <2>1
  <2> HIDE DEF P
  <2>6. QED
    BY <1>2, <2>2, <2>3, <2>4, <2>5 DEF Release
<1>7. QED
  BY <1>3, <1>4, <1>5, <1>6

\* A fenced last write of such a form preserves the invariant.
LEMMA ReleaseInv ==
    ASSUME IInv, NEW w \in Workers, held[w] # Idle, NEW ev, Release(w, ev)
    PROVE  /\ events' \in [Events -> Event]
           /\ held' \in [Workers -> {Idle} \cup Lease]
           /\ TokenOfLatestClaim'
           /\ CopyCurrentWhileOwned'
           /\ TokensDistinct'
           /\ AuditPerRedrive'
<1> DEFINE e == held[w].id
<1>1. /\ TypeOK /\ held[w] \in Lease /\ e \in Events /\ Doc(w) = events[e]
      /\ events[e] \in Event /\ ev \in Event
  BY HeldLease DEF IInv, Release
<1>2. held' = [held EXCEPT ![w] = Idle] /\ held \in [Workers -> {Idle} \cup Lease]
  BY <1>1 DEF Release, UpdateClaimed, TypeOK
<1>3. \A v \in Workers : held'[v] # Idle => v # w /\ held'[v] = held[v]
  BY <1>2
<1>4. CASE Owns(w)
  <2>1. events' = [events EXCEPT ![e] = ev] /\ events \in [Events -> Event]
    BY <1>1, <1>4 DEF Release, UpdateClaimed, TypeOK
  <2>2. /\ events'[e] = ev
        /\ \A f \in Events : f # e => events'[f] = events[f]
    BY <1>1, <2>1
  <2>3. /\ ev.status \notin Claimed /\ ev.token = NoToken /\ ev.until = NoTime
        /\ SameHistory(ev, events[e])
    BY <1>1 DEF Release
  <2>4. TokenOfLatestClaim'
    BY <2>2, <2>3 DEF IInv, TokenOfLatestClaim
  <2>5. \A v \in Workers : held'[v] # Idle /\ Owns(v)' => held[v].id # e /\ Owns(v)
    BY <1>3, <2>2, <2>3 DEF Owns, TypeOK, Lease, IInv
  <2>6. CopyCurrentWhileOwned'
    BY <1>1, <1>3, <2>2, <2>3, <2>5, HeldLease DEF IInv, CopyCurrentWhileOwned, SameHistory
  <2>7. AuditPerRedrive'
    BY <1>1, <2>2, <2>3 DEF IInv, AuditPerRedrive, SameHistory, Release
  <2>8. TokensDistinct'
    BY <1>3 DEF IInv, TokensDistinct
  <2>9. QED
    BY <1>1, <1>2, <2>1, <2>4, <2>6, <2>7, <2>8
<1>5. CASE ~Owns(w)
  <2>1. events' = events
    BY <1>5 DEF Release, UpdateClaimed
  <2>2. \A v \in Workers : held'[v] # Idle => (Owns(v)' <=> Owns(v))
    BY <1>3, <2>1 DEF Owns
  <2>3. TokenOfLatestClaim' /\ TokensDistinct'
    BY <1>3, <2>1 DEF IInv, TokenOfLatestClaim, TokensDistinct
  <2>4. CopyCurrentWhileOwned'
    BY <1>3, <2>1, <2>2 DEF IInv, CopyCurrentWhileOwned
  <2>5. AuditPerRedrive'
    BY <2>1 DEF IInv, AuditPerRedrive, Release
  <2>6. QED
    BY <1>1, <1>2, <2>1, <2>3, <2>4, <2>5 DEF TypeOK
<1>6. QED
  BY <1>4, <1>5

\* What the write owes besides: a reason only with needs_attention, a truthful
\* r2_upload_pending, and a wake-up time if the event stays open.
ReleaseOwes(w, ev) ==
    LET e == held[w].id
    IN  /\ uploadPending' \in [Events -> BOOLEAN]
        /\ \A f \in Events : f # e \/ ~Owns(w) => uploadPending'[f] = uploadPending[f]
        /\ mediaFailures' \in [Events -> Nat]
        /\ ev.status # "absent"
        /\ Owns(w) =>
            /\ ev.reason # "none" => ev.status = "needs_attention"
            /\ Kind[e] = "materialize" =>
                /\ ev.reason = "material_upload_budget_exhausted" => uploadPending'[e]
                /\ ev.status = "delivered" => ~uploadPending'[e]
            /\ ev.status \in Open => /\ ev.next <= clock + MaxDelay
                                     /\ ev.until <= clock + LeaseDuration

\* A fenced last write that pays what it owes preserves the invariant.
LEMMA ReleaseStep ==
    ASSUME IInv, NEW w \in Workers, held[w] # Idle, NEW ev,
           Release(w, ev), ReleaseOwes(w, ev)
    PROVE  IInv'
<1> DEFINE e == held[w].id
<1>1. /\ TypeOK /\ held[w] \in Lease /\ e \in Events /\ Doc(w) = events[e]
      /\ events[e] \in Event /\ ev \in Event
  BY HeldLease DEF IInv, Release
<1>2. held' = [held EXCEPT ![w] = Idle] /\ held \in [Workers -> {Idle} \cup Lease]
  BY <1>1 DEF Release, UpdateClaimed, TypeOK
<1>3. \A v \in Workers : held'[v] # Idle =>
        v # w /\ held'[v] = held[v] /\ held[v].id \in Events
  BY <1>2 DEF Lease
<1>4. UNCHANGED <<clock, seen, audits>>
  BY DEF Release
<1>5. TypeOK'
  BY <1>1, <1>4, ReleaseInv DEF TypeOK, ReleaseOwes
<1>6. CASE Owns(w)
  <2>1. events' = [events EXCEPT ![e] = ev] /\ events \in [Events -> Event]
    BY <1>1, <1>6 DEF Release, UpdateClaimed, TypeOK
  <2>2. /\ events'[e] = ev
        /\ \A f \in Events : f # e => events'[f] = events[f]
    BY <1>1, <2>1
  <2>3. /\ ev.status \notin Claimed
        /\ \A f \in Events : f # e => uploadPending'[f] = uploadPending[f]
    BY <1>1 DEF Release, ReleaseOwes
  <2>4. \A v \in Workers : held'[v] # Idle /\ Owns(v)' => held[v].id # e /\ Owns(v)
    BY <1>3, <2>2, <2>3 DEF Owns
  <2>5. DecisionStands'
    BY <1>3, <1>4, <2>2, <2>3, <2>4
    DEF IInv, DecisionStands, RetryBudgetExhausted, WindowBase, EventAgeExceeded, WindowStart
  <2>6. ReasonOnlyInAttention'
    BY <1>6, <2>2 DEF IInv, ReasonOnlyInAttention, ReleaseOwes
  <2>7. UploadPendingTruthful'
    BY <1>6, <2>2, <2>3 DEF IInv, UploadPendingTruthful, ReleaseOwes
  <2>8. WakesInTime'
    BY <1>4, <1>6, <2>2 DEF IInv, WakesInTime, ReleaseOwes
  <2>9. UnclaimedBeforeEnqueue'
    BY <2>2 DEF IInv, UnclaimedBeforeEnqueue, ReleaseOwes
  <2>10. QED
    BY <1>5, <2>5, <2>6, <2>7, <2>8, <2>9, ReleaseInv DEF IInv
<1>7. CASE ~Owns(w)
  <2>1. /\ events' = events
        /\ \A f \in Events : uploadPending'[f] = uploadPending[f]
    BY <1>7 DEF Release, UpdateClaimed, ReleaseOwes
  <2>2. \A v \in Workers : held'[v] # Idle => (Owns(v)' <=> Owns(v))
    BY <1>3, <2>1 DEF Owns
  <2>3. DecisionStands'
    BY <1>3, <1>4, <2>1, <2>2
    DEF IInv, DecisionStands, RetryBudgetExhausted, WindowBase, EventAgeExceeded, WindowStart
  <2>4. /\ ReasonOnlyInAttention' /\ UploadPendingTruthful' /\ WakesInTime'
        /\ UnclaimedBeforeEnqueue'
    BY <1>4, <2>1 DEF IInv, ReasonOnlyInAttention, UploadPendingTruthful, WakesInTime,
                      UnclaimedBeforeEnqueue
  <2>5. QED
    BY <1>5, <2>3, <2>4, ReleaseInv DEF IInv
<1>8. QED
  BY <1>6, <1>7

\* A worker that loses its copy, by a crash or a failed renewal, changes nothing.
LEMMA DropStep ==
    ASSUME IInv, NEW w \in Workers, held' = [held EXCEPT ![w] = Idle],
           UNCHANGED <<clock, events, uploadPending, mediaFailures, seen, audits>>
    PROVE  IInv'
<1>1. /\ held' \in [Workers -> {Idle} \cup Lease]
      /\ \A v \in Workers : held'[v] # Idle => v # w /\ held'[v] = held[v]
  BY DEF IInv, TypeOK
<1>2. \A v \in Workers : held'[v] # Idle => (Owns(v)' <=> Owns(v))
  BY <1>1 DEF Owns
<1>3. TypeOK'
  BY <1>1 DEF IInv, TypeOK
<1>4. CopyCurrentWhileOwned'
  BY <1>1, <1>2 DEF IInv, CopyCurrentWhileOwned
<1>5. DecisionStands'
  BY <1>1, <1>2
  DEF IInv, DecisionStands, RetryBudgetExhausted, WindowBase, EventAgeExceeded, WindowStart
<1>6. TokensDistinct'
  BY <1>1 DEF IInv, TokensDistinct
<1>7. QED
  BY <1>3, <1>4, <1>5, <1>6
  DEF IInv, TokenOfLatestClaim, ReasonOnlyInAttention, UploadPendingTruthful, WakesInTime,
      AuditPerRedrive, UnclaimedBeforeEnqueue
----------------------------------------------------------------------------
(* The steps of a worker that goes on holding its event.                   *)

\* What the new phase h of worker w rests on.
Founded(w, h) ==
    /\ h.phase # "io" => Kind[h.id] = "materialize"
    /\ h.phase \in {"mark", "attention"} =>
        /\ h.reason # "none"
        /\ Owns(w) =>
            /\ h.reason = "material_upload_budget_exhausted" =>
                    RetryBudgetExhausted(events[h.id])
            /\ h.reason = "event_age_exceeded" =>
                    EventAgeExceeded(events[h.id], clock)
    /\ h.phase = "attention" => uploadPending'[h.id]

Hold(w, h) ==
    /\ h \in Lease /\ h.id = held[w].id /\ h.ev = held[w].ev
    /\ held' = [held EXCEPT ![w] = h]
    /\ events' = events \/ (LeaseLive(w) /\ events' = RenewLease(w))
    /\ uploadPending' \in [Events -> BOOLEAN]
    /\ \A f \in Events :
        \/ uploadPending'[f] = uploadPending[f]
        \/ uploadPending'[f] /\ events[f].status # "delivered"
    /\ mediaFailures' \in [Events -> Nat]
    /\ UNCHANGED <<clock, seen, audits>>

\* A worker that moves on to a later phase, or renews its lease, preserves the
\* invariant.
LEMMA HoldStep ==
    ASSUME ConstantsAssumption, IInv, NEW w \in Workers, held[w] # Idle,
           NEW h, Hold(w, h), Founded(w, h)
    PROVE  IInv'
<1> DEFINE e == held[w].id
<1>1. /\ TypeOK /\ held[w] \in Lease /\ e \in Events
      /\ events[e] \in Event /\ events \in [Events -> Event]
      /\ held \in [Workers -> {Idle} \cup Lease] /\ h # Idle
      /\ clock \in Nat /\ LeaseDuration \in Nat
  <2>1. h # Idle
    <3>1. h.id \in Events /\ Events \subseteq Nat
      BY DEF Hold, Lease, ConstantsAssumption
    <3>2. Idle.id = -1
      BY DEF Idle
    <3>3. QED
      BY <3>1, <3>2
  <2>2. QED
    BY <2>1, HeldLease DEF IInv, TypeOK, ConstantsAssumption
<1>2. /\ held' \in [Workers -> {Idle} \cup Lease]
      /\ held'[w] = h
      /\ \A v \in Workers : v # w => held'[v] = held[v]
      /\ \A v \in Workers : held'[v] # Idle =>
            held[v] # Idle /\ held'[v].id = held[v].id /\ held'[v].ev = held[v].ev
  BY <1>1 DEF Hold
<1>3. UNCHANGED <<clock, seen, audits>>
  BY DEF Hold
\* The document changes at most in lease_until, and only while claimed.
<1>4. /\ events' \in [Events -> Event]
      /\ \A f \in Events :
            /\ events'[f].status = events[f].status
            /\ events'[f].attempts = events[f].attempts
            /\ events'[f].next = events[f].next
            /\ events'[f].token = events[f].token
            /\ events'[f].created = events[f].created
            /\ events'[f].reason = events[f].reason
            /\ events'[f].redriveAt = events[f].redriveAt
            /\ events'[f].redriveBase = events[f].redriveBase
            /\ events'[f].redriveCount = events[f].redriveCount
            /\ \/ events'[f].until = events[f].until
               \/ /\ events'[f].until = clock + LeaseDuration
                  /\ events[f].status \in Claimed
  <2>1. CASE events' = events
    BY <1>1, <2>1
  <2>2. CASE LeaseLive(w) /\ events' = RenewLease(w)
    <3> DEFINE D == [events[e] EXCEPT !.until = clock + LeaseDuration]
    <3>1. events' = [events EXCEPT ![e] = D]
      BY <2>2 DEF RenewLease
    <3>2. D \in Event
      BY <1>1, EventUpdates
    <3>3. /\ D.status = events[e].status /\ D.attempts = events[e].attempts
          /\ D.next = events[e].next /\ D.token = events[e].token
          /\ D.created = events[e].created /\ D.reason = events[e].reason
          /\ D.redriveAt = events[e].redriveAt /\ D.redriveBase = events[e].redriveBase
          /\ D.redriveCount = events[e].redriveCount /\ D.until = clock + LeaseDuration
      BY <1>1 DEF Event
    <3>4. events[e].status \in Claimed
      BY <2>2 DEF LeaseLive, Owns
    <3> HIDE DEF D
    <3>5. QED
      BY <1>1, <3>1, <3>2, <3>3, <3>4
  <2>3. QED
    BY <2>1, <2>2 DEF Hold
<1>5. TypeOK'
  BY <1>2, <1>3, <1>4 DEF IInv, TypeOK, Hold
<1>6. ASSUME NEW v \in Workers, held'[v] # Idle
      PROVE  (Owns(v)' <=> Owns(v)) /\ held[v].id \in Events
  <2>1. held[v].id \in Events /\ held'[v].id = held[v].id /\ held'[v].ev = held[v].ev
    BY <1>1, <1>2, <1>6 DEF Lease
  <2>2. /\ events'[held[v].id].token = events[held[v].id].token
        /\ events'[held[v].id].status = events[held[v].id].status
    BY <1>4, <2>1
  <2>3. QED
    BY <2>1, <2>2 DEF Owns
<1>7. TokenOfLatestClaim' /\ TokensDistinct' /\ ReasonOnlyInAttention'
  BY <1>2, <1>4 DEF IInv, TokenOfLatestClaim, TokensDistinct, ReasonOnlyInAttention
<1>8. CopyCurrentWhileOwned'
  <2>1. ASSUME NEW v \in Workers, held'[v] # Idle
        PROVE  LET doc == events'[held'[v].id]
               IN  /\ held'[v].ev.token > 0
                   /\ held'[v].ev.token = held'[v].ev.attempts
                   /\ held'[v].ev.token <= doc.attempts
                   /\ Owns(v)' => /\ held'[v].ev.created = doc.created
                                  /\ held'[v].ev.redriveAt = doc.redriveAt
                                  /\ held'[v].ev.redriveBase = doc.redriveBase
    <3>1. held[v] # Idle /\ held'[v].id = held[v].id /\ held'[v].ev = held[v].ev
      BY <1>2, <2>1
    <3>2. held[v].id \in Events /\ (Owns(v)' <=> Owns(v))
      BY <1>6, <2>1
    <3> DEFINE old == events[held[v].id]
               new == events'[held[v].id]
    <3>3. /\ new.attempts = old.attempts /\ new.created = old.created
          /\ new.redriveAt = old.redriveAt /\ new.redriveBase = old.redriveBase
      BY <1>4, <3>2
    <3>4. /\ held[v].ev.token > 0
          /\ held[v].ev.token = held[v].ev.attempts
          /\ held[v].ev.token <= old.attempts
          /\ Owns(v) => /\ held[v].ev.created = old.created
                        /\ held[v].ev.redriveAt = old.redriveAt
                        /\ held[v].ev.redriveBase = old.redriveBase
      BY <3>1 DEF IInv, CopyCurrentWhileOwned
    <3> HIDE DEF old, new
    <3>5. new = events'[held'[v].id]
      BY <3>1 DEF new
    <3>6. QED
      BY <3>1, <3>2, <3>3, <3>4, <3>5
  <2>2. QED
    BY <2>1 DEF CopyCurrentWhileOwned
<1>9. DecisionStands'
  <2>1. \A f \in Events :
          /\ RetryBudgetExhausted(events[f]) => RetryBudgetExhausted(events'[f])
          /\ EventAgeExceeded(events[f], clock) => EventAgeExceeded(events'[f], clock')
          /\ uploadPending[f] => uploadPending'[f]
    BY <1>3, <1>4 DEF RetryBudgetExhausted, WindowBase, EventAgeExceeded, WindowStart, Hold
  <2> DEFINE Stands(v) ==
        /\ held'[v].phase # "io" => Kind[held'[v].id] = "materialize"
        /\ held'[v].phase \in {"mark", "attention"} =>
            /\ held'[v].reason # "none"
            /\ Owns(v)' =>
                /\ held'[v].reason = "material_upload_budget_exhausted" =>
                            RetryBudgetExhausted(events'[held'[v].id])
                /\ held'[v].reason = "event_age_exceeded" =>
                            EventAgeExceeded(events'[held'[v].id], clock')
        /\ held'[v].phase = "attention" /\ Owns(v)' => uploadPending'[held'[v].id]
  <2>2. ASSUME NEW v \in Workers, held'[v] # Idle, v # w
        PROVE  Stands(v)
    BY <1>2, <1>6, <2>1, <2>2 DEF IInv, DecisionStands
  <2>3. Stands(w)
    BY <1>1, <1>2, <1>6, <2>1 DEF Founded, Hold
  <2>4. QED
    BY <2>2, <2>3 DEF DecisionStands
<1>10. UploadPendingTruthful'
  BY <1>4 DEF IInv, UploadPendingTruthful, Hold
<1>11. WakesInTime'
  <2>1. clock + LeaseDuration <= clock + LeaseDuration
    BY <1>1
  <2>2. QED
    BY <1>3, <1>4, <2>1 DEF IInv, WakesInTime
<1>12. AuditPerRedrive'
  BY <1>3, <1>4 DEF IInv, AuditPerRedrive
<1>13. UnclaimedBeforeEnqueue'
  <2>1. UnclaimedBeforeEnqueue
    BY DEF IInv
  <2>2. QED
    BY <1>4, <2>1 DEF UnclaimedBeforeEnqueue
<1>14. QED
  BY <1>5, <1>7, <1>8, <1>9, <1>10, <1>11, <1>12, <1>13 DEF IInv
----------------------------------------------------------------------------
(* The other steps.                                                        *)

\* A claim draws a token no earlier claim of the event has.
LEMMA ClaimStep ==
    ASSUME ConstantsAssumption, IInv, NEW w \in Workers, NEW e \in Events,
           NEW kind, Claimable(e, kind), Claim(w, e)
    PROVE  IInv'
<1> DEFINE C == ClaimedEvent(events[e])
           h == [id |-> e, ev |-> C, phase |-> "io", reason |-> "none"]
<1>1. /\ TypeOK /\ events[e] \in Event /\ C \in Event /\ h \in Lease
      /\ events \in [Events -> Event] /\ held \in [Workers -> {Idle} \cup Lease]
      /\ clock \in Nat
  <2>1. TypeOK /\ events[e] \in Event /\ clock \in Nat
    BY DEF IInv, TypeOK
  <2>2. C \in Event
    BY <2>1, EventUpdates
  <2> HIDE DEF C
  <2>3. QED
    BY <2>1, <2>2 DEF TypeOK, Lease, Phases, Reasons
<1>2. /\ C.status \in Claimed
      /\ C.token = events[e].attempts + 1 /\ C.attempts = events[e].attempts + 1
      /\ C.next = events[e].next /\ C.until = clock + LeaseDuration
      /\ C.created = events[e].created /\ C.reason = events[e].reason
      /\ C.redriveAt = events[e].redriveAt /\ C.redriveBase = events[e].redriveBase
      /\ C.redriveCount = events[e].redriveCount
  BY <1>1 DEF ClaimedEvent, Event, Claimed
<1> HIDE DEF C
<1>3. /\ events' = [events EXCEPT ![e] = C]
      /\ held' = [held EXCEPT ![w] = h]
      /\ UNCHANGED <<clock, uploadPending, mediaFailures, seen, audits>>
  BY DEF Claim, C
<1>4. /\ events'[e] = C
      /\ \A f \in Events : f # e => events'[f] = events[f]
      /\ events' \in [Events -> Event]
      /\ held'[w] = h
      /\ \A v \in Workers : v # w => held'[v] = held[v]
      /\ held' \in [Workers -> {Idle} \cup Lease]
  BY <1>1, <1>3
<1>5. TypeOK'
  BY <1>1, <1>3, <1>4 DEF TypeOK
<1>6. TokenOfLatestClaim'
  BY <1>1, <1>2, <1>4 DEF IInv, TokenOfLatestClaim
<1>7. \A v \in Workers : held[v] # Idle =>
        /\ held[v].id \in Events
        /\ held[v].ev.token \in Nat
        /\ held[v].ev.token <= events[held[v].id].attempts
  BY <1>1, HeldLease DEF IInv, CopyCurrentWhileOwned, Event
\* A copy somebody else holds of the claimed event is dead now.
<1>8. ASSUME NEW v \in Workers, v # w, held[v] # Idle, Owns(v)'
      PROVE  held[v].id # e /\ Owns(v)
  <2>1. held[v].id # e
    <3>1. SUFFICES ASSUME held[v].id = e PROVE FALSE
      OBVIOUS
    <3>2. held[v].ev.token = events[e].attempts + 1
      BY <1>2, <1>4, <1>8, <3>1 DEF Owns
    <3>3. held[v].ev.token <= events[e].attempts /\ events[e].attempts \in Nat
      BY <1>1, <1>7, <1>8, <3>1 DEF Event
    <3>4. QED
      BY <3>2, <3>3
  <2>2. QED
    BY <1>4, <1>7, <1>8, <2>1 DEF Owns
<1>9. CopyCurrentWhileOwned'
  <2> DEFINE Current(v) ==
        LET g == held'[v]
            doc == events'[g.id]
        IN  /\ g.ev.token > 0
            /\ g.ev.token = g.ev.attempts
            /\ g.ev.token <= doc.attempts
            /\ Owns(v)' => /\ g.ev.created = doc.created
                           /\ g.ev.redriveAt = doc.redriveAt
                           /\ g.ev.redriveBase = doc.redriveBase
  <2>1. Current(w)
    BY <1>1, <1>2, <1>4 DEF Event
  <2>2. ASSUME NEW v \in Workers, v # w, held'[v] # Idle
        PROVE  Current(v)
    <3>1. held'[v] = held[v] /\ held[v] # Idle
      BY <1>4, <2>2
    <3>2. /\ held[v].ev.token > 0
          /\ held[v].ev.token = held[v].ev.attempts
      BY <3>1 DEF IInv, CopyCurrentWhileOwned
    <3>3. held[v].ev.token <= events'[held[v].id].attempts
      <4>1. /\ events'[held[v].id].attempts >= events[held[v].id].attempts
            /\ events'[held[v].id].attempts \in Nat /\ events[held[v].id].attempts \in Nat
        <5>1. CASE held[v].id = e
          BY <1>1, <1>2, <1>4, <5>1 DEF Event
        <5>2. CASE held[v].id # e
          <6>1. /\ events'[held[v].id] = events[held[v].id]
                /\ events[held[v].id] \in Event
            BY <1>1, <1>4, <1>7, <3>1, <5>2
          <6>2. events[held[v].id].attempts \in Nat
            BY <6>1 DEF Event
          <6>3. QED
            BY <6>1, <6>2
        <5>3. QED
          BY <5>1, <5>2
      <4>2. QED
        BY <1>7, <3>1, <4>1
    <3>4. Owns(v)' => /\ held[v].ev.created = events'[held[v].id].created
                      /\ held[v].ev.redriveAt = events'[held[v].id].redriveAt
                      /\ held[v].ev.redriveBase = events'[held[v].id].redriveBase
      BY <1>4, <1>7, <1>8, <2>2, <3>1 DEF IInv, CopyCurrentWhileOwned
    <3>5. QED
      BY <3>1, <3>2, <3>3, <3>4
  <2>3. QED
    BY <2>1, <2>2 DEF CopyCurrentWhileOwned
<1>10. TokensDistinct'
  <2>1. ASSUME NEW v \in Workers, v # w, held[v] # Idle, held[v].id = e
        PROVE  held[v].ev.token # C.token
    <3>1. held[v].ev.token <= events[e].attempts /\ events[e].attempts \in Nat
      BY <1>1, <1>7, <2>1 DEF Event
    <3>2. QED
      BY <1>2, <1>7, <2>1, <3>1
  <2>2. h.id = e /\ h.ev = C
    OBVIOUS
  <2>3. \A v \in Workers : v # w /\ held[v] # Idle => held'[v] = held[v]
    BY <1>4
  <2> HIDE DEF h
  <2>4. \A u, v \in Workers : u # v /\ u # w /\ v # w =>
            (/\ held'[u] # Idle /\ held'[v] # Idle /\ held'[u].id = held'[v].id
             => held'[u].ev.token # held'[v].ev.token)
    BY <1>4 DEF IInv, TokensDistinct
  <2>5. \A v \in Workers : v # w /\ held'[v] # Idle /\ held'[v].id = e
            => held'[v].ev.token # held'[w].ev.token
    BY <1>4, <2>1, <2>2
  <2>6. QED
    BY <1>4, <2>2, <2>4, <2>5 DEF TokensDistinct
<1>11. DecisionStands'
  <2> DEFINE Stands(v) ==
        /\ held'[v].phase # "io" => Kind[held'[v].id] = "materialize"
        /\ held'[v].phase \in {"mark", "attention"} =>
            /\ held'[v].reason # "none"
            /\ Owns(v)' =>
                /\ held'[v].reason = "material_upload_budget_exhausted" =>
                            RetryBudgetExhausted(events'[held'[v].id])
                /\ held'[v].reason = "event_age_exceeded" =>
                            EventAgeExceeded(events'[held'[v].id], clock')
        /\ held'[v].phase = "attention" /\ Owns(v)' => uploadPending'[held'[v].id]
  <2>1. Stands(w)
    BY <1>4
  <2>2. ASSUME NEW v \in Workers, v # w, held'[v] # Idle
        PROVE  Stands(v)
    <3>1. held'[v] = held[v] /\ held[v] # Idle
      BY <1>4, <2>2
    <3>2. Owns(v)' => Owns(v) /\ events'[held[v].id] = events[held[v].id]
      BY <1>4, <1>7, <1>8, <2>2, <3>1
    <3>3. QED
      BY <1>3, <3>1, <3>2 DEF IInv, DecisionStands
  <2>3. QED
    BY <2>1, <2>2 DEF DecisionStands
<1>12. events[e].reason = "none"
  BY DEF Claimable, Open, IInv, ReasonOnlyInAttention
<1>13. ReasonOnlyInAttention'
  BY <1>2, <1>4, <1>12 DEF IInv, ReasonOnlyInAttention
<1>14. UploadPendingTruthful'
  BY <1>2, <1>3, <1>4, <1>12 DEF IInv, UploadPendingTruthful, Claimed
<1>15. WakesInTime'
  <2>1. C.next <= clock + MaxDelay /\ C.until <= clock + LeaseDuration
    BY <1>1, <1>2 DEF IInv, WakesInTime, Claimable, ConstantsAssumption
  <2>2. QED
    BY <1>3, <1>4, <2>1 DEF IInv, WakesInTime
<1>16. AuditPerRedrive'
  BY <1>2, <1>3, <1>4 DEF IInv, AuditPerRedrive
<1>17. UnclaimedBeforeEnqueue'
  BY <1>2, <1>4 DEF IInv, UnclaimedBeforeEnqueue, Claimed
<1>18. QED
  BY <1>5, <1>6, <1>9, <1>10, <1>11, <1>13, <1>14, <1>15, <1>16, <1>17 DEF IInv

\* Enqueue creates a document nobody holds.
LEMMA EnqueueStep ==
    ASSUME ConstantsAssumption, IInv, NEW e \in Events, Enqueue(e)
    PROVE  IInv'
<1> DEFINE N == [Absent EXCEPT !.status = "pending", !.next = clock, !.created = clock]
<1>1. /\ TypeOK /\ N \in Event /\ events[e] \in Event
      /\ events \in [Events -> Event] /\ clock \in Nat
  <2>1. TypeOK /\ events[e] \in Event /\ clock \in Nat
    BY DEF IInv, TypeOK
  <2>2. N \in Event
    BY <2>1, EventUpdates
  <2> HIDE DEF N
  <2>3. QED
    BY <2>1, <2>2 DEF TypeOK
<1>2. /\ N.status = "pending" /\ N.token = NoToken /\ N.attempts = 0
      /\ N.next = clock /\ N.until = NoTime /\ N.reason = "none" /\ N.redriveCount = 0
  BY DEF Absent
<1>3. /\ events' = [events EXCEPT ![e] = N]
      /\ UNCHANGED <<clock, held, uploadPending, mediaFailures, seen, audits>>
      /\ events[e].status = "absent"
  BY DEF Enqueue
<1> HIDE DEF N
<1>4. /\ events'[e] = N
      /\ \A f \in Events : f # e => events'[f] = events[f]
      /\ events' \in [Events -> Event]
  BY <1>1, <1>3
\* Nobody ever claimed a new event.
<1>5. \A w \in Workers : held[w] # Idle => held[w].id \in Events /\ held[w].id # e
  <2>1. events[e].attempts = 0
    BY <1>3 DEF IInv, UnclaimedBeforeEnqueue
  <2>2. ASSUME NEW w \in Workers, held[w] # Idle
        PROVE  held[w].id \in Events /\ held[w].id # e
    <3>1. held[w].id \in Events /\ held[w].ev \in Event
      BY <1>1, <2>2, HeldLease
    <3>2. held[w].ev.token > 0 /\ held[w].ev.token <= events[held[w].id].attempts
      BY <2>2 DEF IInv, CopyCurrentWhileOwned
    <3>3. held[w].ev.token \in Nat
      BY <3>1 DEF Event
    <3>4. QED
      BY <2>1, <3>1, <3>2, <3>3
  <2>3. QED
    BY <2>2
<1>6. \A w \in Workers : held'[w] # Idle => (Owns(w)' <=> Owns(w))
  BY <1>3, <1>4, <1>5 DEF Owns
<1>7. TypeOK'
  BY <1>1, <1>3, <1>4 DEF TypeOK
<1>8. TokenOfLatestClaim'
  BY <1>2, <1>4 DEF IInv, TokenOfLatestClaim, Claimed
<1>9. CopyCurrentWhileOwned'
  BY <1>3, <1>4, <1>5, <1>6 DEF IInv, CopyCurrentWhileOwned
<1>10. TokensDistinct'
  BY <1>3 DEF IInv, TokensDistinct
<1>11. DecisionStands'
  BY <1>3, <1>4, <1>5, <1>6 DEF IInv, DecisionStands
<1>12. ReasonOnlyInAttention' /\ UploadPendingTruthful'
  BY <1>2, <1>3, <1>4 DEF IInv, ReasonOnlyInAttention, UploadPendingTruthful
<1>13. WakesInTime'
  BY <1>1, <1>2, <1>3, <1>4 DEF IInv, WakesInTime, ConstantsAssumption, NoTime
<1>14. AuditPerRedrive'
  <2>1. events[e].redriveCount = 0
    BY <1>3 DEF IInv, UnclaimedBeforeEnqueue
  <2>2. \A f \in Events : events'[f].redriveCount = events[f].redriveCount
    BY <1>2, <1>4, <2>1
  <2>3. QED
    BY <1>3, <2>2 DEF IInv, AuditPerRedrive
<1>15. UnclaimedBeforeEnqueue'
  BY <1>2, <1>4 DEF IInv, UnclaimedBeforeEnqueue
<1>16. QED
  BY <1>7, <1>8, <1>9, <1>10, <1>11, <1>12, <1>13, <1>14, <1>15 DEF IInv

\* An operator's look at an event changes nothing the invariant speaks of.
LEMMA ObserveStep ==
    ASSUME IInv, NEW o \in Operators, NEW e \in Events, Observe(o, e)
    PROVE  IInv'
<1>1. [id |-> e, count |-> events[e].redriveCount] \in View
  BY DEF IInv, TypeOK, View, Event
<1>2. TypeOK'
  BY <1>1 DEF IInv, TypeOK, Observe
<1>3. UNCHANGED <<clock, events, held, uploadPending, mediaFailures, audits>>
  BY DEF Observe
<1>4. \A w \in Workers : Owns(w)' <=> Owns(w)
  BY <1>3 DEF Owns
<1>5. CopyCurrentWhileOwned' /\ DecisionStands'
  BY <1>3, <1>4 DEF IInv, CopyCurrentWhileOwned, DecisionStands
<1>6. QED
  BY <1>2, <1>3, <1>5
  DEF IInv, TokenOfLatestClaim, ReasonOnlyInAttention, UploadPendingTruthful, WakesInTime,
      AuditPerRedrive, UnclaimedBeforeEnqueue, TokensDistinct

\* The passing of time only relaxes the bounds of WakesInTime.
LEMMA TickStep ==
    ASSUME ConstantsAssumption, IInv, Tick
    PROVE  IInv'
<1>1. /\ UNCHANGED <<events, held, uploadPending, mediaFailures, seen, audits>>
      /\ clock' = clock + 1 /\ clock \in Nat /\ clock' \in Nat
      /\ LeaseDuration \in Nat /\ MaxDelay \in Nat
      /\ events \in [Events -> Event]
  BY DEF Tick, IInv, TypeOK, ConstantsAssumption
<1>2. \A w \in Workers : Owns(w)' <=> Owns(w)
  BY <1>1 DEF Owns
<1>3. CopyCurrentWhileOwned'
  BY <1>1, <1>2 DEF IInv, CopyCurrentWhileOwned
<1>4. \A e \in Events : EventAgeExceeded(events[e], clock) => EventAgeExceeded(events[e], clock')
  <2>1. \A e \in Events : WindowStart(events[e]) \in Int
    <3>1. \A e \in Events : events[e].redriveAt \in Int /\ events[e].created \in Int
      BY <1>1 DEF Event, Times, NoTime
    <3>2. QED
      BY <3>1 DEF WindowStart
  <2>2. MaxEventAge \in Int
    BY DEF ConstantsAssumption
  <2>3. QED
    BY <1>1, <2>1, <2>2 DEF EventAgeExceeded
<1>5. \A w \in Workers : held[w] # Idle => held[w].id \in Events
  BY HeldLease DEF IInv
<1>6. DecisionStands'
  BY <1>1, <1>2, <1>4, <1>5 DEF IInv, DecisionStands, RetryBudgetExhausted, WindowBase
<1>7. WakesInTime'
  <2>1. \A e \in Events : events[e].next \in Int /\ events[e].until \in Int
    BY <1>1 DEF Event, Times, NoTime
  <2>2. QED
    BY <1>1, <2>1 DEF IInv, WakesInTime
<1>8. TypeOK'
  BY <1>1 DEF IInv, TypeOK
<1>9. QED
  BY <1>1, <1>3, <1>6, <1>7, <1>8
  DEF IInv, TokenOfLatestClaim, ReasonOnlyInAttention, UploadPendingTruthful,
      AuditPerRedrive, UnclaimedBeforeEnqueue, TokensDistinct

\* A re-drive counts itself and writes the one audit row of its count; nobody
\* owns the event it moves, so no worker's copy becomes stale while owned.
LEMMA RedriveStep ==
    ASSUME ConstantsAssumption, IInv, NEW o \in Operators, NEW key \in Keys, Redrive(o, key)
    PROVE  IInv'
<1> DEFINE e == seen[o].id
           R == RedriveAttention(events[e])
           audit == [actor |-> o, key |-> key, expected |-> seen[o].count, id |-> e]
<1>1. /\ TypeOK /\ e \in Events /\ seen[o].count \in Nat /\ events[e] \in Event
      /\ events \in [Events -> Event] /\ clock \in Nat
  BY DEF Redrive, IInv, TypeOK, View
<1>2. R \in Event
  BY <1>1, EventUpdates
<1>3. /\ R.status = "pending" /\ R.next = clock /\ R.reason = "none"
      /\ R.redriveCount = events[e].redriveCount + 1
      /\ R.attempts = events[e].attempts /\ R.token = events[e].token
      /\ R.until = events[e].until
  BY <1>1 DEF RedriveAttention, Event
<1>4. /\ events' = [events EXCEPT ![e] = R]
      /\ mediaFailures' = [mediaFailures EXCEPT ![e] = 0]
      /\ audits' = audits \cup {audit}
      /\ UNCHANGED <<clock, held, uploadPending, seen>>
      /\ events[e].status = "needs_attention"
      /\ events[e].redriveCount < MaxRedriveCount
      /\ events[e].redriveCount = seen[o].count
  BY DEF Redrive, RedriveEligible
<1> HIDE DEF R
<1>5. /\ events'[e] = R
      /\ \A f \in Events : f # e => events'[f] = events[f]
      /\ events' \in [Events -> Event]
  BY <1>1, <1>2, <1>4
<1>6. TypeOK'
  <2>1. audit \in Audit
    BY <1>1 DEF Audit
  <2>2. mediaFailures' \in [Events -> Nat]
    BY <1>1, <1>4 DEF TypeOK
  <2> HIDE DEF audit
  <2>3. QED
    BY <1>1, <1>4, <1>5, <2>1, <2>2 DEF TypeOK
\* Nobody owns an event that needs attention, before or after.
<1>7. ASSUME NEW w \in Workers, held[w] # Idle, Owns(w) \/ Owns(w)'
      PROVE  held[w].id # e /\ Owns(w)
  <2>1. held[w].id \in Events
    BY <1>1, <1>7, HeldLease
  <2>2. events[e].status \notin Claimed /\ events'[e].status \notin Claimed
    BY <1>3, <1>4, <1>5 DEF Claimed
  <2>3. held[w].id # e
    BY <1>4, <1>7, <2>2 DEF Owns
  <2>4. QED
    BY <1>4, <1>5, <1>7, <2>1, <2>3 DEF Owns
<1>8. TokenOfLatestClaim'
  BY <1>3, <1>4, <1>5 DEF IInv, TokenOfLatestClaim, Claimed
<1>9. CopyCurrentWhileOwned'
  <2>1. ASSUME NEW w \in Workers, held[w] # Idle
        PROVE  LET doc == events'[held[w].id]
               IN  /\ held[w].ev.token > 0
                   /\ held[w].ev.token = held[w].ev.attempts
                   /\ held[w].ev.token <= doc.attempts
                   /\ Owns(w)' => /\ held[w].ev.created = doc.created
                                  /\ held[w].ev.redriveAt = doc.redriveAt
                                  /\ held[w].ev.redriveBase = doc.redriveBase
    <3>1. held[w].id \in Events
      BY <1>1, <2>1, HeldLease
    <3>2. events'[held[w].id].attempts = events[held[w].id].attempts
      BY <1>3, <1>5, <3>1
    <3>3. Owns(w)' => Owns(w) /\ events'[held[w].id] = events[held[w].id]
      BY <1>5, <1>7, <2>1, <3>1
    <3>4. QED
      BY <2>1, <3>2, <3>3 DEF IInv, CopyCurrentWhileOwned
  <2>2. QED
    BY <1>4, <2>1 DEF CopyCurrentWhileOwned
<1>10. DecisionStands'
  <2>1. \A w \in Workers : held[w] # Idle /\ Owns(w)' =>
            Owns(w) /\ events'[held[w].id] = events[held[w].id]
    BY <1>1, <1>5, <1>7, HeldLease
  <2>2. QED
    BY <1>4, <2>1 DEF IInv, DecisionStands
<1>11. TokensDistinct'
  BY <1>4 DEF IInv, TokensDistinct
<1>12. ReasonOnlyInAttention' /\ UploadPendingTruthful' /\ UnclaimedBeforeEnqueue'
  BY <1>3, <1>4, <1>5
  DEF IInv, ReasonOnlyInAttention, UploadPendingTruthful, UnclaimedBeforeEnqueue
<1>13. WakesInTime'
  <2>1. R.next <= clock + MaxDelay /\ R.until <= clock + LeaseDuration
    <3>1. R.next = clock /\ R.until = -1
      BY <1>1, <1>3, <1>4 DEF IInv, TokenOfLatestClaim, Claimed, NoTime
    <3>2. MaxDelay \in Nat /\ LeaseDuration \in Nat
      BY DEF ConstantsAssumption
    <3>3. QED
      BY <1>1, <3>1, <3>2
  <2>2. QED
    BY <1>4, <1>5, <2>1 DEF IInv, WakesInTime
<1>14. AuditPerRedrive'
  <2> DEFINE n == events[e].redriveCount
  <2>1. n \in Nat /\ MaxRedriveCount \in Nat /\ n < MaxRedriveCount
    BY <1>1, <1>4 DEF Event, ConstantsAssumption
  <2>2. audit.id = e /\ audit.expected = n
    BY <1>4
  <2>3. /\ \A m \in 0 .. n - 1 : \E a \in audits : a.id = e /\ a.expected = m
        /\ \A a, b \in audits : a.id = e /\ b.id = e =>
              /\ a.expected < n
              /\ a.expected = b.expected => a = b
    BY <1>1 DEF IInv, AuditPerRedrive
  <2>4. \A a \in audits : a.expected \in Nat
    BY <1>1 DEF TypeOK, Audit
  <2>5. events'[e].redriveCount = n + 1
    BY <1>3, <1>5
  <2> HIDE DEF n, audit, e
  <2>6. \A m \in 0 .. n : \E a \in audits' : a.id = e /\ a.expected = m
    <3>1. ASSUME NEW m \in 0 .. n
          PROVE  \E a \in audits' : a.id = e /\ a.expected = m
      <4>1. CASE m = n
        BY <1>4, <2>2, <4>1
      <4>2. CASE m # n
        <5>1. m \in 0 .. n - 1
          BY <2>1, <4>2
        <5>2. QED
          BY <1>4, <2>3, <5>1
      <4>3. QED
        BY <4>1, <4>2
    <3>2. QED
      BY <3>1
  <2>7. \A a \in audits' : a.id = e => a.expected < n + 1
    BY <1>4, <2>1, <2>2, <2>3, <2>4
  <2>8. \A a, b \in audits' : a.id = e /\ b.id = e /\ a.expected = b.expected => a = b
    BY <1>4, <2>1, <2>2, <2>3, <2>4
  <2>9. \A f \in Events \ {e} : \A a \in audits' : a.id = f => a \in audits
    BY <1>4, <2>2
  <2>10. n + 1 <= MaxRedriveCount /\ 0 .. (n + 1) - 1 = 0 .. n
    BY <2>1
  <2>11. /\ events'[e].redriveCount <= MaxRedriveCount
         /\ \A m \in 0 .. events'[e].redriveCount - 1 :
              \E a \in audits' : a.id = e /\ a.expected = m
         /\ \A a, b \in audits' : a.id = e /\ b.id = e =>
              /\ a.expected < events'[e].redriveCount
              /\ a.expected = b.expected => a = b
    <3> DEFINE r == events'[e].redriveCount
    <3>1. r = n + 1
      BY <2>5
    <3>2. r <= MaxRedriveCount /\ 0 .. r - 1 = 0 .. n
      BY <2>10, <3>1
    <3> HIDE DEF r
    <3>3. \A m \in 0 .. r - 1 : \E a \in audits' : a.id = e /\ a.expected = m
      BY <2>6, <3>2
    <3>4. \A a, b \in audits' : a.id = e /\ b.id = e =>
              /\ a.expected < r
              /\ a.expected = b.expected => a = b
      BY <2>7, <2>8, <3>1
    <3>5. QED
      BY <3>2, <3>3, <3>4 DEF r
  <2>12. ASSUME NEW f \in Events, f # e
         PROVE  /\ events'[f].redriveCount <= MaxRedriveCount
                /\ \A m \in 0 .. events'[f].redriveCount - 1 :
                      \E a \in audits' : a.id = f /\ a.expected = m
                /\ \A a, b \in audits' : a.id = f /\ b.id = f =>
                      /\ a.expected < events'[f].redriveCount
                      /\ a.expected = b.expected => a = b
    <3>1. events'[f].redriveCount = events[f].redriveCount
      BY <1>5, <2>12
    <3>2. QED
      BY <1>4, <2>9, <2>12, <3>1 DEF IInv, AuditPerRedrive
  <2>13. QED
    BY <2>11, <2>12 DEF AuditPerRedrive
<1>15. QED
  BY <1>6, <1>8, <1>9, <1>10, <1>11, <1>12, <1>13, <1>14 DEF IInv

\* One case per step of a worker that holds an event.
LEMMA HolderStep ==
    ASSUME ConstantsAssumption, IInv, NEW w \in Workers, held[w] # Idle,
           \/ Deliver(w) \/ GuardRenew(w) \/ Materialized(w) \/ Publish(w)
           \/ FailPermanently(w) \/ DependencyFails(w) \/ MediaFails(w)
           \/ MarkUploadPending(w) \/ GiveUp(w) \/ Crash(w)
    PROVE  IInv'
<1> DEFINE e == held[w].id
<1>1. /\ TypeOK /\ held[w] \in Lease /\ e \in Events /\ Doc(w) = events[e]
      /\ events[e] \in Event
      /\ uploadPending \in [Events -> BOOLEAN] /\ mediaFailures \in [Events -> Nat]
      /\ held \in [Workers -> {Idle} \cup Lease]
      /\ clock \in Nat /\ LeaseDuration \in Nat
  BY HeldLease DEF IInv, TypeOK, ConstantsAssumption
\* A claimed document carries no reason.
<1>2. Owns(w) => Doc(w).reason = "none"
  BY <1>1 DEF IInv, ReasonOnlyInAttention, Owns, Claimed
<1>3. NoTime <= clock + LeaseDuration
  BY <1>1 DEF NoTime
<1>4. ASSUME NEW ev, Release(w, ev), UNCHANGED <<uploadPending, mediaFailures>>,
             \/ ev.status = "delivered" /\ Kind[e] # "materialize" /\ ev.reason = Doc(w).reason
             \/ ev.status = "failed" /\ ev.reason = Doc(w).reason
             \/ /\ ev.status = "needs_attention"
                /\ Owns(w) /\ ev.reason = "material_upload_budget_exhausted" =>
                        uploadPending[e]
             \/ /\ ev.status = "pending" /\ ev.reason = Doc(w).reason
                /\ ev.next <= clock + MaxDelay
      PROVE  IInv'
  <2>1. ReleaseOwes(w, ev)
    BY <1>1, <1>2, <1>3, <1>4 DEF ReleaseOwes, Release, Open
  <2>2. QED
    BY <1>4, <2>1, ReleaseStep
<1>5. ASSUME Requeue(w), UNCHANGED <<clock, uploadPending, seen, audits>>,
             mediaFailures' \in [Events -> Nat]
      PROVE  IInv'
  <2>1. PICK ev : /\ Release(w, ev) /\ ev.status = "pending" /\ ev.reason = Doc(w).reason
                  /\ ev.next <= clock + MaxDelay
    BY <1>1, <1>5, ReleaseForms
  <2>2. ReleaseOwes(w, ev)
    BY <1>1, <1>2, <1>3, <1>5, <2>1 DEF ReleaseOwes, Release, Open
  <2>3. QED
    BY <2>1, <2>2, ReleaseStep
<1>6. ASSUME held' = [held EXCEPT ![w] = Idle], UNCHANGED events, Unchanged
      PROVE  IInv'
  BY <1>6, DropStep DEF Unchanged
<1>7. CASE Deliver(w)
  <2>1. MarkDelivered(w) /\ Unchanged /\ Kind[e] # "materialize"
    BY <1>7 DEF Deliver, Holds
  <2>2. PICK ev : Release(w, ev) /\ ev.status = "delivered" /\ ev.reason = Doc(w).reason
    BY <1>1, <2>1, ReleaseForms DEF Unchanged
  <2>3. QED
    BY <1>4, <2>1, <2>2 DEF Unchanged
<1>8. CASE FailPermanently(w)
  <2>1. MarkFailed(w) /\ Unchanged
    BY <1>8 DEF FailPermanently
  <2>2. PICK ev : Release(w, ev) /\ ev.status = "failed" /\ ev.reason = Doc(w).reason
    BY <1>1, <2>1, ReleaseForms DEF Unchanged
  <2>3. QED
    BY <1>4, <2>1, <2>2 DEF Unchanged
<1>9. CASE GiveUp(w)
  <2>1. MarkNeedsAttention(w, held[w].reason) /\ Unchanged /\ held[w].phase = "attention"
    BY <1>9 DEF GiveUp, InPhase
  <2>2. held[w].reason \in Reasons
    BY <1>1 DEF Lease
  <2>3. PICK ev : Release(w, ev) /\ ev.status = "needs_attention" /\ ev.reason = held[w].reason
    BY <1>1, <2>1, <2>2, ReleaseForms DEF Unchanged
  <2>4. Owns(w) => uploadPending[e]
    BY <2>1 DEF IInv, DecisionStands
  <2>5. QED
    BY <1>4, <2>1, <2>3, <2>4 DEF Unchanged
<1>10. CASE DependencyFails(w)
  <2> DEFINE reason == AttentionReason(held[w].ev, "dependency", clock)
  <2>1. reason \in {"none", "event_age_exceeded"}
    BY DEF AttentionReason
  <2>2. Unchanged /\ (MarkNeedsAttention(w, reason) \/ Requeue(w))
    BY <1>10 DEF DependencyFails
  <2> HIDE DEF reason
  <2>3. CASE MarkNeedsAttention(w, reason)
    <3>1. reason \in Reasons
      BY <2>1 DEF Reasons
    <3>2. PICK ev : Release(w, ev) /\ ev.status = "needs_attention" /\ ev.reason = reason
      BY <1>1, <2>2, <2>3, <3>1, ReleaseForms DEF Unchanged
    <3>3. QED
      BY <1>4, <2>1, <2>2, <3>2 DEF Unchanged
  <2>4. CASE Requeue(w)
    BY <1>1, <1>5, <2>2, <2>4 DEF Unchanged
  <2>5. QED
    BY <2>2, <2>3, <2>4
<1>11. CASE Crash(w)
  BY <1>6, <1>11 DEF Crash
<1>12. CASE Publish(w)
  <2>1. /\ MarkDelivered(w) /\ UNCHANGED <<clock, mediaFailures, seen, audits>>
        /\ uploadPending' = IF Owns(w) THEN [uploadPending EXCEPT ![e] = FALSE]
                                       ELSE uploadPending
    BY <1>12 DEF Publish
  <2>2. PICK ev : Release(w, ev) /\ ev.status = "delivered" /\ ev.reason = Doc(w).reason
    BY <1>1, <2>1, ReleaseForms
  <2>3. ReleaseOwes(w, ev)
    <3>1. /\ uploadPending' \in [Events -> BOOLEAN]
          /\ \A f \in Events : f # e \/ ~Owns(w) => uploadPending'[f] = uploadPending[f]
          /\ Owns(w) => ~uploadPending'[e]
      BY <1>1, <2>1
    <3>2. QED
      BY <1>1, <1>2, <2>1, <2>2, <3>1 DEF ReleaseOwes, Open
  <2>4. QED
    BY <2>2, <2>3, ReleaseStep
<1>13. CASE GuardRenew(w)
  <2>1. Unchanged /\ Kind[e] = "materialize" /\ held[w].phase = "io"
    BY <1>13 DEF GuardRenew, Holds, InPhase
  <2>2. CASE LeaseLive(w) /\ events' = RenewLease(w) /\ UNCHANGED held
    <3>1. held' = [held EXCEPT ![w] = held[w]]
      BY <1>1, <2>2
    <3>2. Hold(w, held[w]) /\ Founded(w, held[w])
      BY <1>1, <2>1, <2>2, <3>1 DEF Hold, Founded, Unchanged
    <3>3. QED
      BY <3>2, HoldStep
  <2>3. CASE held' = [held EXCEPT ![w] = Idle] /\ UNCHANGED events
    BY <1>6, <2>1, <2>3
  <2>4. QED
    BY <1>13, <2>2, <2>3 DEF GuardRenew
<1>14. CASE Materialized(w)
  <2>1. Unchanged /\ Kind[e] = "materialize"
    BY <1>14 DEF Materialized, Holds
  <2>2. CASE /\ LeaseLive(w) /\ events' = RenewLease(w)
             /\ held' = [held EXCEPT ![w].phase = "publish"]
    <3> DEFINE h == [held[w] EXCEPT !.phase = "publish"]
    <3>1. /\ h \in Lease /\ h.id = e /\ h.ev = held[w].ev /\ h.phase = "publish"
          /\ held' = [held EXCEPT ![w] = h]
      BY <1>1, <2>2 DEF Lease, Phases
    <3> HIDE DEF h
    <3>2. Hold(w, h) /\ Founded(w, h)
      BY <1>1, <2>1, <2>2, <3>1 DEF Hold, Founded, Unchanged
    <3>3. QED
      BY <3>2, HoldStep
  <2>3. CASE held' = [held EXCEPT ![w] = Idle] /\ UNCHANGED events
    BY <1>6, <2>1, <2>3
  <2>4. QED
    BY <1>14, <2>2, <2>3 DEF Materialized
<1>15. CASE MediaFails(w)
  <2> DEFINE reason == AttentionReason(held[w].ev, "media", clock)
  <2>1. /\ Kind[e] = "materialize" /\ UNCHANGED <<clock, uploadPending, seen, audits>>
        /\ mediaFailures' \in [Events -> Nat]
    BY <1>1, <1>15 DEF MediaFails, Holds
  <2>2. CASE Requeue(w)
    BY <1>5, <2>1, <2>2
  <2>3. CASE /\ reason # "none" /\ UNCHANGED events
             /\ held' = [held EXCEPT ![w].phase = "mark", ![w].reason = reason]
    <3> DEFINE h == [held[w] EXCEPT !.phase = "mark", !.reason = reason]
    <3>1. /\ reason \in Reasons
          /\ reason = "material_upload_budget_exhausted" => RetryBudgetExhausted(held[w].ev)
          /\ reason = "event_age_exceeded" => EventAgeExceeded(held[w].ev, clock)
      BY DEF AttentionReason, Reasons
    <3> HIDE DEF reason
    <3>2. /\ h \in Lease /\ h.id = e /\ h.ev = held[w].ev /\ h.phase = "mark"
          /\ h.reason = reason /\ held' = [held EXCEPT ![w] = h]
      BY <1>1, <2>3, <3>1 DEF Lease, Phases
    <3> HIDE DEF h
    <3>3. Owns(w) => /\ RetryBudgetExhausted(held[w].ev) => RetryBudgetExhausted(events[e])
                     /\ EventAgeExceeded(held[w].ev, clock) =>
                            EventAgeExceeded(events[e], clock)
      <4>1. ASSUME Owns(w)
            PROVE  /\ held[w].ev.created = events[e].created
                   /\ held[w].ev.redriveAt = events[e].redriveAt
                   /\ held[w].ev.redriveBase = events[e].redriveBase
                   /\ held[w].ev.attempts = events[e].attempts
        BY <1>1, <4>1 DEF IInv, CopyCurrentWhileOwned, TokenOfLatestClaim, Owns
      <4>2. QED
        BY <4>1 DEF RetryBudgetExhausted, WindowBase, EventAgeExceeded, WindowStart
    <3>4. Hold(w, h)
      BY <1>1, <2>1, <2>3, <3>2 DEF Hold
    <3>5. Founded(w, h)
      BY <2>1, <2>3, <3>1, <3>2, <3>3 DEF Founded
    <3>6. QED
      BY <3>4, <3>5, HoldStep
  <2>4. QED
    BY <1>15, <2>2, <2>3 DEF MediaFails
<1>16. CASE MarkUploadPending(w)
  <2>1. held[w].phase = "mark" /\ UNCHANGED <<clock, mediaFailures, seen, audits>>
    BY <1>16 DEF MarkUploadPending, InPhase
  <2>2. CASE Requeue(w) /\ UNCHANGED uploadPending
    BY <1>1, <1>5, <2>1, <2>2
  <2>3. CASE /\ events[e].status # "delivered" /\ UNCHANGED events
             /\ uploadPending' = [uploadPending EXCEPT ![e] = TRUE]
             /\ held' = [held EXCEPT ![w].phase = "attention"]
    <3> DEFINE h == [held[w] EXCEPT !.phase = "attention"]
    <3>1. /\ h \in Lease /\ h.id = e /\ h.ev = held[w].ev /\ h.phase = "attention"
          /\ h.reason = held[w].reason /\ held' = [held EXCEPT ![w] = h]
      BY <1>1, <2>3 DEF Lease, Phases
    <3> HIDE DEF h
    <3>2. Hold(w, h)
      BY <1>1, <2>1, <2>3, <3>1 DEF Hold
    <3>3. Founded(w, h)
      BY <1>1, <2>1, <2>3, <3>1 DEF Founded, IInv, DecisionStands
    <3>4. QED
      BY <3>2, <3>3, HoldStep
  <2>4. QED
    BY <1>16, <2>2, <2>3 DEF MarkUploadPending
<1>17. QED
  BY <1>7, <1>8, <1>9, <1>10, <1>11, <1>12, <1>13, <1>14, <1>15, <1>16
----------------------------------------------------------------------------
(* The inductive invariant, and what follows from it.                      *)

\* The empty collection satisfies the invariant.
LEMMA InitIInv ==
    ASSUME ConstantsAssumption, Init
    PROVE  IInv
<1>1. TypeOK
  <2>1. Absent \in Event
    BY DEF Absent, Event, Status, Open, Closed, NoToken, NoTime, Times, Reasons
  <2>2. QED
    BY <2>1 DEF Init, TypeOK
<1>2. \A e \in Events : events[e] = Absent
  BY DEF Init
<1>3. Absent.status = "absent" /\ Absent.attempts = 0 /\ Absent.redriveCount = 0
      /\ Absent.token = NoToken /\ Absent.until = NoTime /\ Absent.reason = "none"
  BY DEF Absent
<1>4. \A w \in Workers : held[w] = Idle
  BY DEF Init
<1>5. audits = {} /\ 0 <= MaxRedriveCount
  BY DEF Init, ConstantsAssumption
<1>6. AuditPerRedrive
  <2>1. 0 .. 0 - 1 = {}
    OBVIOUS
  <2>2. QED
    BY <1>2, <1>3, <1>5, <2>1 DEF AuditPerRedrive
<1>7. QED
  BY <1>1, <1>2, <1>3, <1>4, <1>6
  DEF IInv, UnclaimedBeforeEnqueue, TokenOfLatestClaim, CopyCurrentWhileOwned, TokensDistinct,
      DecisionStands, ReasonOnlyInAttention, UploadPendingTruthful, WakesInTime, Open, Claimed

\* Every step preserves the invariant: one case per action.
LEMMA NextIInv ==
    ASSUME ConstantsAssumption, IInv, [Next]_vars
    PROVE  IInv'
<1>1. CASE UNCHANGED vars
  <2>1. UNCHANGED <<clock, events, held, uploadPending, mediaFailures, seen, audits>>
    BY <1>1 DEF vars
  <2>2. \A w \in Workers : Owns(w)' <=> Owns(w)
    BY <2>1 DEF Owns
  <2>3. CopyCurrentWhileOwned' /\ DecisionStands'
    BY <2>1, <2>2 DEF IInv, CopyCurrentWhileOwned, DecisionStands
  <2>4. QED
    BY <2>1, <2>3
    DEF IInv, TypeOK, TokenOfLatestClaim, ReasonOnlyInAttention, UploadPendingTruthful,
        WakesInTime, AuditPerRedrive, UnclaimedBeforeEnqueue, TokensDistinct
<1>2. CASE \E e \in Events : Enqueue(e)
  BY <1>2, EnqueueStep
<1>3. CASE \E o \in Operators, e \in Events : Observe(o, e)
  BY <1>3, ObserveStep
<1>4. CASE \E o \in Operators, key \in Keys : Redrive(o, key)
  BY <1>4, RedriveStep
<1>5. CASE Tick
  BY <1>5, TickStep
<1>6. ASSUME NEW w \in Workers, WorkerStep(w)
      PROVE  IInv'
  <2>1. CASE \E kind \in Kinds : ClaimByType(w, kind)
    BY <2>1, ClaimStep DEF ClaimByType
  <2>2. CASE \E e \in Events : ClaimByIDAndType(w, e, Kind[e])
    BY <2>2, ClaimStep DEF ClaimByIDAndType
  <2>3. CASE \/ Deliver(w) \/ GuardRenew(w) \/ Materialized(w) \/ Publish(w)
             \/ FailPermanently(w) \/ DependencyFails(w) \/ MediaFails(w)
             \/ MarkUploadPending(w) \/ GiveUp(w) \/ Crash(w)
    <3>1. held[w] # Idle
      <4>1. CASE held[w] = Idle
        BY <2>3, <4>1 DEF Deliver, GuardRenew, Materialized, Publish, FailPermanently,
          DependencyFails, MediaFails, MarkUploadPending, GiveUp, Crash, Holds, InPhase
      <4>2. QED
        BY <4>1
    <3>2. QED
      BY <2>3, <3>1, HolderStep
  <2>4. QED
    BY <1>6, <2>1, <2>2, <2>3 DEF WorkerStep
<1>7. QED
  BY <1>1, <1>2, <1>3, <1>4, <1>5, <1>6 DEF Next

\* Every reachable state satisfies the inductive invariant.
THEOREM InvariantHolds == Spec => []IInv
<1>1. ConstantsAssumption
  BY ConstantsAssumption
<1>2. Init => IInv
  BY <1>1, InitIInv
<1>3. IInv /\ [Next]_vars => IInv'
  BY <1>1, NextIInv
<1>4. QED
  BY <1>2, <1>3, PTL DEF Spec

\* Every variable keeps its type, whatever the constants are.
THEOREM TypeCorrect == Spec => []TypeOK
<1>1. IInv => TypeOK
  BY DEF IInv
<1>2. QED
  BY <1>1, InvariantHolds, PTL

\* Whatever two workers do and for however long they were away, at most one
\* of the leases they hold on an event can still write it.
THEOREM LeaseIsExclusive == Spec => []LeaseExclusive
<1>1. IInv => LeaseExclusive
  BY DEF IInv, TokensDistinct, LeaseExclusive, Owns
<1>2. QED
  BY <1>1, InvariantHolds, PTL

\* One audit row per re-drive, never more re-drives than the maximum.
THEOREM RedrivesAudited == Spec => []AuditPerRedrive
<1>1. IInv => AuditPerRedrive
  BY DEF IInv
<1>2. QED
  BY <1>1, InvariantHolds, PTL

\* An event given up for its upload budget is flagged, a published one is not.
THEOREM UploadFlagTruthful == Spec => []UploadPendingTruthful
<1>1. IInv => UploadPendingTruthful
  BY DEF IInv
<1>2. QED
  BY <1>1, InvariantHolds, PTL

\* An open event is claimable again within one lease or one backoff.
THEOREM OpenEventsWake == Spec => []WakesInTime
<1>1. IInv => WakesInTime
  BY DEF IInv
<1>2. QED
  BY <1>1, InvariantHolds, PTL
----------------------------------------------------------------------------
(* What a step may do to an event.                                         *)

GaveUp(e) ==
    /\ events'[e].status = "needs_attention"
    /\ \/ /\ events'[e].reason = "material_upload_budget_exhausted"
          /\ RetryBudgetExhausted(events[e])
       \/ /\ events'[e].reason = "event_age_exceeded"
          /\ EventAgeExceeded(events[e], clock)

Effect(e) ==
    \/ events'[e] = events[e]
    \/ events[e].status = "absent" /\ events'[e].status = "pending"
    \/ events[e].status \in Open /\ events'[e].status # "needs_attention"
    \/ events[e].status \in Claimed /\ GaveUp(e)
    \/ /\ events[e].status = "needs_attention"
       /\ events'[e].status = "pending"
       /\ events'[e].redriveCount = events[e].redriveCount + 1
       /\ events'[e].redriveCount <= MaxRedriveCount

\* A worker writes an event only while its token is alive, and gives it up
\* only for a reason the document itself bears out.
LEMMA HolderEffect ==
    ASSUME ConstantsAssumption, IInv, NEW w \in Workers, held[w] # Idle,
           \/ Deliver(w) \/ GuardRenew(w) \/ Materialized(w) \/ Publish(w)
           \/ FailPermanently(w) \/ DependencyFails(w) \/ MediaFails(w)
           \/ MarkUploadPending(w) \/ GiveUp(w) \/ Crash(w),
           NEW f \in Events
    PROVE  Effect(f)
<1> DEFINE e == held[w].id
<1>1. /\ TypeOK /\ held[w] \in Lease /\ e \in Events /\ Doc(w) = events[e]
      /\ events[e] \in Event /\ events \in [Events -> Event] /\ clock \in Nat
  BY HeldLease DEF IInv, TypeOK
<1>2. ASSUME NEW ev, UpdateClaimed(w, ev),
             \/ ev.status # "needs_attention"
             \/ /\ ev.status = "needs_attention"
                /\ Owns(w) =>
                    \/ /\ ev.reason = "material_upload_budget_exhausted"
                       /\ RetryBudgetExhausted(events[e])
                    \/ /\ ev.reason = "event_age_exceeded"
                       /\ EventAgeExceeded(events[e], clock)
      PROVE  Effect(f)
  <2>1. CASE Owns(w) /\ f = e
    <3>1. events'[e] = ev /\ events[e].status \in Claimed /\ events[e].status \in Open
      BY <1>1, <1>2, <2>1 DEF UpdateClaimed, Owns, Claimed, Open
    <3>2. QED
      BY <1>2, <2>1, <3>1 DEF Effect, GaveUp
  <2>2. CASE ~(Owns(w) /\ f = e)
    BY <1>1, <1>2, <2>2 DEF UpdateClaimed, Effect
  <2>3. QED
    BY <2>1, <2>2
<1>3. ASSUME UNCHANGED events
      PROVE  Effect(f)
  BY <1>3 DEF Effect
<1>4. ASSUME LeaseLive(w), events' = RenewLease(w)
      PROVE  Effect(f)
  <2> DEFINE D == [events[e] EXCEPT !.until = clock + LeaseDuration]
  <2>1. /\ events' = [events EXCEPT ![e] = D] /\ D.status = events[e].status
        /\ events[e].status \in Open /\ events[e].status # "needs_attention"
    BY <1>1, <1>4 DEF RenewLease, Event, LeaseLive, Owns, Claimed, Open
  <2> HIDE DEF D
  <2>2. QED
    BY <1>1, <2>1 DEF Effect
<1>5. ASSUME Requeue(w)
      PROVE  Effect(f)
  <2>1. PICK delay \in 1 .. MaxDelay :
          UpdateClaimed(w, [Unleased(Doc(w)) EXCEPT !.status = "pending",
                                                    !.next = clock + delay])
    BY <1>5 DEF Requeue
  <2> DEFINE P == [Unleased(Doc(w)) EXCEPT !.status = "pending", !.next = clock + delay]
  <2>2. P.status = "pending" /\ UpdateClaimed(w, P)
    BY <1>1, <2>1 DEF Event, Unleased
  <2> HIDE DEF P
  <2>3. QED
    BY <1>2, <2>2
<1>6. ASSUME MarkDelivered(w) \/ MarkFailed(w)
      PROVE  Effect(f)
  <2> DEFINE D == [Unleased(Doc(w)) EXCEPT !.status = "delivered"]
             F == [Unleased(Doc(w)) EXCEPT !.status = "failed"]
  <2>1. D.status = "delivered" /\ F.status = "failed"
    BY <1>1 DEF Event, Unleased
  <2>2. UpdateClaimed(w, D) \/ UpdateClaimed(w, F)
    BY <1>6 DEF MarkDelivered, MarkFailed
  <2> HIDE DEF D, F
  <2>3. QED
    BY <1>2, <2>1, <2>2
<1>7. ASSUME NEW reason, MarkNeedsAttention(w, reason),
             Owns(w) =>
                \/ /\ reason = "material_upload_budget_exhausted"
                   /\ RetryBudgetExhausted(events[e])
                \/ /\ reason = "event_age_exceeded"
                   /\ EventAgeExceeded(events[e], clock)
      PROVE  Effect(f)
  <2> DEFINE N == [Unleased(Doc(w)) EXCEPT !.status = "needs_attention", !.reason = reason]
  <2>1. N.status = "needs_attention" /\ N.reason = reason
    BY <1>1 DEF Event, Unleased
  <2>2. UpdateClaimed(w, N)
    BY <1>7 DEF MarkNeedsAttention
  <2> HIDE DEF N
  <2>3. QED
    BY <1>2, <1>7, <2>1, <2>2
<1>8. CASE Deliver(w) \/ Publish(w) \/ FailPermanently(w)
  BY <1>6, <1>8 DEF Deliver, Publish, FailPermanently
<1>9. CASE GuardRenew(w) \/ Materialized(w)
  BY <1>3, <1>4, <1>9 DEF GuardRenew, Materialized
<1>10. CASE MediaFails(w) \/ MarkUploadPending(w) \/ Crash(w)
  BY <1>3, <1>5, <1>10 DEF MediaFails, MarkUploadPending, Crash
<1>11. CASE GiveUp(w)
  <2>1. MarkNeedsAttention(w, held[w].reason) /\ held[w].phase = "attention"
    BY <1>11 DEF GiveUp, InPhase
  <2>2. held[w].reason \in Reasons
    BY <1>1 DEF Lease
  <2>3. held[w].reason # "none"
    BY <2>1 DEF IInv, DecisionStands
  <2>4. Owns(w) =>
            /\ held[w].reason = "material_upload_budget_exhausted" =>
                    RetryBudgetExhausted(events[e])
            /\ held[w].reason = "event_age_exceeded" => EventAgeExceeded(events[e], clock)
    BY <2>1 DEF IInv, DecisionStands
  <2>5. QED
    BY <1>7, <2>1, <2>2, <2>3, <2>4 DEF Reasons
<1>12. CASE DependencyFails(w)
  <2> DEFINE reason == AttentionReason(held[w].ev, "dependency", clock)
  <2>1. /\ reason \in {"none", "event_age_exceeded"}
        /\ reason = "event_age_exceeded" => EventAgeExceeded(held[w].ev, clock)
    BY DEF AttentionReason
  <2>2. Requeue(w) \/ (reason # "none" /\ MarkNeedsAttention(w, reason))
    BY <1>12 DEF DependencyFails
  <2>3. Owns(w) => (EventAgeExceeded(held[w].ev, clock) => EventAgeExceeded(events[e], clock))
    <3>1. ASSUME Owns(w)
          PROVE  held[w].ev.created = events[e].created
                 /\ held[w].ev.redriveAt = events[e].redriveAt
      BY <1>1, <3>1 DEF IInv, CopyCurrentWhileOwned
    <3>2. QED
      BY <3>1 DEF EventAgeExceeded, WindowStart
  <2> HIDE DEF reason
  <2>4. QED
    BY <1>5, <1>7, <2>1, <2>2, <2>3
<1>13. QED
  BY <1>8, <1>9, <1>10, <1>11, <1>12

\* What any step does to a closed event, and when a step may give one up.
LEMMA NextEffect ==
    ASSUME ConstantsAssumption, IInv, [Next]_vars, NEW f \in Events
    PROVE  Effect(f)
<1>1. TypeOK /\ events \in [Events -> Event] /\ clock \in Nat
  BY DEF IInv, TypeOK
<1>2. CASE UNCHANGED events
  BY <1>2 DEF Effect
<1>3. CASE \E e \in Events : Enqueue(e)
  <2>1. PICK e \in Events : Enqueue(e)
    BY <1>3
  <2> DEFINE N == [Absent EXCEPT !.status = "pending", !.next = clock, !.created = clock]
  <2>2. N.status = "pending" /\ events' = [events EXCEPT ![e] = N] /\ events[e].status = "absent"
    BY <2>1 DEF Enqueue, Absent
  <2> HIDE DEF N
  <2>3. QED
    BY <1>1, <2>2 DEF Effect
<1>4. CASE \E o \in Operators, key \in Keys : Redrive(o, key)
  <2>1. PICK o \in Operators, key \in Keys : Redrive(o, key)
    BY <1>4
  <2> DEFINE e == seen[o].id
             R == RedriveAttention(events[e])
  <2>2. /\ e \in Events /\ events[e] \in Event
        /\ events' = [events EXCEPT ![e] = R]
        /\ events[e].status = "needs_attention" /\ events[e].redriveCount < MaxRedriveCount
    BY <1>1, <2>1 DEF Redrive, RedriveEligible, TypeOK, View
  <2>3. /\ R.status = "pending" /\ R.redriveCount = events[e].redriveCount + 1
        /\ events[e].redriveCount + 1 <= MaxRedriveCount
    BY <2>2 DEF RedriveAttention, Event, ConstantsAssumption
  <2> HIDE DEF R, e
  <2>4. QED
    BY <1>1, <2>2, <2>3 DEF Effect
<1>5. ASSUME NEW w \in Workers, NEW e \in Events, NEW kind, Claimable(e, kind), Claim(w, e)
      PROVE  Effect(f)
  <2> DEFINE C == ClaimedEvent(events[e])
  <2>1. /\ events' = [events EXCEPT ![e] = C] /\ C.status # "needs_attention"
        /\ events[e].status \in Open
    BY <1>1, <1>5 DEF Claim, Claimable, ClaimedEvent, Event
  <2> HIDE DEF C
  <2>2. QED
    BY <1>1, <2>1 DEF Effect
<1>6. ASSUME NEW w \in Workers, WorkerStep(w)
      PROVE  Effect(f)
  <2>1. CASE \E kind \in Kinds : ClaimByType(w, kind)
    BY <1>5, <2>1 DEF ClaimByType
  <2>2. CASE \E e \in Events : ClaimByIDAndType(w, e, Kind[e])
    BY <1>5, <2>2 DEF ClaimByIDAndType
  <2>3. CASE \/ Deliver(w) \/ GuardRenew(w) \/ Materialized(w) \/ Publish(w)
             \/ FailPermanently(w) \/ DependencyFails(w) \/ MediaFails(w)
             \/ MarkUploadPending(w) \/ GiveUp(w) \/ Crash(w)
    <3>1. held[w] # Idle
      <4>1. CASE held[w] = Idle
        BY <2>3, <4>1 DEF Deliver, GuardRenew, Materialized, Publish, FailPermanently,
          DependencyFails, MediaFails, MarkUploadPending, GiveUp, Crash, Holds, InPhase
      <4>2. QED
        BY <4>1
    <3>2. QED
      BY <2>3, <3>1, HolderEffect
  <2>4. QED
    BY <1>6, <2>1, <2>2, <2>3 DEF WorkerStep
<1>7. QED
  BY <1>2, <1>3, <1>4, <1>6 DEF Next, vars, Observe, Tick

\* No step reopens a delivered or failed event; needs_attention is left only
\* by a counted re-drive, at most MaxRedriveCount times.
THEOREM ClosedEventsFinal == Spec => ClosedIsFinal
<1>1. ConstantsAssumption
  BY ConstantsAssumption
<1>2. IInv /\ [Next]_vars =>
        \A e \in Events :
          /\ events[e].status \in {"delivered", "failed"} => events'[e] = events[e]
          /\ events[e].status = "needs_attention" =>
              \/ events'[e] = events[e]
              \/ /\ events'[e].status = "pending"
                 /\ events'[e].redriveCount = events[e].redriveCount + 1
                 /\ events'[e].redriveCount <= MaxRedriveCount
  BY <1>1, NextEffect DEF Effect, Open, Claimed
<1>3. QED
  BY <1>2, InvariantHolds, PTL DEF Spec, ClosedIsFinal

\* An event is given up only when the retry window recorded in the document
\* is used up, however old the copy is the worker decided on.
THEOREM RetryWindowRespected == Spec => WindowRespected
<1>1. ConstantsAssumption
  BY ConstantsAssumption
<1>2. IInv /\ [Next]_vars =>
        \A e \in Events :
          events'[e].status = "needs_attention" /\ events[e].status # "needs_attention" =>
            \/ /\ events'[e].reason = "material_upload_budget_exhausted"
               /\ RetryBudgetExhausted(events[e])
            \/ /\ events'[e].reason = "event_age_exceeded"
               /\ EventAgeExceeded(events[e], clock)
  BY <1>1, NextEffect DEF Effect, GaveUp
<1>3. QED
  BY <1>2, InvariantHolds, PTL DEF Spec, WindowRespected

\* Giving up and re-driving are sound together: final endings, whole windows,
\* one audit row per re-drive.
THEOREM RedrivesAreSound == Spec => RedrivesSound
  BY ClosedEventsFinal, RetryWindowRespected, RedrivesAudited, PTL DEF RedrivesSound
=============================================================================
