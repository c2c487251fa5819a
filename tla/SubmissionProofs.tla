-------------------------- MODULE SubmissionProofs --------------------------
(***************************************************************************)
(* Proofs about Submission, for any set of workers and either provider.    *)
(***************************************************************************)
EXTENDS Submission, TLAPS

\* The first worker on the event: one that was never told to come back to it.
First(w) == ~In(w, "idle") /\ ~work[w].again

\* At most one request left, and an answer is to a request that left and arrived.
RequestsCounted ==
    /\ posts \in {0, 1} /\ inflight <= posts
    /\ outcome # "none" => posts = 1 /\ inflight = 0

\* A snapshot is of the past: what is granted, bound or cancelled in it still is.
Older(d) ==
    /\ d.step.intent => db.step.intent
    /\ d.step.bound => db.step.bound
    /\ d.creation = "cancelling" => db.creation = "cancelling"

\* What a worker's place in its program says about the provider, the request and
\* the snapshot it works from.
PhasesMeant ==
    /\ \A w \in Workers :
        /\ work[w].phase \in {"prepare", "preparing", "binding"} => db.step.provider = "b2b"
        /\ In(w, "confiscate") => db.step.provider = "local"
        /\ work[w].phase \in {"wait", "unknown"} => posts = 1
        /\ work[w].phase \in {"bind", "binding"} => outcome = "accepted"
        /\ work[w].phase \in {"preparing", "binding"} => snap[w] \in Database /\ Older(snap[w])
    /\ snap[User] # NoOne => Older(snap[User])

\* The provider was not asked and nobody is about to ask.
NobodySends == posts = 0 /\ \A w \in Workers : ~In(w, "post")

\* A local provider has no permission to ask for: only the first claim of the
\* event asks, and a worker gives up only as the first or on a refusal.
LocalSendsFirst ==
    db.step.provider = "local" =>
        /\ db.event.claims = 0 => posts = 0 /\ \A w \in Workers : In(w, "idle")
        /\ \A v, w \in Workers : First(v) /\ First(w) => v = w
        /\ \A w \in Workers :
            /\ work[w].phase \in {"submit", "post", "confiscate"} => First(w)
            /\ First(w) /\ work[w].phase \in {"claimed", "submit", "post", "confiscate"} => posts = 0
            /\ In(w, "reject") => outcome = "refused" \/ (posts = 0 /\ First(w))

\* A B2B provider is asked under the permission that one commit grants: without
\* it nobody asks, under it one worker does, before which nothing was sent.
PermissionGrantedOnce ==
    /\ db.step.intent => db.step.provider = "b2b"
    /\ db.step.intent /\ db.reservation.status = "reserved" => db.reservation.gate = "open"
    /\ db.step.provider = "b2b" =>
        /\ ~db.step.intent => NobodySends
        /\ \A v, w \in Workers : In(v, "post") /\ In(w, "post") => v = w
        /\ \A w \in Workers :
            /\ In(w, "post") => posts = 0
            /\ In(w, "reject") /\ Owns(db, w) => outcome = "refused" \/ NobodySends

\* Once the reservation is settled no first worker is left that may still ask.
NoFirstAfterSettlement ==
    db.reservation.status # "reserved" /\ db.step.provider = "local" =>
        \A w \in Workers : ~(First(w) /\ work[w].phase \in {"claimed", "submit"})

\* The invariant: the types, where the request stands, what each worker may do
\* with it, and the two properties of the settlement that it carries.
IInv ==
    /\ TypeOK
    /\ RequestsCounted
    /\ PhasesMeant
    /\ LocalSendsFirst
    /\ PermissionGrantedOnce
    /\ NoFirstAfterSettlement
    /\ SettledWithoutJob
    /\ StoryAgrees
------------------------------------------------------------------------------
(* What the actions write.                                                  *)

\* What the actions write are documents of a creation.
LEMMA Writes ==
    ASSUME SubmissionAssumption, db \in Database
    PROVE  /\ \A w \in Workers, n \in 0 .. 2 :
                [db EXCEPT !.event = [status |-> ClaimedStatus(db.event.status), holder |-> w,
                                      claims |-> n]] \in Database
           /\ Prepared(db) \in Database
           /\ \A status \in {"delivered", "reconciling", "pending", "failed"} :
                Unleased(status) \in Event
           /\ [db EXCEPT !.event = Unleased("delivered"), !.step.status = "submitted",
                         !.step.bound = TRUE] \in Database
           /\ \A cancel \in {"absent", "pending"} :
                [db EXCEPT !.event = Unleased("delivered"), !.step.status = "submitted",
                           !.step.bound = TRUE, !.cancel = cancel] \in Database
           /\ [db EXCEPT !.event = Unleased("reconciling"),
                         !.step.status = "reconciling"] \in Database
           /\ [db EXCEPT !.event = Unleased("pending")] \in Database
           /\ ClosedAs("submission_failed", "reversed") \in Database
           /\ ClosedAs("confiscated", "confiscated") \in Database
           /\ \A recovery \in Open : [db EXCEPT !.recovery = recovery] \in Database
           /\ \A cancel \in {"absent", "pending"} :
                [db EXCEPT !.creation = "cancelling", !.cancel = cancel] \in Database
<1> USE DEF Database, Creation, Step, Reservation, Event, Open, Claimed
<1>1. \A status \in {"delivered", "reconciling", "pending", "failed"} :
        Unleased(status) \in Event
  BY DEF Unleased
<1>2. \A w \in Workers, n \in 0 .. 2 :
        [db EXCEPT !.event = [status |-> ClaimedStatus(db.event.status), holder |-> w,
                              claims |-> n]] \in Database
  BY DEF ClaimedStatus
<1>3. Prepared(db) \in Database
  BY DEF Prepared
<1> HIDE DEF Event
<1>4. /\ [db EXCEPT !.event = Unleased("delivered"), !.step.status = "submitted",
                    !.step.bound = TRUE] \in Database
      /\ \A cancel \in {"absent", "pending"} :
           [db EXCEPT !.event = Unleased("delivered"), !.step.status = "submitted",
                      !.step.bound = TRUE, !.cancel = cancel] \in Database
      /\ [db EXCEPT !.event = Unleased("reconciling"), !.step.status = "reconciling"] \in Database
      /\ [db EXCEPT !.event = Unleased("pending")] \in Database
  BY <1>1
<1>5. /\ ClosedAs("submission_failed", "reversed") \in Database
      /\ ClosedAs("confiscated", "confiscated") \in Database
  BY <1>1 DEF ClosedAs
<1>6. /\ \A recovery \in Open : [db EXCEPT !.recovery = recovery] \in Database
      /\ \A cancel \in {"absent", "pending"} :
           [db EXCEPT !.creation = "cancelling", !.cancel = cancel] \in Database
  OBVIOUS
<1>7. QED
  BY <1>1, <1>2, <1>3, <1>4, <1>5, <1>6

\* Where a worker goes is a phase, and a worker that leaves is idle.
LEMMA Moves ==
    ASSUME SubmissionAssumption, work \in [Workers -> Work], NEW w \in Workers
    PROVE  /\ Idle \in Work
           /\ \A phase \in Phases : Goto(w, phase) => work' \in [Workers -> Work]
           /\ Leave(w) => work' \in [Workers -> Work]
<1>1. Idle \in Work
  BY DEF Idle, Work, Phases, Claimed, Creation
<1>2. \A phase \in Phases : [work[w] EXCEPT !.phase = phase] \in Work
  BY DEF Work
<1>3. QED
  BY <1>1, <1>2 DEF Goto, Leave

\* What a worker loads after its claim is a phase and a creation's status.
LEMMA LoadedType ==
    ASSUME TypeOK, NEW w \in Workers, NEW phase \in {"submit", "lookup"}, Loaded(w, phase)
    PROVE  work' \in [Workers -> Work]
<1>1. \A p \in Phases : [work[w] EXCEPT !.phase = p, !.seen = db.creation] \in Work
  <2>1. work[w] \in Work /\ db.creation \in Creation
    BY DEF TypeOK, Database
  <2> QED
    BY <2>1 DEF Work
<1>2. work' = [work EXCEPT ![w] = [work[w] EXCEPT !.phase = IF Loadable(w) THEN phase ELSE "idle",
                                                 !.seen = db.creation]]
  BY DEF Loaded, TypeOK
<1>3. QED
  BY <1>1, <1>2 DEF TypeOK, Phases

\* PrepareCommit grants the permission only to the worker that owns the event,
\* on a step nobody was granted it for; otherwise it writes nothing.
Refused(w) ==
    /\ In(w, "preparing")
    /\ \E phase \in {"lookup", "prepare"} : Goto(w, phase)
    /\ snap' = [snap EXCEPT ![w] = NoOne]
    /\ UNCHANGED <<db, leased, inflight, outcome, posts>>

\* Or grants it: the step's intent is set and the reservation's gate stands open.
Granted(w) ==
    /\ In(w, "preparing")
    /\ Goto(w, "post")
    /\ db' \in Database
    /\ db'.creation = db.creation /\ db'.event = db.event /\ db'.cancel = db.cancel
    /\ db'.step.provider = db.step.provider /\ db'.step.bound = db.step.bound
    /\ db'.step.status = "submitting" /\ db'.step.intent
    /\ db'.reservation.status = db.reservation.status /\ db'.reservation.gate = "open"
    /\ Owns(db, w)
    /\ db.event.status = "dispatching"
    /\ Settleable(db.reservation)
    /\ AwaitsPermission(db.step)
    /\ snap[w].creation = "pending_submission"
    /\ snap' = [snap EXCEPT ![w] = NoOne]
    /\ UNCHANGED <<leased, inflight, outcome, posts>>

\* The two things the commit of a preparation can be.
LEMMA PermissionCases ==
    ASSUME SubmissionAssumption, TypeOK, PhasesMeant, NEW w \in Workers, PrepareCommit(w)
    PROVE  Refused(w) \/ Granted(w)
<1>1. CASE ~Preparable(snap[w], w)
  BY <1>1 DEF PrepareCommit, End, Refused
<1>2. CASE /\ Preparable(snap[w], w)
           /\ NoWriteConflict(w, {"event", "reservation", "step", "recovery"})
  <2>1. /\ db.event = snap[w].event /\ db.reservation = snap[w].reservation
        /\ db.step = snap[w].step
    BY <1>2 DEF NoWriteConflict
  <2>2. db' = Prepared(db)
    BY <1>2 DEF PrepareCommit
  <2>3. /\ db'.creation = db.creation /\ db'.event = db.event /\ db'.cancel = db.cancel
        /\ db'.step.provider = db.step.provider /\ db'.step.bound = db.step.bound
        /\ db'.step.status = "submitting" /\ db'.step.intent
        /\ db'.reservation.status = db.reservation.status /\ db'.reservation.gate = "open"
    BY <2>2 DEF Prepared, TypeOK, Database, Step, Reservation
  <2>4. db' \in Database
    BY <2>2, Writes DEF TypeOK
  <2>5. QED
    BY <1>2, <2>1, <2>3, <2>4 DEF PrepareCommit, End, Preparable, Owns, Granted
<1>3. CASE /\ Preparable(snap[w], w)
           /\ ~NoWriteConflict(w, {"event", "reservation", "step", "recovery"})
  BY <1>3 DEF PrepareCommit, End, Refused
<1>4. QED
  BY <1>1, <1>2, <1>3

\* BindCommit binds the accepted job for the owner of the event, and schedules
\* the cancellation if its snapshot was cancelling.
Missed(w) ==
    /\ In(w, "binding")
    /\ Leave(w) \/ Goto(w, "bind")
    /\ snap' = [snap EXCEPT ![w] = NoOne]
    /\ UNCHANGED <<db, leased, inflight, outcome, posts>>

\* Or binds it: the step has its job and the event is delivered.
Bound(w) ==
    /\ In(w, "binding")
    /\ Leave(w)
    /\ Owns(db, w)
    /\ ~db.step.bound
    /\ db' \in Database
    /\ db'.creation = db.creation /\ db'.reservation = db.reservation
    /\ db'.step.provider = db.step.provider /\ db'.step.intent = db.step.intent
    /\ db'.step.status = "submitted" /\ db'.step.bound
    /\ db'.event.status = "delivered" /\ db'.event.holder = NoOne
    /\ db'.event.claims = db.event.claims
    /\ db'.cancel # db.cancel => db.creation = "cancelling"
    /\ leased' = FALSE
    /\ snap' = [snap EXCEPT ![w] = NoOne]
    /\ UNCHANGED <<inflight, outcome, posts>>

\* The two things the commit of a binding can be.
LEMMA BindingCases ==
    ASSUME SubmissionAssumption, TypeOK, PhasesMeant, NEW w \in Workers, BindCommit(w)
    PROVE  Missed(w) \/ Bound(w)
<1>0. In(w, "binding") /\ snap[w] \in Database /\ Older(snap[w])
  BY DEF BindCommit, PhasesMeant, In
<1>1. CASE ~Bindable(snap[w], w)
  BY <1>1 DEF BindCommit, End, Missed
<1>2. CASE Bindable(snap[w], w) /\ NoWriteConflict(w, {"event", "step", "recovery"})
  <2>1. db.event = snap[w].event /\ db.step = snap[w].step
    BY <1>2 DEF NoWriteConflict
  <2>2. Owns(db, w) /\ ~db.step.bound
    BY <1>2, <2>1 DEF Bindable, Owns, TakesJob
  <2> DEFINE cancel == IF snap[w].creation = "cancelling" THEN "pending" ELSE db.cancel
  <2>3. cancel \in {"absent", "pending"}
    BY DEF TypeOK, Database
  <2>4. cancel # db.cancel => db.creation = "cancelling"
    BY <1>0 DEF Older
  <2>5. db' = [db EXCEPT !.event = Unleased("delivered"), !.step.status = "submitted",
                         !.step.bound = TRUE, !.cancel = cancel]
    BY <1>2 DEF BindCommit
  <2> HIDE DEF cancel
  <2>6. db' \in Database
    BY <2>3, <2>5, Writes DEF TypeOK
  <2>7. /\ db'.creation = db.creation /\ db'.reservation = db.reservation
        /\ db'.step.provider = db.step.provider /\ db'.step.intent = db.step.intent
        /\ db'.step.status = "submitted" /\ db'.step.bound
        /\ db'.event.status = "delivered" /\ db'.event.holder = NoOne
        /\ db'.event.claims = db.event.claims
        /\ db'.cancel = cancel
    BY <2>5 DEF Unleased, TypeOK, Database, Step
  <2>8. QED
    BY <1>2, <2>2, <2>4, <2>6, <2>7 DEF BindCommit, End, Bound
<1>3. CASE Bindable(snap[w], w) /\ ~NoWriteConflict(w, {"event", "step", "recovery"})
  BY <1>3 DEF BindCommit, End, Missed
<1>4. QED
  BY <1>1, <1>2, <1>3

\* Every step of the system, with the two commits told apart by what they do.
LEMMA Cases ==
    ASSUME SubmissionAssumption, IInv, NEW w \in Workers
    PROVE  /\ PrepareCommit(w) => Refused(w) \/ Granted(w)
           /\ BindCommit(w) => Missed(w) \/ Bound(w)
  BY PermissionCases, BindingCases DEF IInv

------------------------------------------------------------------------------
(* The invariant is inductive.                                              *)

\* No step sends a second request, nor answers one that was not sent.
LEMMA NextRequestsCounted ==
  ASSUME SubmissionAssumption, IInv, [Next]_vars PROVE RequestsCounted'
<1>0. \A w \in Workers : /\ PrepareCommit(w) => Refused(w) \/ Granted(w)
                         /\ BindCommit(w) => Missed(w) \/ Bound(w)
  BY Cases
<1> USE DEF IInv, TypeOK, In
<1>1. ASSUME NEW w \in Workers, Claim(w) PROVE RequestsCounted'
  BY <1>1 DEF Claim, RequestsCounted
<1>2. ASSUME NEW w \in Workers, LoadForSubmit(w) PROVE RequestsCounted'
  BY <1>2 DEF LoadForSubmit, Loaded, Remote, RequestsCounted
<1>3. ASSUME NEW w \in Workers, LoadForLookup(w) PROVE RequestsCounted'
  BY <1>3 DEF LoadForLookup, Loaded, Remote, RequestsCounted
<1>4. ASSUME NEW w \in Workers, SubmitLocal(w) PROVE RequestsCounted'
  BY <1>4 DEF Goto, Remote, RequestsCounted, SubmitLocal
<1>5. ASSUME NEW w \in Workers, SubmitB2B(w) PROVE RequestsCounted'
  BY <1>5 DEF Goto, Remote, RequestsCounted, SubmitB2B
<1>6. ASSUME NEW w \in Workers, PrepareBegin(w) PROVE RequestsCounted'
  BY <1>6 DEF Goto, PrepareBegin, RequestsCounted
<1>7. ASSUME NEW w \in Workers, Refused(w) PROVE RequestsCounted'
  BY <1>7 DEF Goto, Refused, RequestsCounted
<1>8. ASSUME NEW w \in Workers, Granted(w) PROVE RequestsCounted'
  BY <1>8 DEF Goto, Granted, RequestsCounted
<1>9. ASSUME NEW w \in Workers, Post(w) PROVE RequestsCounted'
  BY <1>9 DEF Database, Goto, LocalSendsFirst, PermissionGrantedOnce, Post, RequestsCounted, Step
<1>10. ASSUME NEW w \in Workers, Answer(w) PROVE RequestsCounted'
  BY <1>10 DEF Answer, Goto, Remote, RequestsCounted
<1>11. ASSUME NEW w \in Workers, LookupFinds(w) PROVE RequestsCounted'
  BY <1>11 DEF Goto, LookupFinds, Remote, RequestsCounted
<1>12. ASSUME NEW w \in Workers, LookupFails(w) PROVE RequestsCounted'
  BY <1>12 DEF Goto, LookupFails, Remote, RequestsCounted
<1>13. ASSUME NEW w \in Workers, MarkSubmitted(w) PROVE RequestsCounted'
  BY <1>13 DEF MarkSubmitted, RequestsCounted, Settle
<1>14. ASSUME NEW w \in Workers, BindBegin(w) PROVE RequestsCounted'
  BY <1>14 DEF BindBegin, Goto, RequestsCounted
<1>15. ASSUME NEW w \in Workers, Missed(w) PROVE RequestsCounted'
  BY <1>15 DEF Goto, Missed, RequestsCounted
<1>16. ASSUME NEW w \in Workers, Bound(w) PROVE RequestsCounted'
  BY <1>16 DEF Bound, RequestsCounted
<1>17. ASSUME NEW w \in Workers, MarkReconciling(w) PROVE RequestsCounted'
  BY <1>17 DEF MarkReconciling, RequestsCounted, Settle
<1>18. ASSUME NEW w \in Workers, Requeue(w) PROVE RequestsCounted'
  BY <1>18 DEF RequestsCounted, Requeue, Settle
<1>19. ASSUME NEW w \in Workers, Reject(w) PROVE RequestsCounted'
  BY <1>19 DEF Reject, RequestsCounted, Settle
<1>20. ASSUME NEW w \in Workers, Confiscate(w) PROVE RequestsCounted'
  BY <1>20 DEF Confiscate, RequestsCounted, Settle
<1>21. ASSUME NEW w \in Workers, Crash(w) PROVE RequestsCounted'
  BY <1>21 DEF Crash, RequestsCounted
<1>22. ASSUME Expire PROVE RequestsCounted'
  BY <1>22 DEF Expire, RequestsCounted
<1>23. ASSUME ProviderReceives PROVE RequestsCounted'
  BY <1>23 DEF ProviderReceives, RequestsCounted
<1>24. ASSUME ReconcileClaim PROVE RequestsCounted'
  BY <1>24 DEF ReconcileClaim, RequestsCounted
<1>25. ASSUME ReconcileRequeue PROVE RequestsCounted'
  BY <1>25 DEF ReconcileRequeue, RequestsCounted
<1>26. ASSUME CancelBegin PROVE RequestsCounted'
  BY <1>26 DEF CancelBegin, RequestsCounted
<1>27. ASSUME CancelCommit PROVE RequestsCounted'
  BY <1>27 DEF CancelCommit, RequestsCounted
<1>28. ASSUME UNCHANGED vars PROVE RequestsCounted'
  BY <1>28 DEF vars, In, RequestsCounted
<1>29. QED
  BY <1>0, <1>1, <1>2, <1>3, <1>4, <1>5, <1>6, <1>7, <1>8, <1>9, <1>10, <1>11, <1>12, <1>13,
     <1>14, <1>15, <1>16, <1>17, <1>18, <1>19, <1>20, <1>21, <1>22, <1>23, <1>24, <1>25, <1>26,
     <1>27, <1>28 DEF Next, WorkerStep

\* Every step keeps what a worker's place says.
LEMMA NextPhasesMeant ==
  ASSUME SubmissionAssumption, IInv, [Next]_vars PROVE PhasesMeant'
<1>0. \A w \in Workers : /\ PrepareCommit(w) => Refused(w) \/ Granted(w)
                         /\ BindCommit(w) => Missed(w) \/ Bound(w)
  BY Cases
<1> USE DEF IInv, TypeOK, In
<1>1. ASSUME NEW w \in Workers, Claim(w) PROVE PhasesMeant'
  BY <1>1 DEF Claim, Older, PhasesMeant
<1>2. ASSUME NEW w \in Workers, LoadForSubmit(w) PROVE PhasesMeant'
  BY <1>2 DEF LoadForSubmit, Loaded, Older, PhasesMeant, Remote
<1>3. ASSUME NEW w \in Workers, LoadForLookup(w) PROVE PhasesMeant'
  BY <1>3 DEF LoadForLookup, Loaded, Older, PhasesMeant, Remote
<1>4. ASSUME NEW w \in Workers, SubmitLocal(w) PROVE PhasesMeant'
  BY <1>4 DEF Goto, Older, PhasesMeant, Remote, SubmitLocal
<1>5. ASSUME NEW w \in Workers, SubmitB2B(w) PROVE PhasesMeant'
  BY <1>5
  DEF Creation, Event, Goto, Idle, Leave, Older, PhasesMeant, Remote, Reservation, SubmitB2B, Work
<1>6. ASSUME NEW w \in Workers, PrepareBegin(w) PROVE PhasesMeant'
  BY <1>6 DEF Begin, Goto, Older, PhasesMeant, PrepareBegin
<1>7. ASSUME NEW w \in Workers, Refused(w) PROVE PhasesMeant'
  BY <1>7 DEF Goto, Older, PhasesMeant, Refused
<1>8. ASSUME NEW w \in Workers, Granted(w) PROVE PhasesMeant'
  BY <1>8 DEF Goto, Granted, Older, PhasesMeant
<1>9. ASSUME NEW w \in Workers, Post(w) PROVE PhasesMeant'
  BY <1>9
  DEF Creation, Database, Event, Goto, LocalSendsFirst, Older, PermissionGrantedOnce, PhasesMeant,
      Post, Reservation, Step, Work
<1>10. ASSUME NEW w \in Workers, Answer(w) PROVE PhasesMeant'
  BY <1>10
  DEF AfterNoAnswer, Answer, Creation, Event, Goto, Older, PhasesMeant, Remote, Reservation, Work
<1>11. ASSUME NEW w \in Workers, LookupFinds(w) PROVE PhasesMeant'
  BY <1>11 DEF Goto, LookupFinds, Older, PhasesMeant, Remote
<1>12. ASSUME NEW w \in Workers, LookupFails(w) PROVE PhasesMeant'
  BY <1>12
  DEF Creation, Event, Goto, Idle, Leave, LookupFails, NothingFound, Older, PhasesMeant, Remote,
      Reservation, Work
<1>13. ASSUME NEW w \in Workers, MarkSubmitted(w) PROVE PhasesMeant'
  BY <1>13 DEF Idle, Leave, MarkSubmitted, Older, PhasesMeant, Settle
<1>14. ASSUME NEW w \in Workers, BindBegin(w) PROVE PhasesMeant'
  BY <1>14 DEF Begin, BindBegin, Goto, Older, PhasesMeant
<1>15. ASSUME NEW w \in Workers, Missed(w) PROVE PhasesMeant'
  BY <1>15 DEF Creation, Event, Goto, Idle, Leave, Missed, Older, PhasesMeant, Reservation, Work
<1>16. ASSUME NEW w \in Workers, Bound(w) PROVE PhasesMeant'
  BY <1>16 DEF Bound, Idle, Leave, Older, PhasesMeant
<1>17. ASSUME NEW w \in Workers, MarkReconciling(w) PROVE PhasesMeant'
  BY <1>17 DEF Idle, Leave, MarkReconciling, Older, PhasesMeant, Settle
<1>18. ASSUME NEW w \in Workers, Requeue(w) PROVE PhasesMeant'
  BY <1>18 DEF Idle, Leave, Older, PhasesMeant, Requeue, Settle
<1>19. ASSUME NEW w \in Workers, Reject(w) PROVE PhasesMeant'
  BY <1>19 DEF Closable, ClosedAs, Idle, Leave, Older, PhasesMeant, Reject, Settle
<1>20. ASSUME NEW w \in Workers, Confiscate(w) PROVE PhasesMeant'
  BY <1>20 DEF Closable, ClosedAs, Confiscate, Idle, Leave, Older, PhasesMeant, Settle
<1>21. ASSUME NEW w \in Workers, Crash(w) PROVE PhasesMeant'
  BY <1>21 DEF Crash, End, Idle, Leave, Older, PhasesMeant
<1>22. ASSUME Expire PROVE PhasesMeant'
  BY <1>22 DEF Expire, Older, PhasesMeant
<1>23. ASSUME ProviderReceives PROVE PhasesMeant'
  BY <1>23 DEF Older, PhasesMeant, ProviderReceives
<1>24. ASSUME ReconcileClaim PROVE PhasesMeant'
  BY <1>24 DEF Older, PhasesMeant, ReconcileClaim
<1>25. ASSUME ReconcileRequeue PROVE PhasesMeant'
  BY <1>25 DEF Older, PhasesMeant, ReconcileRequeue
<1>26. ASSUME CancelBegin PROVE PhasesMeant'
  BY <1>26 DEF Begin, CancelBegin, Older, PhasesMeant
<1>27. ASSUME CancelCommit PROVE PhasesMeant'
  BY <1>27 DEF CancelCommit, End, Older, PhasesMeant
<1>28. ASSUME UNCHANGED vars PROVE PhasesMeant'
  BY <1>28 DEF vars, In, Older, PhasesMeant
<1>29. QED
  BY <1>0, <1>1, <1>2, <1>3, <1>4, <1>5, <1>6, <1>7, <1>8, <1>9, <1>10, <1>11, <1>12, <1>13,
     <1>14, <1>15, <1>16, <1>17, <1>18, <1>19, <1>20, <1>21, <1>22, <1>23, <1>24, <1>25, <1>26,
     <1>27, <1>28 DEF Next, WorkerStep

\* No step makes a second worker ask a local provider.
LEMMA NextLocalSendsFirst ==
  ASSUME SubmissionAssumption, IInv, [Next]_vars PROVE LocalSendsFirst'
<1>0. \A w \in Workers : /\ PrepareCommit(w) => Refused(w) \/ Granted(w)
                         /\ BindCommit(w) => Missed(w) \/ Bound(w)
  BY Cases
<1> USE DEF IInv, TypeOK, In
<1>1. ASSUME NEW w \in Workers, Claim(w) PROVE LocalSendsFirst'
  <2> USE DEF Database, Step, Event, Work
  <2>1. /\ db'.step.provider = db.step.provider /\ db'.event.claims # 0
        /\ posts' = posts /\ outcome' = outcome
    BY <1>1 DEF Claim
  <2>2. /\ work'[w].phase = "claimed"
        /\ work'[w].again = (db.event.claims # 0)
        /\ \A v \in Workers \ {w} : work'[v] = work[v]
    BY <1>1 DEF Claim, Idle
  <2>3. CASE db.event.claims = 0
    BY <2>1, <2>2, <2>3 DEF LocalSendsFirst, First
  <2>4. CASE db.event.claims # 0
    <3>1. ~First(w)' /\ work'[w].phase = "claimed"
      BY <2>2, <2>4 DEF First
    <3>2. \A v \in Workers \ {w} : (First(v)' <=> First(v)) /\ work'[v] = work[v]
      BY <2>2 DEF First
    <3>3. QED
      BY <2>1, <2>4, <3>1, <3>2 DEF LocalSendsFirst
  <2>5. QED
    BY <2>3, <2>4
<1>2. ASSUME NEW w \in Workers, LoadForSubmit(w) PROVE LocalSendsFirst'
  BY <1>2 DEF First, LoadForSubmit, Loaded, LocalSendsFirst, MustLookUp, Remote
<1>3. ASSUME NEW w \in Workers, LoadForLookup(w) PROVE LocalSendsFirst'
  BY <1>3 DEF First, LoadForLookup, Loaded, LocalSendsFirst, Remote
<1>4. ASSUME NEW w \in Workers, SubmitLocal(w) PROVE LocalSendsFirst'
  BY <1>4 DEF First, Goto, LocalSendsFirst, Remote, SubmitLocal
<1>5. ASSUME NEW w \in Workers, SubmitB2B(w) PROVE LocalSendsFirst'
  BY <1>5 DEF Goto, LocalSendsFirst, Remote, SubmitB2B
<1>6. ASSUME NEW w \in Workers, PrepareBegin(w) PROVE LocalSendsFirst'
  BY <1>6 DEF First, Goto, LocalSendsFirst, PrepareBegin
<1>7. ASSUME NEW w \in Workers, Refused(w) PROVE LocalSendsFirst'
  BY <1>7 DEF First, Goto, LocalSendsFirst, Refused
<1>8. ASSUME NEW w \in Workers, Granted(w) PROVE LocalSendsFirst'
  BY <1>8 DEF Goto, Granted, LocalSendsFirst, PhasesMeant
<1>9. ASSUME NEW w \in Workers, Post(w) PROVE LocalSendsFirst'
  BY <1>9 DEF Creation, Event, First, Goto, LocalSendsFirst, Post, Reservation, Work
<1>10. ASSUME NEW w \in Workers, Answer(w) PROVE LocalSendsFirst'
  BY <1>10
  DEF AfterNoAnswer, Answer, Creation, Event, First, Goto, LocalSendsFirst, Remote, Reservation,
      Work
<1>11. ASSUME NEW w \in Workers, LookupFinds(w) PROVE LocalSendsFirst'
  BY <1>11 DEF First, Goto, LocalSendsFirst, LookupFinds, Remote
<1>12. ASSUME NEW w \in Workers, LookupFails(w) PROVE LocalSendsFirst'
  BY <1>12
  DEF Creation, Event, First, Goto, LocalSendsFirst, LookupFails, NothingFound, Remote,
      Reservation, Work
<1>13. ASSUME NEW w \in Workers, MarkSubmitted(w) PROVE LocalSendsFirst'
  BY <1>13 DEF First, Idle, Leave, LocalSendsFirst, MarkSubmitted, Settle, Unleased
<1>14. ASSUME NEW w \in Workers, BindBegin(w) PROVE LocalSendsFirst'
  BY <1>14 DEF BindBegin, Goto, LocalSendsFirst
<1>15. ASSUME NEW w \in Workers, Missed(w) PROVE LocalSendsFirst'
  BY <1>15 DEF Goto, LocalSendsFirst, Missed, PhasesMeant
<1>16. ASSUME NEW w \in Workers, Bound(w) PROVE LocalSendsFirst'
  BY <1>16 DEF Bound, First, Idle, Leave, LocalSendsFirst
<1>17. ASSUME NEW w \in Workers, MarkReconciling(w) PROVE LocalSendsFirst'
  BY <1>17 DEF First, Idle, Leave, LocalSendsFirst, MarkReconciling, Settle, Unleased
<1>18. ASSUME NEW w \in Workers, Requeue(w) PROVE LocalSendsFirst'
  BY <1>18 DEF First, Idle, Leave, LocalSendsFirst, Requeue, Settle, Unleased
<1>19. ASSUME NEW w \in Workers, Reject(w) PROVE LocalSendsFirst'
  BY <1>19 DEF ClosedAs, First, Idle, Leave, LocalSendsFirst, Reject, Settle, Unleased
<1>20. ASSUME NEW w \in Workers, Confiscate(w) PROVE LocalSendsFirst'
  BY <1>20 DEF ClosedAs, Confiscate, First, Idle, Leave, LocalSendsFirst, Settle, Unleased
<1>21. ASSUME NEW w \in Workers, Crash(w) PROVE LocalSendsFirst'
  BY <1>21 DEF Crash, First, Idle, Leave, LocalSendsFirst
<1>22. ASSUME Expire PROVE LocalSendsFirst'
  BY <1>22 DEF Expire, First, LocalSendsFirst
<1>23. ASSUME ProviderReceives PROVE LocalSendsFirst'
  BY <1>23 DEF First, LocalSendsFirst, ProviderReceives, RequestsCounted
<1>24. ASSUME ReconcileClaim PROVE LocalSendsFirst'
  BY <1>24 DEF First, LocalSendsFirst, ReconcileClaim
<1>25. ASSUME ReconcileRequeue PROVE LocalSendsFirst'
  BY <1>25 DEF First, LocalSendsFirst, ReconcileRequeue
<1>26. ASSUME CancelBegin PROVE LocalSendsFirst'
  BY <1>26 DEF CancelBegin, First, LocalSendsFirst
<1>27. ASSUME CancelCommit PROVE LocalSendsFirst'
  BY <1>27 DEF CancelCommit, First, LocalSendsFirst
<1>28. ASSUME UNCHANGED vars PROVE LocalSendsFirst'
  BY <1>28 DEF vars, First, In, LocalSendsFirst
<1>29. QED
  BY <1>0, <1>1, <1>2, <1>3, <1>4, <1>5, <1>6, <1>7, <1>8, <1>9, <1>10, <1>11, <1>12, <1>13,
     <1>14, <1>15, <1>16, <1>17, <1>18, <1>19, <1>20, <1>21, <1>22, <1>23, <1>24, <1>25, <1>26,
     <1>27, <1>28 DEF Next, WorkerStep

\* No step makes a second worker ask a B2B provider.
LEMMA NextPermissionGrantedOnce ==
  ASSUME SubmissionAssumption, IInv, [Next]_vars PROVE PermissionGrantedOnce'
<1>0. \A w \in Workers : /\ PrepareCommit(w) => Refused(w) \/ Granted(w)
                         /\ BindCommit(w) => Missed(w) \/ Bound(w)
  BY Cases
<1> USE DEF IInv, TypeOK, In
<1>1. ASSUME NEW w \in Workers, Claim(w) PROVE PermissionGrantedOnce'
  BY <1>1 DEF Claim, NobodySends, Owns, PermissionGrantedOnce
<1>2. ASSUME NEW w \in Workers, LoadForSubmit(w) PROVE PermissionGrantedOnce'
  BY <1>2 DEF LoadForSubmit, Loaded, NobodySends, PermissionGrantedOnce, Remote
<1>3. ASSUME NEW w \in Workers, LoadForLookup(w) PROVE PermissionGrantedOnce'
  BY <1>3 DEF LoadForLookup, Loaded, NobodySends, PermissionGrantedOnce, Remote
<1>4. ASSUME NEW w \in Workers, SubmitLocal(w) PROVE PermissionGrantedOnce'
  BY <1>4 DEF Goto, PermissionGrantedOnce, Remote, SubmitLocal
<1>5. ASSUME NEW w \in Workers, SubmitB2B(w) PROVE PermissionGrantedOnce'
  BY <1>5
  DEF Creation, Event, Goto, Idle, Leave, NobodySends, PermissionGrantedOnce, Remote, Reservation,
      SubmitB2B, Work
<1>6. ASSUME NEW w \in Workers, PrepareBegin(w) PROVE PermissionGrantedOnce'
  BY <1>6 DEF Goto, NobodySends, PermissionGrantedOnce, PrepareBegin
<1>7. ASSUME NEW w \in Workers, Refused(w) PROVE PermissionGrantedOnce'
  BY <1>7 DEF Goto, NobodySends, PermissionGrantedOnce, Refused
<1>8. ASSUME NEW w \in Workers, Granted(w) PROVE PermissionGrantedOnce'
  BY <1>8 DEF AwaitsPermission, Goto, Granted, NobodySends, Owns, PermissionGrantedOnce, PhasesMeant
<1>9. ASSUME NEW w \in Workers, Post(w) PROVE PermissionGrantedOnce'
  BY <1>9 DEF Creation, Event, Goto, NobodySends, PermissionGrantedOnce, Post, Reservation, Work
<1>10. ASSUME NEW w \in Workers, Answer(w) PROVE PermissionGrantedOnce'
  BY <1>10
  DEF AfterNoAnswer, Answer, Creation, Event, Goto, NobodySends, PermissionGrantedOnce, Remote,
      Reservation, Work
<1>11. ASSUME NEW w \in Workers, LookupFinds(w) PROVE PermissionGrantedOnce'
  BY <1>11 DEF Goto, LookupFinds, NobodySends, PermissionGrantedOnce, Remote
<1>12. ASSUME NEW w \in Workers, LookupFails(w) PROVE PermissionGrantedOnce'
  BY <1>12
  DEF Creation, Event, Goto, Idle, Leave, LookupFails, NobodySends, NothingFound,
      PermissionGrantedOnce, Remote, Reservation, StoryAgrees, Work
<1>13. ASSUME NEW w \in Workers, MarkSubmitted(w) PROVE PermissionGrantedOnce'
  BY <1>13 DEF MarkSubmitted, PermissionGrantedOnce, Settle
<1>14. ASSUME NEW w \in Workers, BindBegin(w) PROVE PermissionGrantedOnce'
  BY <1>14 DEF BindBegin, Goto, NobodySends, PermissionGrantedOnce
<1>15. ASSUME NEW w \in Workers, Missed(w) PROVE PermissionGrantedOnce'
  BY <1>15
  DEF Creation, Event, Goto, Idle, Leave, Missed, NobodySends, PermissionGrantedOnce, Reservation,
      Work
<1>16. ASSUME NEW w \in Workers, Bound(w) PROVE PermissionGrantedOnce'
  BY <1>16 DEF Bound, Idle, Leave, NobodySends, Owns, PermissionGrantedOnce
<1>17. ASSUME NEW w \in Workers, MarkReconciling(w) PROVE PermissionGrantedOnce'
  BY <1>17
  DEF Idle, Leave, MarkReconciling, NobodySends, Owns, PermissionGrantedOnce, Settle, Unleased
<1>18. ASSUME NEW w \in Workers, Requeue(w) PROVE PermissionGrantedOnce'
  BY <1>18 DEF Idle, Leave, NobodySends, Owns, PermissionGrantedOnce, Requeue, Settle, Unleased
<1>19. ASSUME NEW w \in Workers, Reject(w) PROVE PermissionGrantedOnce'
  BY <1>19
  DEF ClosedAs, Idle, Leave, NobodySends, Owns, PermissionGrantedOnce, Reject, Settle, Unleased
<1>20. ASSUME NEW w \in Workers, Confiscate(w) PROVE PermissionGrantedOnce'
  BY <1>20
  DEF ClosedAs, Confiscate, Idle, Leave, NobodySends, Owns, PermissionGrantedOnce, Settle,
      Unleased
<1>21. ASSUME NEW w \in Workers, Crash(w) PROVE PermissionGrantedOnce'
  BY <1>21 DEF Crash, Idle, Leave, NobodySends, PermissionGrantedOnce
<1>22. ASSUME Expire PROVE PermissionGrantedOnce'
  BY <1>22 DEF Expire, NobodySends, PermissionGrantedOnce
<1>23. ASSUME ProviderReceives PROVE PermissionGrantedOnce'
  BY <1>23 DEF NobodySends, PermissionGrantedOnce, ProviderReceives, RequestsCounted
<1>24. ASSUME ReconcileClaim PROVE PermissionGrantedOnce'
  BY <1>24 DEF NobodySends, Owns, PermissionGrantedOnce, ReconcileClaim
<1>25. ASSUME ReconcileRequeue PROVE PermissionGrantedOnce'
  BY <1>25 DEF NobodySends, Owns, PermissionGrantedOnce, ReconcileRequeue
<1>26. ASSUME CancelBegin PROVE PermissionGrantedOnce'
  BY <1>26 DEF CancelBegin, NobodySends, PermissionGrantedOnce
<1>27. ASSUME CancelCommit PROVE PermissionGrantedOnce'
  BY <1>27 DEF CancelCommit, NobodySends, Owns, PermissionGrantedOnce
<1>28. ASSUME UNCHANGED vars PROVE PermissionGrantedOnce'
  BY <1>28 DEF vars, In, NobodySends, PermissionGrantedOnce
<1>29. QED
  BY <1>0, <1>1, <1>2, <1>3, <1>4, <1>5, <1>6, <1>7, <1>8, <1>9, <1>10, <1>11, <1>12, <1>13,
     <1>14, <1>15, <1>16, <1>17, <1>18, <1>19, <1>20, <1>21, <1>22, <1>23, <1>24, <1>25, <1>26,
     <1>27, <1>28 DEF Next, WorkerStep

\* No step settles the reservation under a first worker that may still ask.
LEMMA NextNoFirstAfterSettlement ==
  ASSUME SubmissionAssumption, IInv, [Next]_vars PROVE NoFirstAfterSettlement'
<1>0. \A w \in Workers : /\ PrepareCommit(w) => Refused(w) \/ Granted(w)
                         /\ BindCommit(w) => Missed(w) \/ Bound(w)
  BY Cases
<1> USE DEF IInv, TypeOK, In
<1>1. ASSUME NEW w \in Workers, Claim(w) PROVE NoFirstAfterSettlement'
  BY <1>1 DEF Claim, NoFirstAfterSettlement, Open, StoryAgrees
<1>2. ASSUME NEW w \in Workers, LoadForSubmit(w) PROVE NoFirstAfterSettlement'
  BY <1>2 DEF First, LoadForSubmit, Loaded, LocalSendsFirst, NoFirstAfterSettlement, Remote
<1>3. ASSUME NEW w \in Workers, LoadForLookup(w) PROVE NoFirstAfterSettlement'
  BY <1>3 DEF First, LoadForLookup, Loaded, LocalSendsFirst, NoFirstAfterSettlement, Remote
<1>4. ASSUME NEW w \in Workers, SubmitLocal(w) PROVE NoFirstAfterSettlement'
  BY <1>4 DEF Goto, LocalSendsFirst, NoFirstAfterSettlement, Remote, SubmitLocal
<1>5. ASSUME NEW w \in Workers, SubmitB2B(w) PROVE NoFirstAfterSettlement'
  BY <1>5 DEF Goto, NoFirstAfterSettlement, Remote, SubmitB2B
<1>6. ASSUME NEW w \in Workers, PrepareBegin(w) PROVE NoFirstAfterSettlement'
  BY <1>6 DEF First, Goto, LocalSendsFirst, NoFirstAfterSettlement, PrepareBegin
<1>7. ASSUME NEW w \in Workers, Refused(w) PROVE NoFirstAfterSettlement'
  BY <1>7 DEF First, Goto, LocalSendsFirst, NoFirstAfterSettlement, Refused
<1>8. ASSUME NEW w \in Workers, Granted(w) PROVE NoFirstAfterSettlement'
  BY <1>8 DEF Goto, Granted, NoFirstAfterSettlement, Settleable
<1>9. ASSUME NEW w \in Workers, Post(w) PROVE NoFirstAfterSettlement'
  BY <1>9 DEF Goto, NoFirstAfterSettlement, Post, SettledWithoutJob
<1>10. ASSUME NEW w \in Workers, Answer(w) PROVE NoFirstAfterSettlement'
  BY <1>10
  DEF AfterNoAnswer, Answer, Creation, Event, First, Goto, LocalSendsFirst,
      NoFirstAfterSettlement, Remote, Reservation, Work
<1>11. ASSUME NEW w \in Workers, LookupFinds(w) PROVE NoFirstAfterSettlement'
  BY <1>11 DEF Goto, LookupFinds, NoFirstAfterSettlement, Remote, SettledWithoutJob
<1>12. ASSUME NEW w \in Workers, LookupFails(w) PROVE NoFirstAfterSettlement'
  BY <1>12
  DEF Creation, Event, First, Goto, LocalSendsFirst, LookupFails, NoFirstAfterSettlement,
      NothingFound, Remote, Reservation, Work
<1>13. ASSUME NEW w \in Workers, MarkSubmitted(w) PROVE NoFirstAfterSettlement'
  BY <1>13 DEF First, Idle, Leave, LocalSendsFirst, MarkSubmitted, NoFirstAfterSettlement, Settle
<1>14. ASSUME NEW w \in Workers, BindBegin(w) PROVE NoFirstAfterSettlement'
  BY <1>14 DEF BindBegin, Goto, NoFirstAfterSettlement
<1>15. ASSUME NEW w \in Workers, Missed(w) PROVE NoFirstAfterSettlement'
  BY <1>15
  DEF Creation, Event, First, Goto, Idle, Leave, LocalSendsFirst, Missed, NoFirstAfterSettlement,
      Reservation, Work
<1>16. ASSUME NEW w \in Workers, Bound(w) PROVE NoFirstAfterSettlement'
  BY <1>16 DEF Bound, Claimed, NoFirstAfterSettlement, Owns, StoryAgrees
<1>17. ASSUME NEW w \in Workers, MarkReconciling(w) PROVE NoFirstAfterSettlement'
  BY <1>17 DEF First, Idle, Leave, LocalSendsFirst, MarkReconciling, NoFirstAfterSettlement, Settle
<1>18. ASSUME NEW w \in Workers, Requeue(w) PROVE NoFirstAfterSettlement'
  BY <1>18 DEF First, Idle, Leave, LocalSendsFirst, NoFirstAfterSettlement, Requeue, Settle
<1>19. ASSUME NEW w \in Workers, Reject(w) PROVE NoFirstAfterSettlement'
  BY <1>19
  DEF ClosedAs, First, Idle, Leave, LocalSendsFirst, NoFirstAfterSettlement, Reject,
      RequestsCounted, Settle
<1>20. ASSUME NEW w \in Workers, Confiscate(w) PROVE NoFirstAfterSettlement'
  BY <1>20
  DEF ClosedAs, Confiscate, First, Idle, Leave, LocalSendsFirst, NoFirstAfterSettlement, Settle
<1>21. ASSUME NEW w \in Workers, Crash(w) PROVE NoFirstAfterSettlement'
  BY <1>21 DEF Crash, First, Idle, Leave, LocalSendsFirst, NoFirstAfterSettlement
<1>22. ASSUME Expire PROVE NoFirstAfterSettlement'
  BY <1>22 DEF Expire, First, LocalSendsFirst, NoFirstAfterSettlement
<1>23. ASSUME ProviderReceives PROVE NoFirstAfterSettlement'
  BY <1>23 DEF NoFirstAfterSettlement, ProviderReceives, SettledWithoutJob
<1>24. ASSUME ReconcileClaim PROVE NoFirstAfterSettlement'
  BY <1>24 DEF First, LocalSendsFirst, NoFirstAfterSettlement, ReconcileClaim
<1>25. ASSUME ReconcileRequeue PROVE NoFirstAfterSettlement'
  BY <1>25 DEF First, LocalSendsFirst, NoFirstAfterSettlement, ReconcileRequeue
<1>26. ASSUME CancelBegin PROVE NoFirstAfterSettlement'
  BY <1>26 DEF CancelBegin, First, LocalSendsFirst, NoFirstAfterSettlement
<1>27. ASSUME CancelCommit PROVE NoFirstAfterSettlement'
  BY <1>27 DEF CancelCommit, First, LocalSendsFirst, NoFirstAfterSettlement
<1>28. ASSUME UNCHANGED vars PROVE NoFirstAfterSettlement'
  BY <1>28 DEF vars, First, In, NoFirstAfterSettlement
<1>29. QED
  BY <1>0, <1>1, <1>2, <1>3, <1>4, <1>5, <1>6, <1>7, <1>8, <1>9, <1>10, <1>11, <1>12, <1>13,
     <1>14, <1>15, <1>16, <1>17, <1>18, <1>19, <1>20, <1>21, <1>22, <1>23, <1>24, <1>25, <1>26,
     <1>27, <1>28 DEF Next, WorkerStep

\* No step settles a reservation whose job may run, nor starts a job for one.
LEMMA NextSettledWithoutJob ==
  ASSUME SubmissionAssumption, IInv, [Next]_vars PROVE SettledWithoutJob'
<1>0. \A w \in Workers : /\ PrepareCommit(w) => Refused(w) \/ Granted(w)
                         /\ BindCommit(w) => Missed(w) \/ Bound(w)
  BY Cases
<1> USE DEF IInv, TypeOK, In
<1>1. ASSUME NEW w \in Workers, Claim(w) PROVE SettledWithoutJob'
  BY <1>1 DEF Claim, SettledWithoutJob
<1>2. ASSUME NEW w \in Workers, LoadForSubmit(w) PROVE SettledWithoutJob'
  BY <1>2 DEF LoadForSubmit, Loaded, Remote, SettledWithoutJob
<1>3. ASSUME NEW w \in Workers, LoadForLookup(w) PROVE SettledWithoutJob'
  BY <1>3 DEF LoadForLookup, Loaded, Remote, SettledWithoutJob
<1>4. ASSUME NEW w \in Workers, SubmitLocal(w) PROVE SettledWithoutJob'
  BY <1>4 DEF Goto, LocalSendsFirst, NoFirstAfterSettlement, Remote, SettledWithoutJob, SubmitLocal
<1>5. ASSUME NEW w \in Workers, SubmitB2B(w) PROVE SettledWithoutJob'
  BY <1>5
  DEF Creation, Event, Goto, Idle, Leave, Remote, Reservation, SettledWithoutJob, SubmitB2B, Work
<1>6. ASSUME NEW w \in Workers, PrepareBegin(w) PROVE SettledWithoutJob'
  BY <1>6 DEF Goto, PrepareBegin, SettledWithoutJob
<1>7. ASSUME NEW w \in Workers, Refused(w) PROVE SettledWithoutJob'
  BY <1>7 DEF Goto, Refused, SettledWithoutJob
<1>8. ASSUME NEW w \in Workers, Granted(w) PROVE SettledWithoutJob'
  BY <1>8 DEF Goto, Granted, Settleable, SettledWithoutJob
<1>9. ASSUME NEW w \in Workers, Post(w) PROVE SettledWithoutJob'
  BY <1>9 DEF Goto, Post, SettledWithoutJob
<1>10. ASSUME NEW w \in Workers, Answer(w) PROVE SettledWithoutJob'
  BY <1>10
  DEF AfterNoAnswer, Answer, Creation, Event, Goto, Remote, Reservation, SettledWithoutJob, Work
<1>11. ASSUME NEW w \in Workers, LookupFinds(w) PROVE SettledWithoutJob'
  BY <1>11 DEF Goto, LookupFinds, Remote, SettledWithoutJob
<1>12. ASSUME NEW w \in Workers, LookupFails(w) PROVE SettledWithoutJob'
  BY <1>12
  DEF Creation, Event, Goto, Idle, Leave, LookupFails, NothingFound, Remote, Reservation,
      SettledWithoutJob, Work
<1>13. ASSUME NEW w \in Workers, MarkSubmitted(w) PROVE SettledWithoutJob'
  BY <1>13 DEF Idle, Leave, MarkSubmitted, Settle, SettledWithoutJob
<1>14. ASSUME NEW w \in Workers, BindBegin(w) PROVE SettledWithoutJob'
  BY <1>14 DEF BindBegin, Goto, SettledWithoutJob
<1>15. ASSUME NEW w \in Workers, Missed(w) PROVE SettledWithoutJob'
  BY <1>15 DEF Goto, Missed, PhasesMeant, SettledWithoutJob
<1>16. ASSUME NEW w \in Workers, Bound(w) PROVE SettledWithoutJob'
  BY <1>16 DEF Bound, Idle, Leave, SettledWithoutJob
<1>17. ASSUME NEW w \in Workers, MarkReconciling(w) PROVE SettledWithoutJob'
  BY <1>17 DEF Idle, Leave, MarkReconciling, Settle, SettledWithoutJob
<1>18. ASSUME NEW w \in Workers, Requeue(w) PROVE SettledWithoutJob'
  BY <1>18 DEF Idle, Leave, Requeue, Settle, SettledWithoutJob
<1>19. ASSUME NEW w \in Workers, Reject(w) PROVE SettledWithoutJob'
  BY <1>19
  DEF Closable, ClosedAs, Database, Idle, Leave, LocalSendsFirst, NobodySends,
      PermissionGrantedOnce, Reject, RequestsCounted, Settle, SettledWithoutJob, Step
<1>20. ASSUME NEW w \in Workers, Confiscate(w) PROVE SettledWithoutJob'
  BY <1>20
  DEF Confiscate, Idle, Leave, LocalSendsFirst, PhasesMeant, RequestsCounted, Settle,
      SettledWithoutJob
<1>21. ASSUME NEW w \in Workers, Crash(w) PROVE SettledWithoutJob'
  BY <1>21 DEF Crash, Idle, Leave, SettledWithoutJob
<1>22. ASSUME Expire PROVE SettledWithoutJob'
  BY <1>22 DEF Expire, SettledWithoutJob
<1>23. ASSUME ProviderReceives PROVE SettledWithoutJob'
  BY <1>23 DEF ProviderReceives, SettledWithoutJob
<1>24. ASSUME ReconcileClaim PROVE SettledWithoutJob'
  BY <1>24 DEF ReconcileClaim, SettledWithoutJob
<1>25. ASSUME ReconcileRequeue PROVE SettledWithoutJob'
  BY <1>25 DEF ReconcileRequeue, SettledWithoutJob
<1>26. ASSUME CancelBegin PROVE SettledWithoutJob'
  BY <1>26 DEF CancelBegin, SettledWithoutJob
<1>27. ASSUME CancelCommit PROVE SettledWithoutJob'
  BY <1>27 DEF CancelCommit, SettledWithoutJob
<1>28. ASSUME UNCHANGED vars PROVE SettledWithoutJob'
  BY <1>28 DEF vars, In, SettledWithoutJob
<1>29. QED
  BY <1>0, <1>1, <1>2, <1>3, <1>4, <1>5, <1>6, <1>7, <1>8, <1>9, <1>10, <1>11, <1>12, <1>13,
     <1>14, <1>15, <1>16, <1>17, <1>18, <1>19, <1>20, <1>21, <1>22, <1>23, <1>24, <1>25, <1>26,
     <1>27, <1>28 DEF Next, WorkerStep

\* Every step keeps creation, reservation, step and cancellation consistent.
LEMMA NextStoryAgrees ==
  ASSUME SubmissionAssumption, IInv, [Next]_vars PROVE StoryAgrees'
<1>0. \A w \in Workers : /\ PrepareCommit(w) => Refused(w) \/ Granted(w)
                         /\ BindCommit(w) => Missed(w) \/ Bound(w)
  BY Cases
<1> USE DEF IInv, TypeOK, In
<1>1. ASSUME NEW w \in Workers, Claim(w) PROVE StoryAgrees'
  BY <1>1 DEF Claim, ClaimedStatus, Open, StoryAgrees
<1>2. ASSUME NEW w \in Workers, LoadForSubmit(w) PROVE StoryAgrees'
  BY <1>2 DEF LoadForSubmit, Loaded, Remote, StoryAgrees
<1>3. ASSUME NEW w \in Workers, LoadForLookup(w) PROVE StoryAgrees'
  BY <1>3 DEF LoadForLookup, Loaded, Remote, StoryAgrees
<1>4. ASSUME NEW w \in Workers, SubmitLocal(w) PROVE StoryAgrees'
  BY <1>4 DEF Goto, Remote, StoryAgrees, SubmitLocal
<1>5. ASSUME NEW w \in Workers, SubmitB2B(w) PROVE StoryAgrees'
  BY <1>5 DEF Goto, Remote, StoryAgrees, SubmitB2B
<1>6. ASSUME NEW w \in Workers, PrepareBegin(w) PROVE StoryAgrees'
  BY <1>6 DEF Goto, PrepareBegin, StoryAgrees
<1>7. ASSUME NEW w \in Workers, Refused(w) PROVE StoryAgrees'
  BY <1>7 DEF Goto, Refused, StoryAgrees
<1>8. ASSUME NEW w \in Workers, Granted(w) PROVE StoryAgrees'
  BY <1>8 DEF Goto, Granted, StoryAgrees
<1>9. ASSUME NEW w \in Workers, Post(w) PROVE StoryAgrees'
  BY <1>9 DEF Goto, Post, StoryAgrees
<1>10. ASSUME NEW w \in Workers, Answer(w) PROVE StoryAgrees'
  BY <1>10 DEF Answer, Goto, Remote, StoryAgrees
<1>11. ASSUME NEW w \in Workers, LookupFinds(w) PROVE StoryAgrees'
  BY <1>11 DEF Goto, LookupFinds, Remote, StoryAgrees
<1>12. ASSUME NEW w \in Workers, LookupFails(w) PROVE StoryAgrees'
  BY <1>12 DEF Goto, LookupFails, Remote, StoryAgrees
<1>13. ASSUME NEW w \in Workers, MarkSubmitted(w) PROVE StoryAgrees'
  BY <1>13 DEF Claimed, MarkSubmitted, Owns, PhasesMeant, Settle, StoryAgrees, Unleased
<1>14. ASSUME NEW w \in Workers, BindBegin(w) PROVE StoryAgrees'
  BY <1>14 DEF BindBegin, Goto, StoryAgrees
<1>15. ASSUME NEW w \in Workers, Missed(w) PROVE StoryAgrees'
  BY <1>15 DEF Goto, Missed, StoryAgrees
<1>16. ASSUME NEW w \in Workers, Bound(w) PROVE StoryAgrees'
  BY <1>16 DEF Bound, Claimed, Owns, PhasesMeant, StoryAgrees
<1>17. ASSUME NEW w \in Workers, MarkReconciling(w) PROVE StoryAgrees'
  BY <1>17 DEF Claimed, MarkReconciling, Owns, Settle, StoryAgrees, Unleased
<1>18. ASSUME NEW w \in Workers, Requeue(w) PROVE StoryAgrees'
  BY <1>18 DEF Claimed, Owns, Requeue, Settle, StoryAgrees, Unleased
<1>19. ASSUME NEW w \in Workers, Reject(w) PROVE StoryAgrees'
  BY <1>19 DEF Claimed, Closable, ClosedAs, Owns, Reject, Settle, StoryAgrees, Unleased
<1>20. ASSUME NEW w \in Workers, Confiscate(w) PROVE StoryAgrees'
  BY <1>20 DEF Claimed, Closable, ClosedAs, Confiscate, Owns, Settle, StoryAgrees, Unleased
<1>21. ASSUME NEW w \in Workers, Crash(w) PROVE StoryAgrees'
  BY <1>21 DEF Crash, StoryAgrees
<1>22. ASSUME Expire PROVE StoryAgrees'
  BY <1>22 DEF Expire, StoryAgrees
<1>23. ASSUME ProviderReceives PROVE StoryAgrees'
  BY <1>23 DEF ProviderReceives, StoryAgrees
<1>24. ASSUME ReconcileClaim PROVE StoryAgrees'
  BY <1>24 DEF ReconcileClaim, StoryAgrees
<1>25. ASSUME ReconcileRequeue PROVE StoryAgrees'
  BY <1>25 DEF ReconcileRequeue, StoryAgrees
<1>26. ASSUME CancelBegin PROVE StoryAgrees'
  BY <1>26 DEF CancelBegin, StoryAgrees
<1>27. ASSUME CancelCommit PROVE StoryAgrees'
  BY <1>27
  DEF CancelCommit, Cancellable, Creation, Database, Event, NoWriteConflict, Older,
      PermissionGrantedOnce, PhasesMeant, Reservation, StoryAgrees, Work
<1>28. ASSUME UNCHANGED vars PROVE StoryAgrees'
  BY <1>28 DEF vars, In, StoryAgrees
<1>29. QED
  BY <1>0, <1>1, <1>2, <1>3, <1>4, <1>5, <1>6, <1>7, <1>8, <1>9, <1>10, <1>11, <1>12, <1>13,
     <1>14, <1>15, <1>16, <1>17, <1>18, <1>19, <1>20, <1>21, <1>22, <1>23, <1>24, <1>25, <1>26,
     <1>27, <1>28 DEF Next, WorkerStep

\* Every step keeps the types.
LEMMA NextTypeOK ==
  ASSUME SubmissionAssumption, IInv, [Next]_vars PROVE TypeOK'
<1>0. \A w \in Workers : /\ PrepareCommit(w) => Refused(w) \/ Granted(w)
                         /\ BindCommit(w) => Missed(w) \/ Bound(w)
  BY Cases
<1> USE DEF IInv, TypeOK
<1>1. ASSUME NEW w \in Workers, Claim(w) PROVE TypeOK'
  <2>1. db.event.claims \in 0 .. 2 /\ db \in Database
    BY DEF Database, Event
  <2> DEFINE claims == IF db.event.claims = 0 THEN 1 ELSE 2
             status == ClaimedStatus(db.event.status)
  <2>2. claims \in 0 .. 2 /\ status \in Claimed
    BY DEF ClaimedStatus, Claimed
  <2>3. db' \in Database
    BY <1>1, <2>1, <2>2, Writes DEF Claim
  <2>4. \A again \in BOOLEAN, s \in Claimed :
          [Idle EXCEPT !.phase = "claimed", !.status = s, !.again = again] \in Work
    BY DEF Idle, Work, Phases, Creation
  <2>5. work' \in [Workers -> Work]
    <3>1. work' = [work EXCEPT ![w] = [Idle EXCEPT !.phase = "claimed", !.status = status,
                                                   !.again = claims > 1]]
      BY <1>1 DEF Claim
    <3>2. (claims > 1) \in BOOLEAN
      OBVIOUS
    <3> HIDE DEF claims, status
    <3>3. QED
      BY <2>2, <2>4, <3>1, <3>2
  <2>6. leased' \in BOOLEAN /\ UNCHANGED <<snap, inflight, outcome, posts>>
    BY <1>1 DEF Claim
  <2>7. QED
    BY <2>3, <2>5, <2>6
<1>2. ASSUME NEW w \in Workers, LoadForSubmit(w) PROVE TypeOK'
  BY <1>2, LoadedType DEF LoadForSubmit, Remote, Loaded
<1>3. ASSUME NEW w \in Workers, LoadForLookup(w) PROVE TypeOK'
  BY <1>3, LoadedType DEF LoadForLookup, Remote, Loaded
<1>4. ASSUME NEW w \in Workers, SubmitLocal(w) PROVE TypeOK'
  BY <1>4, Moves, Writes DEF In, Phases, Remote, SubmitLocal
<1>5. ASSUME NEW w \in Workers, SubmitB2B(w) PROVE TypeOK'
  BY <1>5, Moves, Writes DEF In, Phases, Remote, SubmitB2B
<1>6. ASSUME NEW w \in Workers, PrepareBegin(w) PROVE TypeOK'
  BY <1>6, Moves, Writes DEF Begin, In, Phases, PrepareBegin
<1>7. ASSUME NEW w \in Workers, Refused(w) PROVE TypeOK'
  BY <1>7, Moves, Writes, SMTT(20) DEF SubmissionAssumption, In, Phases, Refused
<1>8. ASSUME NEW w \in Workers, Granted(w) PROVE TypeOK'
  BY <1>8, Moves, Writes DEF Granted, In, Phases
<1>9. ASSUME NEW w \in Workers, Post(w) PROVE TypeOK'
  BY <1>9, Moves, Writes, SMTT(20) DEF SubmissionAssumption, In, Phases, Post
<1>10. ASSUME NEW w \in Workers, Answer(w) PROVE TypeOK'
  BY <1>10, Moves, Writes DEF AfterNoAnswer, Answer, In, Phases, Remote
<1>11. ASSUME NEW w \in Workers, LookupFinds(w) PROVE TypeOK'
  BY <1>11, Moves, Writes DEF In, LookupFinds, Phases, Remote
<1>12. ASSUME NEW w \in Workers, LookupFails(w) PROVE TypeOK'
  BY <1>12, Moves, Writes DEF In, LookupFails, NothingFound, Phases, Remote
<1>13. ASSUME NEW w \in Workers, MarkSubmitted(w) PROVE TypeOK'
  BY <1>13, Moves, Writes DEF In, MarkSubmitted, Phases, Settle
<1>14. ASSUME NEW w \in Workers, BindBegin(w) PROVE TypeOK'
  BY <1>14, Moves, Writes DEF Begin, BindBegin, In, Phases
<1>15. ASSUME NEW w \in Workers, Missed(w) PROVE TypeOK'
  BY <1>15, Moves, Writes, SMTT(20) DEF SubmissionAssumption, In, Missed, Phases
<1>16. ASSUME NEW w \in Workers, Bound(w) PROVE TypeOK'
  <2>1. work' \in [Workers -> Work]
    BY <1>16, Moves DEF Bound
  <2>2. snap' \in [Workers \cup {User} -> Database \cup {NoOne}]
    BY <1>16 DEF Bound
  <2>3. db' \in Database /\ leased' \in BOOLEAN /\ UNCHANGED <<inflight, outcome, posts>>
    BY <1>16 DEF Bound
  <2>4. QED
    BY <2>1, <2>2, <2>3
<1>17. ASSUME NEW w \in Workers, MarkReconciling(w) PROVE TypeOK'
  BY <1>17, Moves, Writes DEF In, MarkReconciling, Phases, Settle
<1>18. ASSUME NEW w \in Workers, Requeue(w) PROVE TypeOK'
  BY <1>18, Moves, Writes DEF In, Phases, Requeue, Settle
<1>19. ASSUME NEW w \in Workers, Reject(w) PROVE TypeOK'
  BY <1>19, Moves, Writes DEF In, Phases, Reject, Settle
<1>20. ASSUME NEW w \in Workers, Confiscate(w) PROVE TypeOK'
  BY <1>20, Moves, Writes DEF Confiscate, In, Phases, Settle
<1>21. ASSUME NEW w \in Workers, Crash(w) PROVE TypeOK'
  BY <1>21, Moves, Writes DEF Crash, End, In, Phases
<1>22. ASSUME Expire PROVE TypeOK'
  BY <1>22, Zenon DEF Expire
<1>23. ASSUME ProviderReceives PROVE TypeOK'
  BY <1>23 DEF In, Outcomes, Phases, ProviderReceives
<1>24. ASSUME ReconcileClaim PROVE TypeOK'
  BY <1>24, Moves, Writes DEF ClaimedStatus, In, Open, Phases, ReconcileClaim
<1>25. ASSUME ReconcileRequeue PROVE TypeOK'
  BY <1>25, Moves, Writes DEF Claimed, In, Open, Phases, ReconcileRequeue
<1>26. ASSUME CancelBegin PROVE TypeOK'
  BY <1>26, Moves, Writes DEF Begin, CancelBegin, In, Phases
<1>27. ASSUME CancelCommit PROVE TypeOK'
  <2>1. db' \in Database
    <3>1. PICK cancel : cancel = IF snap[User].step.bound THEN "pending" ELSE db.cancel
      OBVIOUS
    <3>2. cancel \in {"absent", "pending"}
      BY <3>1 DEF TypeOK, Database
    <3>3. db' = db \/ db' = [db EXCEPT !.creation = "cancelling", !.cancel = cancel]
      BY <1>27, <3>1 DEF CancelCommit
    <3>4. [db EXCEPT !.creation = "cancelling", !.cancel = cancel] \in Database
      BY <3>2, Writes DEF TypeOK
    <3> QED
      BY <3>3, <3>4 DEF TypeOK
  <2>2. QED
    BY <1>27, <2>1, Zenon DEF CancelCommit, End
<1>28. CASE UNCHANGED vars
  BY <1>28 DEF vars
<1>29. QED
  BY <1>0, <1>28, <1>1, <1>2, <1>3, <1>4, <1>5, <1>6, <1>7, <1>8, <1>9, <1>10, <1>11, <1>12,
     <1>13, <1>14, <1>15, <1>16, <1>17, <1>18, <1>19, <1>20, <1>21, <1>22, <1>23, <1>24, <1>25,
     <1>26, <1>27 DEF Next, WorkerStep

\* The invariant holds of a creation whose event was just written.
LEMMA InitInvariant == ASSUME SubmissionAssumption, Init PROVE IInv
<1> USE DEF Init, In
<1>1. Idle \in Work
  BY DEF Idle, Work, Phases, Claimed, Creation
<1>2. db \in Database
  BY DEF SubmissionAssumption, Database, Creation, Step, Reservation, Event, Open
<1>3. TypeOK
  BY <1>1, <1>2 DEF TypeOK, Outcomes
<1>4. \A w \in Workers : work[w].phase = "idle"
  BY DEF Idle
<1>5. RequestsCounted /\ SettledWithoutJob /\ StoryAgrees
  BY DEF RequestsCounted, SettledWithoutJob, StoryAgrees
<1>6. PhasesMeant /\ LocalSendsFirst /\ PermissionGrantedOnce /\ NoFirstAfterSettlement
  BY <1>4 DEF PhasesMeant, LocalSendsFirst, First, PermissionGrantedOnce, NobodySends,
              NoFirstAfterSettlement, SubmissionAssumption
<1>7. QED
  BY <1>3, <1>5, <1>6 DEF IInv

\* The invariant holds of every behaviour, for any set of workers.
THEOREM InvariantHolds == Spec => []IInv
<1> USE SubmissionAssumption
<1>1. Init => IInv
  BY InitInvariant
<1>2. IInv /\ [Next]_vars => IInv'
  <2> SUFFICES ASSUME IInv, [Next]_vars PROVE IInv'
    OBVIOUS
  <2>1. TypeOK' /\ RequestsCounted' /\ PhasesMeant'
    BY NextTypeOK, NextRequestsCounted, NextPhasesMeant
  <2>2. LocalSendsFirst' /\ PermissionGrantedOnce' /\ NoFirstAfterSettlement'
    BY NextLocalSendsFirst, NextPermissionGrantedOnce, NextNoFirstAfterSettlement
  <2>3. SettledWithoutJob' /\ StoryAgrees'
    BY NextSettledWithoutJob, NextStoryAgrees
  <2>4. QED
    BY <2>1, <2>2, <2>3 DEF IInv
<1>3. QED
  BY <1>1, <1>2, PTL DEF Spec

\* Every variable keeps its type, for any set of workers.
THEOREM TypesHold == Spec => []TypeOK
<1>1. IInv => TypeOK
  BY DEF IInv
<1>2. QED
  BY <1>1, InvariantHolds, PTL

\* The request leaves at most once.
THEOREM PostedAtMostOnce == Spec => []AtMostOnePost
<1>1. IInv => AtMostOnePost
  BY DEF IInv, RequestsCounted, AtMostOnePost
<1>2. QED
  BY <1>1, InvariantHolds, PTL

\* Diamonds are given back or forfeited only for a creation no provider works on.
THEOREM SettledOnlyWithoutJob == Spec => []SettledWithoutJob
<1>1. IInv => SettledWithoutJob
  BY DEF IInv
<1>2. QED
  BY <1>1, InvariantHolds, PTL

\* What the owner sees, the reservation and the submission step never contradict.
THEOREM StoriesAgree == Spec => []StoryAgrees
<1>1. IInv => StoryAgrees
  BY DEF IInv
<1>2. QED
  BY <1>1, InvariantHolds, PTL
----------------------------------------------------------------------------
(* What a step may do.                                                     *)

\* A step leaves the creation and the reservation as they are, or marks the
\* creation cancelling, or closes both together.
Stays == db'.creation = db.creation /\ db'.reservation.status = db.reservation.status

\* The owner's cancellation was accepted.
StartsCancelling ==
    /\ db.creation = "pending_submission" /\ db'.creation = "cancelling"
    /\ db'.reservation.status = db.reservation.status

\* Creation and reservation were closed together.
Closes(status, reservationStatus) ==
    /\ db.creation = "pending_submission" /\ db'.creation = status
    /\ db.reservation.status = "reserved" /\ db'.reservation.status = reservationStatus

\* Nothing else happens to creation and reservation.
LEMMA NextClosing ==
  ASSUME SubmissionAssumption, IInv, [Next]_vars
  PROVE  \/ Stays \/ StartsCancelling
         \/ Closes("submission_failed", "reversed") \/ Closes("confiscated", "confiscated")
<1> DEFINE Goal == \/ Stays \/ StartsCancelling
                   \/ Closes("submission_failed", "reversed")
                   \/ Closes("confiscated", "confiscated")
<1>0. \A w \in Workers : /\ PrepareCommit(w) => Refused(w) \/ Granted(w)
                         /\ BindCommit(w) => Missed(w) \/ Bound(w)
  BY Cases
<1> USE DEF IInv, TypeOK, Database, Stays
<1>1. ASSUME NEW w \in Workers, Reject(w) PROVE Goal
  BY <1>1 DEF Reject, Settle, Closable, Settleable, ClosedAs, Closes
<1>2. ASSUME NEW w \in Workers, Confiscate(w) PROVE Goal
  BY <1>2 DEF Confiscate, Settle, Closable, Settleable, ClosedAs, Closes
<1>3. ASSUME CancelCommit PROVE Goal
  <2>1. CASE UNCHANGED db
    BY <2>1
  <2>2. CASE Cancellable(snap[User]) /\ db.creation = snap[User].creation /\ db' # db
    BY <1>3, <2>2 DEF CancelCommit, Cancellable, StartsCancelling
  <2>3. QED
    BY <1>3, <2>1, <2>2 DEF CancelCommit, NoWriteConflict
<1>4. ASSUME NEW w \in Workers, Granted(w) \/ Bound(w) PROVE Goal
  BY <1>4 DEF Granted, Bound
<1>5. ASSUME NEW w \in Workers,
             \/ Claim(w) \/ MarkSubmitted(w) \/ MarkReconciling(w) \/ Requeue(w)
      PROVE  Goal
  BY <1>5 DEF Claim, MarkSubmitted, MarkReconciling, Requeue, Settle
<1>6. ASSUME NEW w \in Workers,
             \/ LoadForSubmit(w) \/ LoadForLookup(w) \/ SubmitLocal(w) \/ SubmitB2B(w)
             \/ PrepareBegin(w) \/ Refused(w) \/ Post(w) \/ Answer(w)
             \/ LookupFinds(w) \/ LookupFails(w) \/ BindBegin(w) \/ Missed(w) \/ Crash(w)
      PROVE  Goal
  BY <1>6 DEF LoadForSubmit, LoadForLookup, Loaded, SubmitLocal, SubmitB2B, PrepareBegin,
              Refused, Post, Answer, LookupFinds, LookupFails, BindBegin, Missed, Crash, Remote
<1>7. ASSUME \/ Expire \/ ProviderReceives \/ CancelBegin
             \/ ReconcileClaim \/ ReconcileRequeue \/ UNCHANGED vars
      PROVE  Goal
  BY <1>7 DEF Expire, ProviderReceives, CancelBegin, ReconcileClaim, ReconcileRequeue, vars
<1>8. QED
  BY <1>0, <1>1, <1>2, <1>3, <1>4, <1>5, <1>6, <1>7 DEF Next, WorkerStep

\* Only the commit that grants the permission sets the intent.
LEMMA NextPermission ==
  ASSUME SubmissionAssumption, IInv, [Next]_vars, db'.step.intent, ~db.step.intent
  PROVE  \E w \in Workers : Granted(w)
<1>0. \A w \in Workers : /\ PrepareCommit(w) => Refused(w) \/ Granted(w)
                         /\ BindCommit(w) => Missed(w) \/ Bound(w)
  BY Cases
<1> USE DEF IInv, TypeOK, Database, Step
<1>1. ASSUME NEW w \in Workers,
             \/ Claim(w) \/ MarkSubmitted(w) \/ MarkReconciling(w) \/ Requeue(w)
             \/ Reject(w) \/ Confiscate(w)
      PROVE  FALSE
  <2>1. CASE Claim(w) \/ Requeue(w)
    BY <2>1 DEF Claim, Requeue, Settle
  <2>2. CASE MarkSubmitted(w)
    BY <2>2 DEF MarkSubmitted, Settle
  <2>3. CASE Reject(w)
    BY <2>3 DEF Reject, Settle, ClosedAs
  <2>4. CASE Confiscate(w)
    BY <2>4 DEF Confiscate, Settle, ClosedAs
  <2>5. CASE MarkReconciling(w)
    BY <2>5 DEF MarkReconciling, Settle
  <2>6. QED
    BY <1>1, <2>1, <2>2, <2>3, <2>4, <2>5
<1>2. ASSUME NEW w \in Workers, Bound(w) PROVE FALSE
  BY <1>2 DEF Bound
<1>3. ASSUME NEW w \in Workers,
             \/ LoadForSubmit(w) \/ LoadForLookup(w) \/ SubmitLocal(w) \/ SubmitB2B(w)
             \/ PrepareBegin(w) \/ Refused(w) \/ Post(w) \/ Answer(w)
             \/ LookupFinds(w) \/ LookupFails(w) \/ BindBegin(w) \/ Missed(w) \/ Crash(w)
      PROVE  FALSE
  BY <1>3 DEF LoadForSubmit, LoadForLookup, Loaded, SubmitLocal, SubmitB2B, PrepareBegin,
              Refused, Post, Answer, LookupFinds, LookupFails, BindBegin, Missed, Crash, Remote
<1>4. ASSUME \/ Expire \/ ProviderReceives \/ CancelBegin \/ CancelCommit
             \/ ReconcileClaim \/ ReconcileRequeue \/ UNCHANGED vars
      PROVE  FALSE
  BY <1>4 DEF Expire, ProviderReceives, CancelBegin, CancelCommit, ReconcileClaim,
              ReconcileRequeue, vars
<1>5. QED
  BY <1>0, <1>1, <1>2, <1>3, <1>4 DEF Next, WorkerStep

\* A creation that is cancelling, or closed, obtains no first permission: the
\* snapshot that saw it pending is too old to commit.
THEOREM NoLatePermission == Spec => NoPermissionOnceCancelling
<1> USE SubmissionAssumption
<1>1. IInv /\ [Next]_vars =>
        [db.creation # "pending_submission" => (db'.step.intent => db.step.intent)]_vars
  <2> SUFFICES ASSUME IInv, [Next]_vars, db.creation # "pending_submission",
                      db'.step.intent, ~db.step.intent
               PROVE  FALSE
    OBVIOUS
  <2>1. PICK w \in Workers : Granted(w)
    BY NextPermission
  <2>2. db.creation # "cancelling"
    BY DEF IInv, StoryAgrees
  <2>3. db.reservation.status = "reserved"
    BY <2>1 DEF Granted, Settleable
  <2>4. db.creation \in Creation
    BY DEF IInv, TypeOK, Database
  <2>5. QED
    BY <2>2, <2>3, <2>4 DEF IInv, StoryAgrees, Creation
<1>2. QED
  BY <1>1, InvariantHolds, PTL DEF Spec, NoPermissionOnceCancelling

\* Up to the binding, the diamonds and the status the owner sees implement the
\* charge of a creation.
THEOREM ChargeImplemented == Spec => ImplementsCharge
<1> USE SubmissionAssumption
<1> DEFINE money == CASE db.reservation.status = "reserved" -> "held"
                      [] db.reservation.status = "reversed" -> "returned"
                      [] db.reservation.status = "confiscated" -> "forfeited"
           story == CASE db.creation \in {"pending_submission", "cancelling"} -> "open"
                      [] db.creation = "submission_failed" -> "failed"
                      [] db.creation = "confiscated" -> "confiscated"
<1>1. Init => Bargain!Init
  BY DEF Init, Bargain!Init
<1>2. IInv /\ [Next]_vars => [Bargain!Next]_<<money, story>>
  <2> SUFFICES ASSUME IInv, [Next]_vars PROVE [Bargain!Next]_<<money, story>>
    OBVIOUS
  <2>1. CASE Stays
    BY <2>1 DEF Stays
  <2>2. CASE StartsCancelling
    BY <2>2 DEF StartsCancelling
  <2>3. CASE Closes("submission_failed", "reversed")
    BY <2>3 DEF Closes, Bargain!Next, Bargain!Refund, Bargain!Decide
  <2>4. CASE Closes("confiscated", "confiscated")
    BY <2>4 DEF Closes, Bargain!Next, Bargain!Forfeit, Bargain!Decide
  <2>5. QED
    BY <2>1, <2>2, <2>3, <2>4, NextClosing
<1>3. QED
  BY <1>1, <1>2, InvariantHolds, PTL DEF Spec, ImplementsCharge, Bargain!Spec
=============================================================================
