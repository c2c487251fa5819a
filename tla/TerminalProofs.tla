--------------------------- MODULE TerminalProofs ---------------------------
(***************************************************************************)
(* Proofs about Terminal, for any sets of workers, deliveries and results, *)
(* any terminal statuses of failure and any bounds.                        *)
(***************************************************************************)
EXTENDS Terminal, TLAPS

\* The values the actions write are of their type.
LEMMA Values ==
    ASSUME TerminalAssumption
    PROVE  /\ Nothing \in Facts \cup {Nothing}
           /\ \A fact \in Facts : HandOff(fact) \in Kinds
           /\ NewEvent \in Event /\ NoEvent \in Event
           /\ NoOne \in Workers \cup {NoOne}
           /\ Idle \in [phase : Phases, event : Kinds \X Stages]
           /\ \A s \in Stages : <<"reconcile", s>> \in Kinds \X Stages
           /\ \A s \in Stages, fact \in Facts : <<HandOff(fact), s>> \in Kinds \X Stages
           /\ \A phase \in {"deliver", "retry", "requeue", "abandon", "attention"}, young \in BOOLEAN :
                Ending(phase, young) \in {"delivered", "failed", "pending", "needs_attention"}
<1>1. /\ \A fact \in Facts : HandOff(fact) \in Kinds
      /\ \A s \in Stages : <<"reconcile", s>> \in Kinds \X Stages
      /\ \A s \in Stages, fact \in Facts : <<HandOff(fact), s>> \in Kinds \X Stages
  BY DEF HandOff, Kinds
<1>2. 0 \in 0 .. MaxRedrives
  BY DEF TerminalAssumption
<1>3. NewEvent \in Event /\ NoEvent \in Event
  BY <1>2 DEF NewEvent, NoEvent, Event
<1>4. Idle \in [phase : Phases, event : Kinds \X Stages]
  BY DEF Idle, Phases, Kinds, Stages
<1>5. \A phase \in {"deliver", "retry", "requeue", "abandon", "attention"}, young \in BOOLEAN :
        Ending(phase, young) \in {"delivered", "failed", "pending", "needs_attention"}
  BY DEF Ending
<1>6. QED
  BY <1>1, <1>3, <1>4, <1>5

\* One event changes its status and its holder.
LEMMA EventWrite ==
    ASSUME NEW ev \in Event, NEW holder \in Workers \cup {NoOne},
           NEW status \in {"absent", "pending", "claimed", "delivered", "failed",
                           "needs_attention"}
    PROVE  /\ [ev EXCEPT !.status = status, !.holder = holder] \in Event
           /\ [ev EXCEPT !.holder = holder, !.status = status] \in Event
           /\ [ev EXCEPT !.young = FALSE] \in Event
  BY DEF Event

\* One step changes the status of its submission, or that and its mark.
LEMMA StepWrite ==
    ASSUME NEW step \in Step, NEW flag \in BOOLEAN,
           NEW submit \in {"absent", "blocked", "ready", "submitting", "submitted",
                           "succeeded", "generation_failed", "submission_failed"}
    PROVE  /\ [step EXCEPT !.submit = submit] \in Step
           /\ [step EXCEPT !.uploadPending = flag] \in Step
           /\ [step EXCEPT !.submit = submit, !.uploadPending = flag] \in Step
           /\ [step EXCEPT !.submit = submit, !.job = "prepared"] \in Step
           /\ [step EXCEPT !.submit = submit, !.job = "bound"] \in Step
  BY DEF Step

\* The transaction on the slot keeps the steps and the events well-formed.
LEMMA ApplyTerminalType ==
    ASSUME TerminalAssumption, TypeOK,
           NEW s \in Stages, NEW fact \in Facts, ApplyTerminal(s, fact)
    PROVE  /\ steps' \in [Stages -> Step]
           /\ events' \in [Kinds \X Stages -> Event]
<1>1. steps' \in [Stages -> Step]
  <2> DEFINE terminal == IF Verdict(steps[s], fact) = "applied" THEN fact ELSE steps[s].terminal
             quarantined == steps[s].quarantined \/ Verdict(steps[s], fact) = "quarantined"
  <2>1. steps[s] \in Step /\ terminal \in Facts \cup {Nothing} /\ quarantined \in BOOLEAN
    BY DEF TypeOK, Step
  <2>2. steps' = [steps EXCEPT ![s] = [steps[s] EXCEPT !.terminal = terminal,
                                                      !.quarantined = quarantined]]
    BY DEF ApplyTerminal, TypeOK
  <2> HIDE DEF terminal, quarantined
  <2>3. [steps[s] EXCEPT !.terminal = terminal, !.quarantined = quarantined] \in Step
    BY <2>1 DEF Step
  <2>4. QED
    BY <2>2, <2>3 DEF TypeOK
<1>2. events' \in [Kinds \X Stages -> Event]
  <2> DEFINE handed == [events EXCEPT ![<<HandOff(fact), s>>] = NewEvent]
  <2>1. handed \in [Kinds \X Stages -> Event]
    BY Values DEF TypeOK
  <2>2. [handed EXCEPT ![<<"reconcile", s>>].status = "delivered",
                       ![<<"reconcile", s>>].holder = NoOne] \in [Kinds \X Stages -> Event]
    <3>1. [handed[<<"reconcile", s>>] EXCEPT !.status = "delivered", !.holder = NoOne] \in Event
      BY <2>1, Values, EventWrite
    <3>2. QED
      BY <2>1, <3>1
  <2>3. QED
    BY <2>2 DEF ApplyTerminal, TypeOK
<1>3. QED
  BY <1>1, <1>2

\* A worker that works is on a claimed event.
LEMMA Working ==
    ASSUME TypeOK, NEW w \in Workers
    PROVE  /\ EventOf(w) \in Kinds \X Stages
           /\ StageOf(w) \in Stages
           /\ events[EventOf(w)] \in Event
           /\ steps[StageOf(w)] \in Step
           /\ work[w] \in [phase : Phases, event : Kinds \X Stages]
  BY DEF TypeOK, EventOf, StageOf

\* Marking a worker's event delivered keeps the events well-formed.
LEMMA DeliveredType ==
    ASSUME TypeOK, NEW w \in Workers
    PROVE  Delivered(w) \in [Kinds \X Stages -> Event]
<1> DEFINE e == EventOf(w)
<1>1. e \in Kinds \X Stages /\ events \in [Kinds \X Stages -> Event]
  BY Working DEF TypeOK
<1>2. [events[e] EXCEPT !.status = "delivered", !.holder = NoOne] \in Event
  BY <1>1, EventWrite
<1>3. Delivered(w) = [events EXCEPT ![e] =
                        [events[e] EXCEPT !.status = "delivered", !.holder = NoOne]]
  BY DEF Delivered
<1>4. QED
  BY <1>1, <1>2, <1>3

\* A worker that moves on keeps a place.
LEMMA GotoType ==
    ASSUME TypeOK, NEW w \in Workers, NEW phase \in Phases, Goto(w, phase)
    PROVE  work' \in [Workers -> [phase : Phases, event : Kinds \X Stages]]
  BY DEF TypeOK, Goto

\* A worker that lets go of its event keeps a place.
LEMMA LeaveType ==
    ASSUME TerminalAssumption, TypeOK, NEW w \in Workers, Leave(w)
    PROVE  work' \in [Workers -> [phase : Phases, event : Kinds \X Stages]]
  BY Values DEF TypeOK, Leave

----------------------------------------------------------------------------
\* The initial states are well-formed.
LEMMA InitType ==
    ASSUME TerminalAssumption, Init
    PROVE  TypeOK
<1>0. PICK second \in {"absent", "blocked"} :
        /\ steps = <<NewStep("submitted", "bound"), NewStep(second, "none")>>
        /\ recipe = IF second = "absent" THEN "none" ELSE "pending"
  BY DEF Init
<1>1. steps \in [Stages -> Step]
  <2>1. NewStep("submitted", "bound") \in Step /\ NewStep(second, "none") \in Step
    BY DEF Step, NewStep
  <2>2. Stages = 1 .. 2
    BY DEF Stages
  <2>3. QED
    BY <1>0, <2>1, <2>2
<1>2. events \in [Kinds \X Stages -> Event]
  BY Values DEF Init
<1>3. inbox \in [Deliveries -> Delivery \cup {NoDelivery}]
  BY DEF Init
<1>4. work \in [Workers -> [phase : Phases, event : Kinds \X Stages]]
  BY Values DEF Init
<1>5. /\ recipe \in {"none", "pending"}
      /\ crashes \in 0 .. MaxCrashes
      /\ reservation \in [status : {"reserved", "reversed"},
                          gate : {"open", "published", "reversed"}]
  BY <1>0 DEF Init, TerminalAssumption
<1>6. QED
  BY <1>1, <1>2, <1>3, <1>4, <1>5 DEF Init, TypeOK

\* A step of a worker keeps every type.
LEMMA WorkerStepType ==
    ASSUME TerminalAssumption, TypeOK, NEW w \in Workers, WorkerStep(w)
    PROVE  TypeOK'
<1> USE TerminalAssumption
<1>0. {"lookup", "requeue", "copy", "abandon", "retry", "settle", "deliver", "publish",
       "flag", "attention"} \subseteq Phases
  BY DEF Phases
<1>1. CASE LoadReconcile(w)
  <2>1. \E phase \in Phases : Goto(w, phase)
    BY <1>0, <1>1 DEF LoadReconcile
  <2>2. QED
    BY <1>1, <2>1, GotoType DEF LoadReconcile, Local, Documents, TypeOK
<1>2. CASE LoadMaterialize(w)
  <2>1. \E phase \in Phases : Goto(w, phase)
    BY <1>0, <1>2 DEF LoadMaterialize
  <2>2. QED
    BY <1>2, <2>1, GotoType DEF LoadMaterialize, Local, Documents, TypeOK
<1>3. CASE LoadSettle(w)
  <2>1. \E phase \in Phases : Goto(w, phase)
    BY <1>0, <1>3 DEF LoadSettle
  <2>2. QED
    BY <1>3, <2>1, GotoType DEF LoadSettle, Local, Documents, TypeOK
<1>4. CASE LookUpAnswered(w)
  <2>1. PICK fact \in Facts :
            /\ ApplyTerminal(StageOf(w), fact)
            /\ Goto(w, IF Verdict(steps[StageOf(w)], fact) = "quarantined"
                       THEN "abandon" ELSE "deliver")
    BY <1>4 DEF LookUpAnswered
  <2>2. \E phase \in Phases : Goto(w, phase)
    BY <1>0, <2>1
  <2>3. QED
    BY <1>4, <2>1, <2>2, GotoType, ApplyTerminalType, Working DEF LookUpAnswered, TypeOK
<1>5. CASE LookUpInconclusive(w)
  <2>1. \E phase \in Phases : Goto(w, phase)
    BY <1>0, <1>5 DEF LookUpInconclusive
  <2>2. QED
    BY <1>5, <2>1, GotoType DEF LookUpInconclusive, Local, Documents, TypeOK
<1>6. CASE Copy(w)
  <2>1. (\E phase \in Phases : Goto(w, phase)) \/ Leave(w)
    BY <1>0, <1>6 DEF Copy
  <2>2. work' \in [Workers -> [phase : Phases, event : Kinds \X Stages]]
    BY <2>1, GotoType, LeaveType
  <2>3. QED
    BY <1>6, <2>2 DEF Copy, Local, Documents, TypeOK
<1>7. CASE CopyFails(w)
  <2>1. \E phase \in Phases : Goto(w, phase)
    BY <1>0, <1>7 DEF CopyFails
  <2>2. QED
    BY <1>7, <2>1, GotoType DEF CopyFails, Local, Documents, TypeOK
<1>8. CASE FlagUploadPending(w)
  <2>1. \E phase \in Phases : Goto(w, phase)
    BY <1>0, <1>8 DEF FlagUploadPending
  <2>2. steps' \in [Stages -> Step]
    <3> DEFINE s == StageOf(w)
               flag == steps[s].uploadPending \/ Flaggable(steps[s])
    <3>1. steps[s] \in Step /\ flag \in BOOLEAN
      BY Working DEF Step, Flaggable
    <3>2. steps' = [steps EXCEPT ![s] = [steps[s] EXCEPT !.uploadPending = flag]]
      BY <1>8 DEF FlagUploadPending, TypeOK
    <3> HIDE DEF flag
    <3>3. [steps[s] EXCEPT !.uploadPending = flag] \in Step
      BY <3>1, StepWrite
    <3>4. QED
      BY <3>2, <3>3 DEF TypeOK
  <2>3. QED
    BY <1>8, <2>1, <2>2, GotoType DEF FlagUploadPending, TypeOK
<1>9. CASE FlagFails(w)
  <2>1. Goto(w, "requeue") /\ "requeue" \in Phases
    BY <1>0, <1>9 DEF FlagFails
  <2>2. QED
    BY <1>9, <2>1, GotoType DEF FlagFails, Local, Documents, TypeOK
<1>10. CASE Publish(w)
  <2>1. events' \in [Kinds \X Stages -> Event]
    BY <1>10, DeliveredType DEF Publish
  <2>2. work' \in [Workers -> [phase : Phases, event : Kinds \X Stages]]
    BY <1>10, LeaveType DEF Publish
  <2>3. CASE PublishFinal(StageOf(w))
    <3>1. steps' \in [Stages -> Step]
      <4>1. steps[StageOf(w)] \in Step
        BY Working
      <4>2. [steps[StageOf(w)] EXCEPT !.submit = "succeeded", !.uploadPending = FALSE] \in Step
        BY <4>1, StepWrite
      <4>3. steps' = [steps EXCEPT ![StageOf(w)] =
                [steps[StageOf(w)] EXCEPT !.submit = "succeeded", !.uploadPending = FALSE]]
        BY <2>3 DEF PublishFinal, TypeOK
      <4>4. QED
        BY <4>2, <4>3 DEF TypeOK
    <3>2. /\ reservation' \in [status : {"reserved", "reversed"},
                               gate : {"open", "published", "reversed"}]
          /\ assets' \subseteq ({"intermediate_result", "result"} \X Stages)
      BY <2>3, Working DEF PublishFinal, TypeOK
    <3>3. QED
      BY <1>10, <2>1, <2>2, <2>3, <3>1, <3>2 DEF Publish, PublishFinal, TypeOK
  <2>4. CASE ActivateSecondStep(StageOf(w))
    <3>1. steps' \in [Stages -> Step]
      BY <2>4 DEF ActivateSecondStep, TypeOK, Step, Stages
    <3>2. assets' \subseteq ({"intermediate_result", "result"} \X Stages)
      BY <2>4, Working DEF ActivateSecondStep, TypeOK
    <3>3. QED
      BY <1>10, <2>1, <2>2, <2>4, <3>1, <3>2 DEF Publish, ActivateSecondStep, TypeOK
  <2>5. QED
    BY <1>10, <2>3, <2>4 DEF Publish
<1>11. CASE PublishFails(w)
  <2>1. \E phase \in Phases : Goto(w, phase)
    BY <1>0, <1>11 DEF PublishFails
  <2>2. QED
    BY <1>11, <2>1, GotoType DEF PublishFails, Local, Documents, TypeOK
<1>12. CASE SettleFailure(w)
  <2>1. events' \in [Kinds \X Stages -> Event]
    BY <1>12, DeliveredType DEF SettleFailure
  <2>2. work' \in [Workers -> [phase : Phases, event : Kinds \X Stages]]
    BY <1>12, LeaveType DEF SettleFailure
  <2>3. steps' \in [Stages -> Step]
    <3>1. \A s \in Stages : [steps[s] EXCEPT !.submit = "generation_failed"] \in Step
      BY StepWrite DEF TypeOK
    <3>2. QED
      BY <1>12, <3>1 DEF SettleFailure, SettledSteps, TypeOK
  <2>4. recipe' \in {"none", "pending", "consumed", "abandoned"}
    BY <1>12 DEF SettleFailure, SettledSteps, TypeOK
  <2>5. QED
    BY <1>12, <2>1, <2>2, <2>3, <2>4 DEF SettleFailure, TypeOK
<1>13. CASE SettleFails(w)
  <2>1. \E phase \in Phases : Goto(w, phase)
    BY <1>0, <1>13 DEF SettleFails
  <2>2. QED
    BY <1>13, <2>1, GotoType DEF SettleFails, Local, Documents, TypeOK
<1>14. CASE Conclude(w)
  <2>1. events' \in [Kinds \X Stages -> Event]
    <3>1. Ending(work[w].phase, events[EventOf(w)].young)
            \in {"absent", "pending", "claimed", "delivered", "failed", "needs_attention"}
      BY <1>14, Working, Values DEF Conclude, Event
    <3>2. QED
      <4> DEFINE e == EventOf(w)
                 status == Ending(work[w].phase, events[e].young)
      <4>1. /\ e \in Kinds \X Stages /\ events \in [Kinds \X Stages -> Event]
            /\ status \in {"absent", "pending", "claimed", "delivered", "failed",
                           "needs_attention"}
        BY <3>1, Working DEF TypeOK
      <4>2. events' = events \/ events' = [events EXCEPT ![e].holder = NoOne, ![e].status = status]
        BY <1>14 DEF Conclude
      <4> HIDE DEF e, status
      <4>3. [events[e] EXCEPT !.holder = NoOne, !.status = status] \in Event
        BY <4>1, EventWrite
      <4>4. QED
        BY <4>1, <4>2, <4>3
  <2>2. QED
    BY <1>14, <2>1, LeaveType DEF Conclude, Documents, TypeOK
<1>15. QED
  BY <1>1, <1>2, <1>3, <1>4, <1>5, <1>6, <1>7, <1>8, <1>9, <1>10, <1>11, <1>12, <1>13, <1>14
     DEF WorkerStep

\* Every step keeps every type.
LEMMA NextType ==
    ASSUME TerminalAssumption, TypeOK, [Next]_vars
    PROVE  TypeOK'
<1> USE TerminalAssumption
<1>0. 2 \in Stages
  BY DEF Stages
<1>1. ASSUME NEW w \in Workers, Crash(w)
      PROVE  TypeOK'
  BY <1>1, LeaveType DEF Crash, Documents, TypeOK
<1>2. ASSUME NEW w \in Workers, NEW e \in Kinds \X Stages, Claim(w, e)
      PROVE  TypeOK'
  <2>1. events' \in [Kinds \X Stages -> Event]
    <3>1. [events[e] EXCEPT !.status = "claimed", !.holder = w] \in Event
      BY EventWrite DEF TypeOK
    <3>2. QED
      BY <1>2, <3>1 DEF Claim, TypeOK
  <2>2. "claimed" \in Phases
    BY DEF Phases
  <2>3. work' \in [Workers -> [phase : Phases, event : Kinds \X Stages]]
    BY <1>2, <2>2 DEF Claim, TypeOK
  <2>4. QED
    BY <1>2, <2>1, <2>3 DEF Claim, Documents, TypeOK
<1>3. ASSUME NEW e \in Kinds \X Stages, Age(e)
      PROVE  TypeOK'
  <2>1. [events[e] EXCEPT !.young = FALSE] \in Event
    BY EventWrite DEF TypeOK
  <2>2. QED
    BY <1>3, <2>1 DEF Age, Documents, TypeOK
<1>4. ASSUME NEW e \in Kinds \X Stages, Redrive(e)
      PROVE  TypeOK'
  <2>1. [events[e] EXCEPT !.status = "pending", !.young = TRUE, !.redrives = @ + 1] \in Event
    BY <1>4 DEF Redrive, TypeOK, Event, TerminalAssumption
  <2>2. events' = [events EXCEPT ![e] =
            [events[e] EXCEPT !.status = "pending", !.young = TRUE, !.redrives = @ + 1]]
    BY <1>4 DEF Redrive
  <2>3. QED
    BY <1>4, <2>1, <2>2 DEF Redrive, Documents, TypeOK
<1>5. ASSUME NEW d \in Deliveries, NEW s \in Stages, NEW fact \in Facts, Receive(d, s, fact)
      PROVE  TypeOK'
  <2>1. inbox' \in [Deliveries -> Delivery \cup {NoDelivery}]
    <3>1. /\ [status |-> "pending", stage |-> s, fact |-> fact, event |-> "open"] \in Delivery
          /\ \A delivery \in Delivery, status \in {"pending", "applied", "quarantined"} :
                [delivery EXCEPT !.status = status] \in Delivery
      BY DEF Delivery
    <3>2. CASE inbox[d] = NoDelivery
      BY <1>5, <3>1, <3>2 DEF Receive, TypeOK
    <3>3. CASE inbox[d] # NoDelivery
      <4>1. inbox[d] \in Delivery
        BY <3>3 DEF TypeOK
      <4>2. [inbox[d] EXCEPT !.status = "quarantined"] \in Delivery
        BY <3>1, <4>1
      <4>3. QED
        BY <1>5, <3>3, <4>2 DEF Receive, TypeOK
    <3>4. QED
      BY <3>2, <3>3
  <2>2. events' \in [Kinds \X Stages -> Event]
    BY <1>5, <2>1, Values DEF Receive, TypeOK
  <2>3. QED
    BY <1>5, <2>1, <2>2 DEF Receive, TypeOK
<1>6. ASSUME NEW d \in Deliveries, Consume(d)
      PROVE  TypeOK'
  <2>1. inbox[d].stage \in Stages /\ inbox[d].fact \in Facts
    <3>1. inbox[d] \in Delivery
      BY <1>6 DEF Consume, TypeOK, NoDelivery
    <3>2. QED
      BY <3>1 DEF Delivery
  <2>2. inbox' \in [Deliveries -> Delivery \cup {NoDelivery}]
    <3>1. \A delivery \in Delivery, status \in {"pending", "applied", "quarantined"} :
            [delivery EXCEPT !.status = status] \in Delivery
      BY DEF Delivery
    <3>2. inbox[d] \in Delivery /\ inbox[d].status = "pending"
      BY <1>6 DEF Consume, TypeOK, NoDelivery
    <3>3. QED
      BY <1>6, <3>1, <3>2 DEF Consume, TypeOK
  <2>3. QED
    BY <1>6, <2>1, <2>2, ApplyTerminalType DEF Consume, TypeOK
<1>7. ASSUME NEW d \in Deliveries, CloseDelivery(d)
      PROVE  TypeOK'
  <2>1. inbox' \in [Deliveries -> Delivery \cup {NoDelivery}]
    <3>1. \A delivery \in Delivery, event \in {"delivered", "failed"} :
            [delivery EXCEPT !.event = event] \in Delivery
      BY DEF Delivery
    <3>2. inbox[d] \in Delivery
      BY <1>7 DEF CloseDelivery, TypeOK, NoDelivery
    <3>3. PICK event \in {"delivered", "failed"} :
            inbox' = [inbox EXCEPT ![d] = [inbox[d] EXCEPT !.event = event]]
      BY <1>7 DEF CloseDelivery
    <3>4. [inbox[d] EXCEPT !.event = event] \in Delivery
      BY <3>1, <3>2
    <3>5. QED
      BY <3>3, <3>4 DEF TypeOK
  <2>2. QED
    BY <1>7, <2>1 DEF CloseDelivery, TypeOK
<1>8. CASE PrepareSecond
  <2>1. steps' \in [Stages -> Step]
    <3>1. [steps[2] EXCEPT !.submit = "submitting", !.job = "prepared"] \in Step
      BY <1>0, StepWrite DEF TypeOK
    <3>2. steps' = [steps EXCEPT ![2] =
                        [steps[2] EXCEPT !.submit = "submitting", !.job = "prepared"]]
      BY <1>8 DEF PrepareSecond
    <3>3. QED
      BY <3>1, <3>2 DEF TypeOK
  <2>2. QED
    BY <1>8, <2>1, Values DEF PrepareSecond, TypeOK
<1>9. CASE BindSecond
  <2>1. steps' \in [Stages -> Step]
    <3>1. [steps[2] EXCEPT !.submit = "submitted", !.job = "bound"] \in Step
      BY <1>0, StepWrite DEF TypeOK
    <3>2. steps' = [steps EXCEPT ![2] =
                        [steps[2] EXCEPT !.submit = "submitted", !.job = "bound"]]
      BY <1>9 DEF BindSecond
    <3>3. QED
      BY <3>1, <3>2 DEF TypeOK
  <2>2. QED
    BY <1>9, <2>1 DEF BindSecond, TypeOK
<1>10. CASE RejectSecond
  <2>1. steps' \in [Stages -> Step]
    <3>1. [steps[2] EXCEPT !.submit = "submission_failed"] \in Step
      BY <1>0, StepWrite DEF TypeOK
    <3>2. QED
      BY <1>10, <3>1 DEF RejectSecond, TypeOK
  <2>2. QED
    BY <1>10, <2>1 DEF RejectSecond, TypeOK
<1>11. CASE CancelBegin \/ CancelCommit
  BY <1>11 DEF CancelBegin, CancelCommit, Documents, TypeOK
<1>12. CASE UNCHANGED vars
  BY <1>12 DEF vars, TypeOK
<1>13. QED
  BY <1>1, <1>2, <1>3, <1>4, <1>5, <1>6, <1>7, <1>8, <1>9, <1>10, <1>11, <1>12, WorkerStepType
     DEF Next

\* Every variable keeps its type, whatever the workers, the provider, the owner
\* and the operator do.
THEOREM TypeCorrect == Spec => []TypeOK
<1>1. Init => TypeOK
  BY TerminalAssumption, InitType
<1>2. TypeOK /\ [Next]_vars => TypeOK'
  BY TerminalAssumption, NextType
<1>3. QED
  BY <1>1, <1>2, PTL DEF Spec
----------------------------------------------------------------------------
(* Effects of the transactions, field by field.                            *)

\* What an arriving answer may change of a step, and what it never does.
LEMMA ApplyTerminalEffect ==
    ASSUME TypeOK, NEW s \in Stages, NEW fact \in Facts, ApplyTerminal(s, fact)
    PROVE  \A t \in Stages :
            /\ steps'[t].submit = steps[t].submit
            /\ steps'[t].job = steps[t].job
            /\ t # s => steps'[t] = steps[t]
            /\ steps[t].terminal # Nothing => steps'[t].terminal = steps[t].terminal
            /\ steps[t].terminal = Nothing =>
                    steps'[t].terminal \in {Nothing, fact}
            /\ steps[t].quarantined => steps'[t].quarantined
  BY DEF TypeOK, Step, ApplyTerminal, Verdict

\* The status of an answer tells whether there is one.
LEMMA Answered ==
    ASSUME TerminalAssumption
    PROVE  /\ \A fact \in Facts : fact.status \in Failures \cup {"completed"} /\ fact # Nothing
           /\ Nothing.status \notin Failures \cup {"completed"}
           /\ \A fact \in Facts : HandOff(fact) = "settle" => fact.status \in Failures
           /\ "completed" \notin Failures
<1>1. \A fact \in Facts : fact.status \in Failures \cup {"completed"}
  BY DEF Facts
<1>2. Nothing.status = "" /\ "" \notin Failures /\ "completed" \notin Failures
  BY DEF TerminalAssumption, Nothing
<1>3. QED
  BY <1>1, <1>2 DEF HandOff

\* The steps that change a document of the creation.
LEMMA DocumentSteps ==
    ASSUME TypeOK, AnswersBound, [Next]_vars
    PROVE  \/ UNCHANGED Documents
           \/ \E s \in Stages, fact \in Facts :
                /\ ApplyTerminal(s, fact) /\ steps[s].job = "bound"
                /\ UNCHANGED <<creation, recipe, reservation, submission, assets>>
           \/ \E w \in Workers : FlagUploadPending(w) \/ Publish(w) \/ SettleFailure(w)
           \/ PrepareSecond \/ BindSecond \/ RejectSecond \/ CancelCommit
<1>1. ASSUME NEW w \in Workers, WorkerStep(w)
      PROVE  \/ UNCHANGED Documents
             \/ \E s \in Stages, fact \in Facts :
                /\ ApplyTerminal(s, fact) /\ steps[s].job = "bound"
                /\ UNCHANGED <<creation, recipe, reservation, submission, assets>>
             \/ FlagUploadPending(w) \/ Publish(w) \/ SettleFailure(w)
  <2>1. CASE LookUpAnswered(w)
    <3>1. StageOf(w) \in Stages /\ steps[StageOf(w)].job = "bound"
      BY <2>1, Working DEF LookUpAnswered, AnswersBound
    <3>2. QED
      BY <2>1, <3>1 DEF LookUpAnswered
  <2>2. CASE \/ LoadReconcile(w) \/ LoadMaterialize(w) \/ LoadSettle(w)
             \/ LookUpInconclusive(w) \/ Copy(w) \/ CopyFails(w) \/ FlagFails(w)
             \/ PublishFails(w) \/ SettleFails(w) \/ Conclude(w)
    BY <2>2 DEF LoadReconcile, LoadMaterialize, LoadSettle, LookUpInconclusive, Copy,
                CopyFails, FlagFails, PublishFails, SettleFails, Conclude, Local
  <2>3. QED
    BY <1>1, <2>1, <2>2 DEF WorkerStep
<1>2. ASSUME NEW d \in Deliveries, Consume(d)
      PROVE  \E s \in Stages, fact \in Facts :
                /\ ApplyTerminal(s, fact) /\ steps[s].job = "bound"
                /\ UNCHANGED <<creation, recipe, reservation, submission, assets>>
  <2>1. inbox[d] \in Delivery
    BY <1>2 DEF Consume, TypeOK, NoDelivery
  <2>2. inbox[d].stage \in Stages /\ inbox[d].fact \in Facts
    BY <2>1 DEF Delivery
  <2>3. QED
    BY <1>2, <2>2 DEF Consume
<1>3. ASSUME NEW w \in Workers, NEW e \in Kinds \X Stages, Claim(w, e)
      PROVE  UNCHANGED Documents
  BY <1>3 DEF Claim
<1>4. ASSUME NEW e \in Kinds \X Stages, Age(e) \/ Redrive(e)
      PROVE  UNCHANGED Documents
  BY <1>4 DEF Age, Redrive
<1>5. ASSUME NEW w \in Workers, Crash(w)
      PROVE  UNCHANGED Documents
  BY <1>5 DEF Crash
<1>6. ASSUME NEW d \in Deliveries, NEW s \in Stages, NEW fact \in Facts, Receive(d, s, fact)
      PROVE  UNCHANGED Documents
  BY <1>6 DEF Receive, Documents
<1>7. ASSUME NEW d \in Deliveries, CloseDelivery(d)
      PROVE  UNCHANGED Documents
  BY <1>7 DEF CloseDelivery, Documents
<1>8. CASE CancelBegin
  BY <1>8 DEF CancelBegin
<1>9. CASE UNCHANGED vars
  BY <1>9 DEF vars, Documents
<1>10. QED
  BY <1>1, <1>2, <1>3, <1>4, <1>5, <1>6, <1>7, <1>8, <1>9 DEF Next
----------------------------------------------------------------------------
(* Where the creation stands.                                              *)

\* Publishing a result moves the creation from one position to the next.
LEMMA PublishPosition ==
    ASSUME TerminalAssumption, TypeOK, Position, MoneyFollows,
           NEW w \in Workers, Publish(w)
    PROVE  Position' /\ MoneyFollows'
<1> DEFINE s == StageOf(w)
<1>0. /\ s \in Stages /\ 1 \in Stages /\ 2 \in Stages
      /\ CanPublish(s) /\ PreTerminal
      /\ steps[s].submit = "submitted" /\ steps[s].terminal.status = "completed"
  BY Working DEF Publish, CanPublish, LoadableResult, Stages
<1>1. CASE PublishFinal(s)
  <2>1. /\ steps'[s] = [steps[s] EXCEPT !.submit = "succeeded", !.uploadPending = FALSE]
        /\ \A t \in Stages : t # s => steps'[t] = steps[t]
    BY <1>0, <1>1 DEF PublishFinal, TypeOK
  <2>2. /\ steps'[s].submit = "succeeded" /\ steps'[s].job = steps[s].job
        /\ steps'[s].terminal = steps[s].terminal
    BY <1>0, <2>1 DEF TypeOK, Step
  <2>3. creation' = "succeeded" /\ reservation' = [status |-> "reserved", gate |-> "published"]
    <3>1. reservation = [status |-> "reserved", gate |-> "open"]
      BY <1>0 DEF MoneyFollows, PreTerminal
    <3>2. QED
      BY <1>1, <3>1 DEF PublishFinal
  <2>4. CASE s = 1
    <3>1. FirstUnderway
      BY <1>0, <2>4 DEF Position, FirstUnderway, SecondUnderway, FrameOwned, Succeeded, Failed, PreTerminal
    <3>2. OneStep
      BY <1>1, <2>4 DEF PublishFinal
    <3>3. Succeeded'
      BY <1>0, <1>1, <2>1, <2>2, <2>3, <2>4, <3>1, <3>2
         DEF Succeeded, FirstUnderway, OneStep, PublishFinal
    <3>4. QED
      BY <2>3, <3>3 DEF Position, MoneyFollows
  <2>5. CASE s = 2
    <3>1. SecondUnderway
      BY <1>0, <2>5 DEF Position, FirstUnderway, SecondUnderway, Succeeded, Failed, PreTerminal
    <3>2. Succeeded'
      <4>1. FrameOwned /\ assets = {<<"intermediate_result", 1>>} /\ steps[2].job = "bound"
        BY <1>0, <2>5, <3>1 DEF SecondUnderway
      <4>2. recipe' = recipe /\ assets' = {<<"intermediate_result", 1>>, <<"result", 2>>}
        BY <1>1, <2>5, <4>1 DEF PublishFinal
      <4>3. steps'[1] = steps[1]
        BY <1>0, <2>1, <2>5
      <4>4. FrameOwned'
        BY <4>1, <4>2, <4>3 DEF FrameOwned
      <4>5. steps'[2].submit = "succeeded" /\ steps'[2].job = "bound"
        BY <2>2, <2>5, <4>1
      <4> QED
        BY <2>3, <4>2, <4>4, <4>5 DEF Succeeded
    <3>3. QED
      BY <2>3, <3>2 DEF Position, MoneyFollows
  <2>6. QED
    BY <1>0, <2>4, <2>5 DEF Stages
<1>2. CASE ActivateSecondStep(s)
  <2>1. s = 1 /\ ~OneStep
    BY <1>2 DEF ActivateSecondStep
  <2>2. FirstUnderway /\ steps[2].job = "none"
    BY <1>0, <2>1 DEF Position, FirstUnderway, SecondUnderway, FrameOwned, Succeeded, Failed, PreTerminal
  <2>3. /\ steps'[1].submit = "succeeded" /\ steps'[1].terminal = steps[1].terminal
        /\ steps'[2].submit = "ready" /\ steps'[2].job = steps[2].job
    BY <1>0, <1>2 DEF ActivateSecondStep, TypeOK, Step
  <2>4. SecondUnderway'
    BY <1>0, <1>2, <2>1, <2>2, <2>3
       DEF ActivateSecondStep, SecondUnderway, FrameOwned, FirstUnderway, PreTerminal
  <2>5. MoneyFollows'
    BY <1>0, <1>2 DEF ActivateSecondStep, MoneyFollows, PreTerminal
  <2>6. QED
    BY <2>4, <2>5 DEF Position
<1>3. QED
  BY <1>1, <1>2 DEF Publish

\* Settling a failure ends the creation and returns its reservation.
LEMMA SettlePosition ==
    ASSUME TerminalAssumption, TypeOK, Position, MoneyFollows, AnswersBound,
           NEW w \in Workers, SettleFailure(w)
    PROVE  Position' /\ MoneyFollows'
<1> DEFINE s == StageOf(w)
<1>0. /\ s \in Stages /\ 1 \in Stages /\ 2 \in Stages
      /\ PreTerminal /\ steps[s].submit = "submitted" /\ SettledSteps(s)
      /\ creation' = "generation_failed" /\ assets' = assets
      /\ reservation' = [status |-> "reversed", gate |-> "reversed"]
  BY Working DEF SettleFailure, CanSettle, LoadableFailure, Stages
<1>1. \A t \in Stages :
        steps'[t] = IF t = s \/ (t = 2 /\ ~OneStep)
                    THEN [steps[t] EXCEPT !.submit = "generation_failed"] ELSE steps[t]
  BY <1>0 DEF SettledSteps
<1>2. \A t \in Stages :
        /\ steps'[t].job = steps[t].job /\ steps'[t].terminal = steps[t].terminal
        /\ t = s \/ (t = 2 /\ ~OneStep) => steps'[t].submit = "generation_failed"
        /\ ~(t = s \/ (t = 2 /\ ~OneStep)) => steps'[t].submit = steps[t].submit
  <2> TAKE t \in Stages
  <2>1. steps[t] \in Step
    BY DEF TypeOK
  <2>2. CASE t = s \/ (t = 2 /\ ~OneStep)
    <3>1. steps'[t] = [steps[t] EXCEPT !.submit = "generation_failed"]
      BY <1>1, <2>2
    <3>2. QED
      BY <2>1, <2>2, <3>1 DEF Step
  <2>3. CASE ~(t = s \/ (t = 2 /\ ~OneStep))
    <3>1. steps'[t] = steps[t]
      BY <1>1, <2>3
    <3>2. QED
      BY <2>3, <3>1
  <2>4. QED
    BY <2>2, <2>3
<1>3. MoneyFollows'
  BY <1>0 DEF MoneyFollows, PreTerminal
<1>4. CASE s = 1
  <2>1. FirstUnderway
    BY <1>0, <1>4 DEF Position, FirstUnderway, SecondUnderway, FrameOwned, Succeeded, Failed, PreTerminal
  <2>2. Failed'
    BY <1>0, <1>2, <1>4, <2>1 DEF Failed, FirstUnderway, SettledSteps, OneStep
  <2>3. QED
    BY <1>3, <2>2 DEF Position
<1>5. CASE s = 2
  <2>1. SecondUnderway
    BY <1>0, <1>5 DEF Position, FirstUnderway, SecondUnderway, Succeeded, Failed, PreTerminal
  <2>2. Failed'
    BY <1>0, <1>2, <1>5, <2>1 DEF Failed, SecondUnderway, FrameOwned, SettledSteps
  <2>3. QED
    BY <1>3, <2>2 DEF Position
<1>6. QED
  BY <1>0, <1>4, <1>5 DEF Stages

\* A creation nobody published, activated or refunded stands where it stood.
LEMMA PositionKept ==
    ASSUME TerminalAssumption, TypeOK, Position, MoneyFollows,
           UNCHANGED <<recipe, reservation, submission, assets>>,
           creation' = creation \/ (creation = "pending_submission" /\ creation' = "cancelling"),
           \A t \in Stages :
             /\ steps'[t].submit = steps[t].submit
             /\ steps'[t].job = steps[t].job
             /\ steps[t].terminal # Nothing => steps'[t].terminal = steps[t].terminal
    PROVE  Position' /\ MoneyFollows'
<1>0. 1 \in Stages /\ 2 \in Stages
  BY DEF Stages
<1>1. /\ steps'[1].submit = steps[1].submit
      /\ steps'[2].submit = steps[2].submit /\ steps'[2].job = steps[2].job
      /\ steps[1].terminal.status = "completed" => steps'[1].terminal = steps[1].terminal
  BY <1>0, Answered
<1>2. PreTerminal => PreTerminal'
  BY DEF PreTerminal
<1>3. FrameOwned => FrameOwned'
  BY <1>1 DEF FrameOwned
<1>4. FirstUnderway => FirstUnderway'
  BY <1>1, <1>2 DEF FirstUnderway
<1>5. SecondUnderway => SecondUnderway'
  BY <1>1, <1>2, <1>3 DEF SecondUnderway
<1>6. Succeeded => Succeeded'
  BY <1>1, <1>3 DEF Succeeded, OneStep
<1>7. Failed => Failed'
  BY <1>1, <1>3 DEF Failed
<1>8. MoneyFollows'
  BY DEF MoneyFollows, PreTerminal
<1>9. QED
  BY <1>4, <1>5, <1>6, <1>7, <1>8 DEF Position

\* A second step being submitted has no job yet.
LEMMA SecondWaiting ==
    ASSUME Position, steps[2].submit \in {"ready", "submitting"}
    PROVE  /\ SecondUnderway
           /\ steps[2].job # "bound"
           /\ steps[2].submit = "ready" => steps[2].job = "none"
           /\ steps[2].submit = "submitting" => steps[2].job = "prepared"
  BY DEF Position, FirstUnderway, SecondUnderway, Succeeded, Failed, OneStep

\* Every step leads from a position to a position, the reservation following.
LEMMA NextPosition ==
    ASSUME TerminalAssumption, TypeOK, Position, MoneyFollows, AnswersBound, [Next]_vars
    PROVE  Position' /\ MoneyFollows'
<1>0. 1 \in Stages /\ 2 \in Stages
  BY DEF Stages
<1>1. CASE UNCHANGED Documents
  BY <1>1, PositionKept DEF Documents
<1>2. ASSUME NEW s \in Stages, NEW fact \in Facts, ApplyTerminal(s, fact),
             UNCHANGED <<creation, recipe, reservation, submission, assets>>
      PROVE  Position' /\ MoneyFollows'
  BY <1>2, ApplyTerminalEffect, PositionKept
<1>3. ASSUME NEW w \in Workers, FlagUploadPending(w)
      PROVE  Position' /\ MoneyFollows'
  <2>1. \A t \in Stages : /\ steps'[t].submit = steps[t].submit
                          /\ steps'[t].job = steps[t].job
                          /\ steps'[t].terminal = steps[t].terminal
    BY <1>3 DEF FlagUploadPending, TypeOK, Step
  <2>2. QED
    BY <1>3, <2>1, PositionKept DEF FlagUploadPending
<1>4. ASSUME NEW w \in Workers, Publish(w)
      PROVE  Position' /\ MoneyFollows'
  BY <1>4, PublishPosition
<1>5. ASSUME NEW w \in Workers, SettleFailure(w)
      PROVE  Position' /\ MoneyFollows'
  BY <1>5, SettlePosition
<1>6. CASE PrepareSecond
  <2>1. SecondUnderway /\ MoneyFollows
    BY <1>6, SecondWaiting DEF PrepareSecond
  <2>2. /\ steps'[1] = steps[1]
        /\ steps'[2].submit = "submitting" /\ steps'[2].job = "prepared"
    BY <1>0, <1>6 DEF PrepareSecond, TypeOK, Step
  <2>3. SecondUnderway' /\ MoneyFollows'
    <3>1. submission = "open"
      BY <1>6, <2>1 DEF PrepareSecond, SecondUnderway
    <3>2. QED
      BY <1>6, <2>1, <2>2, <3>1
         DEF PrepareSecond, SecondUnderway, FrameOwned, PreTerminal, MoneyFollows
  <2>4. QED
    BY <2>3 DEF Position
<1>7. CASE BindSecond
  <2>1. SecondUnderway /\ MoneyFollows
    BY <1>7, SecondWaiting DEF BindSecond
  <2>2. /\ steps'[1] = steps[1]
        /\ steps'[2].submit = "submitted" /\ steps'[2].job = "bound"
    BY <1>0, <1>7 DEF BindSecond, TypeOK, Step
  <2>3. SecondUnderway' /\ MoneyFollows'
    BY <1>7, <2>1, <2>2 DEF BindSecond, SecondUnderway, FrameOwned, PreTerminal, MoneyFollows
  <2>4. QED
    BY <2>3 DEF Position
<1>8. CASE RejectSecond
  <2>1. SecondUnderway /\ steps[2].job # "bound"
    BY <1>8, SecondWaiting DEF RejectSecond
  <2>2. /\ steps'[1] = steps[1]
        /\ steps'[2].submit = "submission_failed" /\ steps'[2].job = steps[2].job
    BY <1>0, <1>8 DEF RejectSecond, TypeOK, Step
  <2>3. Failed' /\ MoneyFollows'
    BY <1>8, <2>1, <2>2
       DEF RejectSecond, SecondUnderway, FrameOwned, PreTerminal, MoneyFollows, Failed
  <2>4. QED
    BY <2>3 DEF Position
<1>9. CASE CancelCommit
  BY <1>9, PositionKept DEF CancelCommit
<1>10. QED
  BY <1>1, <1>2, <1>3, <1>4, <1>5, <1>6, <1>7, <1>8, <1>9, DocumentSteps
----------------------------------------------------------------------------
(* What never goes back, and where the workers stand.                      *)

\* Only the transaction on the slot writes an answer or a contradiction.
LEMMA SlotKept ==
    ASSUME TypeOK, NEW s \in Stages,
           \/ \E w \in Workers : FlagUploadPending(w) \/ Publish(w) \/ SettleFailure(w)
           \/ PrepareSecond \/ BindSecond \/ RejectSecond
    PROVE  /\ steps'[s].terminal = steps[s].terminal
           /\ steps'[s].quarantined = steps[s].quarantined
<1> DEFINE Same == /\ steps'[s].terminal = steps[s].terminal
                   /\ steps'[s].quarantined = steps[s].quarantined
<1>1. ASSUME NEW w \in Workers, FlagUploadPending(w)
      PROVE  Same
  BY <1>1 DEF FlagUploadPending, TypeOK, Step
<1>2. ASSUME NEW w \in Workers, Publish(w)
      PROVE  Same
  <2>1. CASE PublishFinal(StageOf(w))
    BY <2>1 DEF PublishFinal, TypeOK, Step
  <2>2. CASE ActivateSecondStep(StageOf(w))
    BY <2>2 DEF ActivateSecondStep, TypeOK, Step, Stages
  <2>3. QED
    BY <1>2, <2>1, <2>2 DEF Publish
<1>3. ASSUME NEW w \in Workers, SettleFailure(w)
      PROVE  Same
  <2>1. steps'[s] \in {steps[s], [steps[s] EXCEPT !.submit = "generation_failed"]}
    BY <1>3 DEF SettleFailure, SettledSteps
  <2>2. QED
    BY <2>1 DEF TypeOK, Step
<1>4. CASE PrepareSecond
  BY <1>4 DEF PrepareSecond, TypeOK, Step
<1>5. CASE BindSecond
  BY <1>5 DEF BindSecond, TypeOK, Step
<1>6. CASE RejectSecond
  BY <1>6 DEF RejectSecond, TypeOK, Step
<1>7. QED
  BY <1>1, <1>2, <1>3, <1>4, <1>5, <1>6

\* An answer, a contradiction, a binding and an end are for good.
LEMMA Lasting ==
    ASSUME TerminalAssumption, TypeOK, Position, MoneyFollows, AnswersBound, [Next]_vars,
           NEW s \in Stages
    PROVE  /\ steps[s].terminal # Nothing => steps'[s].terminal = steps[s].terminal
           /\ steps[s].quarantined => steps'[s].quarantined
           /\ steps[s].job = "bound" => steps'[s].job = "bound"
           /\ steps'[s].job # "bound" =>
                steps'[s].terminal = steps[s].terminal /\ steps'[s].quarantined = steps[s].quarantined
           /\ Ended(creation) => Ended(creation)'
<1> DEFINE Same == /\ steps'[s].terminal = steps[s].terminal
                   /\ steps'[s].quarantined = steps[s].quarantined
<1>0. 1 \in Stages /\ 2 \in Stages
  BY DEF Stages
<1>1. CASE UNCHANGED Documents
  BY <1>1 DEF Documents, Ended
<1>2. ASSUME NEW t \in Stages, NEW fact \in Facts, ApplyTerminal(t, fact), steps[t].job = "bound",
             UNCHANGED <<creation, recipe, reservation, submission, assets>>
      PROVE  /\ steps[s].terminal # Nothing => steps'[s].terminal = steps[s].terminal
             /\ steps[s].quarantined => steps'[s].quarantined
             /\ steps'[s].job = steps[s].job
             /\ steps[s].job # "bound" => Same
             /\ Ended(creation) => Ended(creation)'
  BY <1>2, ApplyTerminalEffect DEF Ended
<1>3. ASSUME NEW w \in Workers, FlagUploadPending(w)
      PROVE  Same /\ steps'[s].job = steps[s].job /\ creation' = creation
  BY <1>3 DEF FlagUploadPending, TypeOK, Step
<1>4. ASSUME NEW w \in Workers, Publish(w)
      PROVE  Same /\ steps'[s].job = steps[s].job /\ ~Ended(creation)
  <2>1. ~Ended(creation)
    BY <1>4 DEF Publish, CanPublish, LoadableResult, PreTerminal, Ended
  <2>2. CASE PublishFinal(StageOf(w))
    BY <2>1, <2>2 DEF PublishFinal, TypeOK, Step
  <2>3. CASE ActivateSecondStep(StageOf(w))
    BY <1>0, <2>1, <2>3 DEF ActivateSecondStep, TypeOK, Step, Stages
  <2>4. QED
    BY <1>4, <2>2, <2>3 DEF Publish
<1>5. ASSUME NEW w \in Workers, SettleFailure(w)
      PROVE  Same /\ steps'[s].job = steps[s].job /\ ~Ended(creation)
  <2>1. ~Ended(creation)
    BY <1>5 DEF SettleFailure, CanSettle, LoadableFailure, PreTerminal, Ended
  <2>2. steps'[s] \in {steps[s], [steps[s] EXCEPT !.submit = "generation_failed"]}
    BY <1>5 DEF SettleFailure, SettledSteps
  <2>3. QED
    BY <2>1, <2>2 DEF TypeOK, Step
<1>6. CASE PrepareSecond
  <2>1. steps[2].job = "none"
    BY <1>6, SecondWaiting DEF PrepareSecond
  <2>2. Same /\ (s # 2 => steps'[s].job = steps[s].job) /\ creation' = creation
    BY <1>0, <1>6 DEF PrepareSecond, TypeOK, Step
  <2>3. QED
    BY <2>1, <2>2 DEF Ended
<1>7. CASE BindSecond
  <2>1. /\ Same /\ (s # 2 => steps'[s].job = steps[s].job) /\ creation' = creation
        /\ steps'[2].job = "bound"
    BY <1>0, <1>7 DEF BindSecond, TypeOK, Step
  <2>2. QED
    BY <2>1 DEF Ended
<1>8. CASE RejectSecond
  <2>1. Same /\ steps'[s].job = steps[s].job /\ ~Ended(creation)
    BY <1>0, <1>8 DEF RejectSecond, TypeOK, Step, Ended
  <2>2. QED
    BY <2>1
<1>9. CASE CancelCommit
  BY <1>9 DEF CancelCommit, Ended
<1>10. QED
  BY <1>1, <1>2, <1>3, <1>4, <1>5, <1>6, <1>7, <1>8, <1>9, DocumentSteps DEF Ended

\* How the place of a worker changes: it claims, it leaves, or it goes on.
LEMMA WorkSteps ==
    ASSUME TypeOK, [Next]_vars
    PROVE  \/ work' = work
           \/ \E w \in Workers :
                \/ Leave(w)
                \/ \E e \in Kinds \X Stages : Claim(w, e)
                \/ \E phase \in Phases :
                    /\ Goto(w, phase)
                    /\ LoadReconcile(w) \/ LoadMaterialize(w) \/ LoadSettle(w)
                       \/ LookUpAnswered(w) \/ LookUpInconclusive(w) \/ Copy(w) \/ CopyFails(w)
                       \/ FlagUploadPending(w) \/ FlagFails(w) \/ PublishFails(w) \/ SettleFails(w)
<1>0. {"lookup", "requeue", "copy", "abandon", "retry", "settle", "deliver", "publish",
       "flag", "attention"} \subseteq Phases
  BY DEF Phases
<1>1. ASSUME NEW w \in Workers, WorkerStep(w)
      PROVE  \/ Leave(w)
             \/ \E phase \in Phases :
                    /\ Goto(w, phase)
                    /\ LoadReconcile(w) \/ LoadMaterialize(w) \/ LoadSettle(w)
                       \/ LookUpAnswered(w) \/ LookUpInconclusive(w) \/ Copy(w) \/ CopyFails(w)
                       \/ FlagUploadPending(w) \/ FlagFails(w) \/ PublishFails(w) \/ SettleFails(w)
  <2>1. CASE LoadReconcile(w)
    BY <1>0, <2>1 DEF LoadReconcile
  <2>2. CASE LoadMaterialize(w)
    BY <1>0, <2>2 DEF LoadMaterialize
  <2>3. CASE LoadSettle(w)
    BY <1>0, <2>3 DEF LoadSettle
  <2>4. CASE LookUpAnswered(w)
    BY <1>0, <2>4 DEF LookUpAnswered
  <2>5. CASE LookUpInconclusive(w)
    BY <1>0, <2>5 DEF LookUpInconclusive
  <2>6. CASE Copy(w)
    BY <1>0, <2>6 DEF Copy
  <2>7. CASE CopyFails(w)
    BY <1>0, <2>7 DEF CopyFails
  <2>8. CASE FlagUploadPending(w)
    BY <1>0, <2>8 DEF FlagUploadPending
  <2>9. CASE FlagFails(w)
    BY <1>0, <2>9 DEF FlagFails
  <2>10. CASE PublishFails(w)
    BY <1>0, <2>10 DEF PublishFails
  <2>11. CASE SettleFails(w)
    BY <1>0, <2>11 DEF SettleFails
  <2>12. CASE Publish(w) \/ SettleFailure(w) \/ Conclude(w)
    BY <2>12 DEF Publish, SettleFailure, Conclude
  <2>13. QED
    BY <1>1, <2>1, <2>2, <2>3, <2>4, <2>5, <2>6, <2>7, <2>8, <2>9, <2>10, <2>11, <2>12
       DEF WorkerStep
<1>2. ASSUME NEW w \in Workers, Crash(w)
      PROVE  Leave(w)
  BY <1>2 DEF Crash
<1>3. ASSUME NEW e \in Kinds \X Stages, Age(e) \/ Redrive(e)
      PROVE  work' = work
  BY <1>3 DEF Age, Redrive
<1>4. ASSUME NEW d \in Deliveries, NEW s \in Stages, NEW fact \in Facts, Receive(d, s, fact)
      PROVE  work' = work
  BY <1>4 DEF Receive
<1>5. ASSUME NEW d \in Deliveries, Consume(d) \/ CloseDelivery(d)
      PROVE  work' = work
  BY <1>5 DEF Consume, CloseDelivery
<1>6. CASE PrepareSecond \/ BindSecond \/ RejectSecond \/ CancelBegin \/ CancelCommit
  BY <1>6 DEF PrepareSecond, BindSecond, RejectSecond, CancelBegin, CancelCommit
<1>7. CASE UNCHANGED vars
  BY <1>7 DEF vars
<1>8. QED
  BY <1>1, <1>2, <1>3, <1>4, <1>5, <1>6, <1>7 DEF Next

\* A place that is new: it was reached from another place on the same claim, or
\* by a claim.
LEMMA NewPlace ==
    ASSUME TypeOK, [Next]_vars, NEW v \in Workers, work'[v] # work[v]
    PROVE  \/ work'[v] = Idle
           \/ \E e \in Kinds \X Stages : Claim(v, e) /\ work'[v] = [phase |-> "claimed", event |-> e]
           \/ \E phase \in Phases :
                /\ Goto(v, phase)
                /\ work'[v] = [phase |-> phase, event |-> work[v].event]
                /\ LoadReconcile(v) \/ LoadMaterialize(v) \/ LoadSettle(v)
                   \/ LookUpAnswered(v) \/ LookUpInconclusive(v) \/ Copy(v) \/ CopyFails(v)
                   \/ FlagUploadPending(v) \/ FlagFails(v) \/ PublishFails(v) \/ SettleFails(v)
<1>1. ASSUME NEW w \in Workers, Leave(w)
      PROVE  v = w /\ work'[v] = Idle
  BY <1>1 DEF Leave, TypeOK
<1>2. ASSUME NEW w \in Workers, NEW e \in Kinds \X Stages, Claim(w, e)
      PROVE  v = w /\ work'[v] = [phase |-> "claimed", event |-> e]
  BY <1>2 DEF Claim, TypeOK
<1>3. ASSUME NEW w \in Workers, NEW phase \in Phases, Goto(w, phase)
      PROVE  v = w /\ work'[v] = [phase |-> phase, event |-> work[v].event]
  BY <1>3 DEF Goto, TypeOK
<1>4. QED
  BY <1>1, <1>2, <1>3, WorkSteps

\* Only a bound job ever has an answer.
LEMMA NextAnswersBound ==
    ASSUME TerminalAssumption, TypeOK, Position, MoneyFollows, AnswersBound, [Next]_vars
    PROVE  AnswersBound'
<1>0. 1 \in Stages /\ 2 \in Stages
  BY DEF Stages
<1>1. steps'[1].job = "bound"
  BY <1>0, Lasting DEF AnswersBound
<1>2. steps'[2].job # "bound" => steps'[2].terminal = Nothing /\ ~steps'[2].quarantined
  BY <1>0, Lasting DEF AnswersBound
<1>3. ASSUME NEW w \in Workers, In(w, "reconcile", "lookup")'
      PROVE  steps'[StageOf(w)'].job = "bound"
  <2>1. CASE work'[w] = work[w]
    <3>1. In(w, "reconcile", "lookup") /\ StageOf(w)' = StageOf(w)
      BY <1>3, <2>1 DEF In, StageOf
    <3>2. QED
      BY <3>1, Lasting, Working DEF AnswersBound
  <2>2. CASE work'[w] # work[w]
    <3>0. /\ work'[w].phase = "lookup" /\ Idle.phase # "lookup"
          /\ \A e \in Kinds \X Stages : [phase |-> "claimed", event |-> e].phase # "lookup"
      BY <1>3 DEF In, Idle
    <3>1. PICK phase \in Phases :
            /\ Goto(w, phase)
            /\ work'[w] = [phase |-> phase, event |-> work[w].event]
            /\ LoadReconcile(w) \/ LoadMaterialize(w) \/ LoadSettle(w)
               \/ LookUpAnswered(w) \/ LookUpInconclusive(w) \/ Copy(w) \/ CopyFails(w)
               \/ FlagUploadPending(w) \/ FlagFails(w) \/ PublishFails(w) \/ SettleFails(w)
      BY <2>2, <3>0, NewPlace
    <3>2. work[w].event[1] = "reconcile" /\ phase = "lookup" /\ StageOf(w)' = StageOf(w)
      BY <1>3, <3>1 DEF In, StageOf
    <3>3. LoadReconcile(w) \/ LookUpAnswered(w) \/ LookUpInconclusive(w)
      BY <3>1, <3>2 DEF LoadMaterialize, LoadSettle, Copy, CopyFails, FlagUploadPending,
                        FlagFails, PublishFails, SettleFails, In
    <3>4. work[w].phase # "lookup"
      BY <2>2, <3>1, <3>2, Working
    <3>5. LoadReconcile(w)
      BY <3>3, <3>4 DEF LookUpAnswered, LookUpInconclusive, In
    <3>6. steps[StageOf(w)].job = "bound"
      <4>1. work'[w].phase = IF steps[StageOf(w)].job = "bound" THEN "lookup" ELSE "requeue"
        BY <3>5 DEF LoadReconcile, Goto, TypeOK
      <4>2. QED
        BY <3>1, <3>2, <4>1
    <3>7. QED
      BY <3>2, <3>6, Lasting, Working
  <2>3. QED
    BY <2>1, <2>2
<1>4. QED
  BY <1>1, <1>2, <1>3 DEF AnswersBound
----------------------------------------------------------------------------
(* The settlement events.                                                  *)

\* The transaction on the slot touches a settlement event only to create it,
\* with the first answer of its step, when that answer is a failure.
LEMMA ApplyTerminalSettle ==
    ASSUME TerminalAssumption, TypeOK, NEW s \in Stages, NEW t \in Stages, NEW fact \in Facts,
           ApplyTerminal(t, fact)
    PROVE  \/ /\ events'[<<"settle", s>>] = events[<<"settle", s>>]
              /\ steps'[s].terminal.status \in Failures => steps'[s].terminal = steps[s].terminal
           \/ /\ events'[<<"settle", s>>] = NewEvent
              /\ steps'[s].terminal.status \in Failures
<1> DEFINE e == <<"settle", s>>
           handed == [events EXCEPT ![<<HandOff(fact), t>>] = NewEvent]
<1>1. /\ e \in Kinds \X Stages /\ <<"reconcile", t>> \in Kinds \X Stages
      /\ e # <<"reconcile", t>> /\ <<HandOff(fact), t>> \in Kinds \X Stages
  BY Values DEF Kinds
<1>2. CASE Verdict(steps[t], fact) # "applied"
  <2>1. events' = events /\ steps'[s].terminal = steps[s].terminal
    BY <1>2 DEF ApplyTerminal, TypeOK, Step
  <2>2. QED
    BY <2>1
<1>3. CASE Verdict(steps[t], fact) = "applied"
  <2>1. events' = [handed EXCEPT ![<<"reconcile", t>>].status = "delivered",
                                 ![<<"reconcile", t>>].holder = NoOne]
    BY <1>3 DEF ApplyTerminal
  <2>2. handed \in [Kinds \X Stages -> Event]
    BY <1>1, Values DEF TypeOK
  <2> HIDE DEF handed
  <2>3. events'[e] = handed[e]
    BY <1>1, <2>1, <2>2
  <2>4. /\ t # s => steps'[s].terminal = steps[s].terminal
        /\ t = s => steps'[s].terminal = fact
    BY <1>3 DEF ApplyTerminal, TypeOK, Step
  <2>5. CASE e = <<HandOff(fact), t>>
    <3>1. events'[e] = NewEvent /\ t = s /\ fact.status \in Failures
      BY <1>1, <2>3, <2>5, Answered DEF handed, TypeOK
    <3>2. QED
      BY <2>4, <3>1
  <2>6. CASE e # <<HandOff(fact), t>>
    <3>1. events'[e] = events[e]
      BY <1>1, <2>3, <2>6 DEF handed, TypeOK
    <3>2. t = s => fact.status \notin Failures
      BY <2>6, Answered DEF HandOff
    <3>3. QED
      BY <2>4, <3>1, <3>2
  <2>7. QED
    BY <2>5, <2>6
<1>4. QED
  BY <1>2, <1>3

\* What a step may do to a settlement event.
LEMMA SettleEventSteps ==
    ASSUME TerminalAssumption, TypeOK, Position, MoneyFollows, AnswersBound, SettlementsMeant,
           [Next]_vars, NEW s \in Stages
    PROVE  LET old == events[<<"settle", s>>]
               new == events'[<<"settle", s>>]
           IN
           \/ /\ new = NewEvent
              /\ steps'[s].terminal.status \in Failures
           \/ /\ steps'[s].terminal.status \in Failures =>
                    steps'[s].terminal = steps[s].terminal
              /\ \/ new.status = old.status /\ new.holder = old.holder
                 \/ \E w \in Workers :
                        /\ Claim(w, <<"settle", s>>)
                        /\ old.status # "absent"
                        /\ new.status = "claimed" /\ new.holder = w
                 \/ old.status # "absent" /\ new.holder = NoOne /\ Ended(creation)'
                 \/ /\ old.status # "absent" /\ new.holder = NoOne
                    /\ new.status \in {"pending", "needs_attention"}
                 \/ /\ old.status = "claimed" /\ new.holder = NoOne
                    /\ steps[s].quarantined \/ Ended(creation)
                 \/ old.status = "needs_attention" /\ new.status = "pending"
                    /\ new.holder = old.holder
<1> DEFINE e == <<"settle", s>>
           old == events[e]
           new == events'[e]
           Kept == \/ new.status = old.status /\ new.holder = old.holder
                   \/ \E w \in Workers :
                        /\ Claim(w, e)
                        /\ old.status # "absent"
                        /\ new.status = "claimed" /\ new.holder = w
                   \/ old.status # "absent" /\ new.holder = NoOne /\ Ended(creation)'
                   \/ /\ old.status # "absent" /\ new.holder = NoOne
                      /\ new.status \in {"pending", "needs_attention"}
                   \/ /\ old.status = "claimed" /\ new.holder = NoOne
                      /\ steps[s].quarantined \/ Ended(creation)
                   \/ old.status = "needs_attention" /\ new.status = "pending"
                      /\ new.holder = old.holder
           SameAnswer == steps'[s].terminal.status \in Failures =>
                            steps'[s].terminal = steps[s].terminal
<1>0. /\ e \in Kinds \X Stages /\ e[1] = "settle" /\ e[2] = s
      /\ events \in [Kinds \X Stages -> Event] /\ old \in Event
  BY DEF Kinds, TypeOK
<1>1. ASSUME NEW t \in Stages, NEW fact \in Facts, ApplyTerminal(t, fact)
      PROVE  (new = NewEvent /\ steps'[s].terminal.status \in Failures) \/ (SameAnswer /\ Kept)
  BY <1>1, ApplyTerminalSettle
<1>2. ASSUME NEW w \in Workers, LookUpAnswered(w)
      PROVE  \E t \in Stages, fact \in Facts : ApplyTerminal(t, fact)
  BY <1>2, Working DEF LookUpAnswered
<1>3. ASSUME NEW d \in Deliveries, Consume(d)
      PROVE  \E t \in Stages, fact \in Facts : ApplyTerminal(t, fact)
  <2>1. inbox[d] \in Delivery
    BY <1>3 DEF Consume, TypeOK, NoDelivery
  <2>2. QED
    BY <1>3, <2>1 DEF Consume, Delivery
<1>4. ASSUME NEW w \in Workers, Publish(w)
      PROVE  Kept
  <2>1. EventOf(w) # e /\ EventOf(w) \in Kinds \X Stages
    BY <1>4, Working DEF Publish, In, EventOf
  <2>2. new = old
    BY <1>0, <1>4, <2>1 DEF Publish, Delivered
  <2>3. QED
    BY <2>2
<1>5. ASSUME NEW w \in Workers, SettleFailure(w)
      PROVE  Kept
  <2>1. EventOf(w) \in Kinds \X Stages /\ Ended(creation)'
    BY <1>5, Working DEF SettleFailure, Ended
  <2>2. CASE EventOf(w) # e
    BY <1>0, <1>5, <2>1, <2>2 DEF SettleFailure, Delivered
  <2>3. CASE EventOf(w) = e
    <3>1. old.status = "claimed"
      BY <1>5, <2>3 DEF SettleFailure, Holds
    <3>2. new = [old EXCEPT !.status = "delivered", !.holder = NoOne]
      BY <1>0, <1>5, <2>3 DEF SettleFailure, Delivered
    <3>3. QED
      BY <1>0, <2>1, <3>1, <3>2 DEF Event
  <2>4. QED
    BY <2>2, <2>3
<1>6. ASSUME NEW w \in Workers, Conclude(w)
      PROVE  Kept
  <2>1. EventOf(w) \in Kinds \X Stages /\ work[w].phase \in Phases
    BY Working
  <2>2. CASE ~Holds(w) \/ EventOf(w) # e
    BY <1>0, <1>6, <2>1, <2>2 DEF Conclude
  <2>3. CASE Holds(w) /\ EventOf(w) = e
    <3>1. old.status = "claimed" /\ work[w].event = e /\ StageOf(w) = s
      BY <2>3 DEF Holds, EventOf, StageOf
    <3>2. new = [old EXCEPT !.holder = NoOne, !.status = Ending(work[w].phase, old.young)]
      BY <1>0, <1>6, <2>3 DEF Conclude
    <3>3. new.holder = NoOne /\ new.status = Ending(work[w].phase, old.young)
      BY <1>0, <3>2 DEF Event
    <3>4. work[w].phase = "retry" \/ work[w].phase = "abandon"
      BY <1>0, <1>6, <3>1 DEF Conclude, SettlementsMeant
    <3>5. CASE work[w].phase = "retry"
      BY <3>1, <3>3, <3>5 DEF Ending
    <3>6. CASE work[w].phase = "abandon"
      BY <1>0, <2>3, <3>1, <3>3, <3>6 DEF SettlementsMeant
    <3>7. QED
      BY <3>4, <3>5, <3>6
  <2>4. QED
    BY <2>2, <2>3
<1>7. ASSUME NEW w \in Workers, WorkerStep(w), ~LookUpAnswered(w), ~Publish(w),
             ~SettleFailure(w), ~Conclude(w)
      PROVE  events' = events
  BY <1>7 DEF WorkerStep, LoadReconcile, LoadMaterialize, LoadSettle, LookUpInconclusive, Copy,
              CopyFails, FlagUploadPending, FlagFails, PublishFails, SettleFails, Local
<1>8. ASSUME NEW w \in Workers, NEW c \in Kinds \X Stages, Claim(w, c)
      PROVE  Kept
  <2>1. CASE c # e
    BY <1>0, <1>8, <2>1 DEF Claim
  <2>2. CASE c = e
    <3>1. old.status # "absent"
      BY <1>8, <2>2 DEF Claim
    <3>2. new = [old EXCEPT !.status = "claimed", !.holder = w]
      BY <1>0, <1>8, <2>2 DEF Claim
    <3>3. new.status = "claimed" /\ new.holder = w
      BY <1>0, <3>2 DEF Event
    <3>4. QED
      BY <1>8, <2>2, <3>1, <3>3
  <2>3. QED
    BY <2>1, <2>2
<1>9. ASSUME NEW c \in Kinds \X Stages, Age(c)
      PROVE  Kept
  BY <1>0, <1>9 DEF Age, Event
<1>10. ASSUME NEW c \in Kinds \X Stages, Redrive(c)
      PROVE  Kept
  <2>1. CASE c # e
    BY <1>0, <1>10, <2>1 DEF Redrive
  <2>2. CASE c = e
    BY <1>0, <1>10, <2>2 DEF Redrive, Event
  <2>3. QED
    BY <2>1, <2>2
<1>11. ASSUME NEW d \in Deliveries, NEW t \in Stages, NEW fact \in Facts, Receive(d, t, fact)
      PROVE  Kept
  <2>1. new = old
    BY <1>0, <1>11 DEF Receive
  <2>2. QED
    BY <2>1
<1>12. ASSUME PrepareSecond
       PROVE  Kept
  <2>1. e # <<"reconcile", 2>>
    OBVIOUS
  <2>2. new = old
    BY <1>0, <1>12, <2>1 DEF PrepareSecond
  <2>3. QED
    BY <2>2
<1>13. ASSUME NEW w \in Workers, Crash(w)
      PROVE  events' = events
  BY <1>13 DEF Crash
<1>14. ASSUME NEW d \in Deliveries, CloseDelivery(d)
      PROVE  events' = events
  BY <1>14 DEF CloseDelivery
<1>15. ASSUME BindSecond \/ RejectSecond \/ CancelBegin \/ CancelCommit \/ UNCHANGED vars
       PROVE  events' = events
  BY <1>15 DEF BindSecond, RejectSecond, CancelBegin, CancelCommit, vars
<1>16. SameAnswer \/ \E t \in Stages, fact \in Facts : ApplyTerminal(t, fact)
  <2>1. CASE steps' = steps
    BY <2>1
  <2>2. CASE CancelCommit
    BY <2>2 DEF CancelCommit
  <2>3. QED
    BY <2>1, <2>2, SlotKept, DocumentSteps DEF Documents
<1>17. ASSUME events' = events
       PROVE  Kept
  BY <1>17
<1> HIDE DEF Kept, SameAnswer
<1>18. Kept \/ \E t \in Stages, fact \in Facts : ApplyTerminal(t, fact)
  BY <1>2, <1>3, <1>4, <1>5, <1>6, <1>7, <1>8, <1>9, <1>10, <1>11, <1>12, <1>13, <1>14, <1>15,
     <1>17 DEF Next
<1>19. (new = NewEvent /\ steps'[s].terminal.status \in Failures) \/ (SameAnswer /\ Kept)
  BY <1>1, <1>16, <1>18
<1>20. QED
  BY <1>19 DEF Kept, SameAnswer

\* The event of a failed step that is not settled is abandoned only when a
\* contradiction or an end forbids the settlement.
LEMMA NothingToSettle ==
    ASSUME TerminalAssumption, TypeOK, Position, MoneyFollows, AnswersBound, SettlementsMeant,
           NEW w \in Workers, work[w].event[1] = "settle", Holds(w),
           ~LoadableFailure(StageOf(w)) \/ ~CanSettle(StageOf(w))
    PROVE  steps[StageOf(w)].quarantined \/ Ended(creation)
<1> DEFINE s == StageOf(w)
<1>1. s \in Stages /\ EventOf(w) = <<"settle", s>>
  BY Working DEF EventOf, StageOf, TypeOK
<1>2. steps[s].terminal.status \in Failures
  BY <1>1 DEF Holds, SettlementsMeant
<1>3. SUFFICES ASSUME ~steps[s].quarantined, ~Ended(creation)
      PROVE  LoadableFailure(s) /\ CanSettle(s)
  OBVIOUS
<1>4. PreTerminal
  BY <1>3 DEF Ended, PreTerminal, TypeOK
<1>5. LoadableFailure(s) /\ GateOpen
  BY <1>2, <1>3, <1>4 DEF LoadableFailure, GateOpen, MoneyFollows, PreTerminal
<1>6. steps[s].terminal # Nothing /\ steps[s].terminal.status # "completed"
  BY <1>2, Answered
<1>7. CASE FirstUnderway
  <2>1. s = 1
    BY <1>1, <1>6, <1>7 DEF FirstUnderway, AnswersBound, Stages
  <2>2. QED
    BY <1>5, <1>7, <2>1 DEF CanSettle, FirstUnderway, OneStep, Unactivated, Waiting
<1>8. CASE SecondUnderway
  <2>1. s = 2
    BY <1>1, <1>6, <1>8 DEF SecondUnderway, FrameOwned, Stages
  <2>2. steps[2].job = "bound"
    BY <1>6, <2>1 DEF AnswersBound
  <2>3. QED
    BY <1>5, <1>8, <2>1, <2>2 DEF CanSettle, SecondUnderway, FrameOwned, Activated
<1>9. QED
  BY <1>4, <1>7, <1>8 DEF Position, Succeeded, Failed, PreTerminal

\* A settlement event keeps belonging to a failed step.
LEMMA NextSettlementsMeant ==
    ASSUME TerminalAssumption, TypeOK, Position, MoneyFollows, AnswersBound, SettlementsMeant,
           [Next]_vars
    PROVE  SettlementsMeant'
<1>1. ASSUME NEW s \in Stages, events'[<<"settle", s>>].status # "absent"
      PROVE  steps'[s].terminal.status \in Failures
  <2>1. CASE events[<<"settle", s>>].status # "absent"
    <3>1. steps[s].terminal.status \in Failures /\ steps[s].terminal # Nothing
      BY <2>1, Answered DEF SettlementsMeant
    <3>2. QED
      BY <3>1, Lasting
  <2>2. CASE events[<<"settle", s>>].status = "absent"
    BY <1>1, <2>2, SettleEventSteps
  <2>3. QED
    BY <2>1, <2>2
<1>2. ASSUME NEW w \in Workers, work'[w].event[1] = "settle"
      PROVE  /\ work'[w].phase \in {"claimed", "settle", "retry", "abandon"}
             /\ work'[w].phase = "abandon" /\ Holds(w)' =>
                   steps'[StageOf(w)'].quarantined \/ Ended(creation)'
  <2> DEFINE s == StageOf(w)
  <2>1. CASE work'[w] = work[w]
    <3>1. /\ work[w].event[1] = "settle" /\ StageOf(w)' = s
          /\ EventOf(w) = <<"settle", s>> /\ EventOf(w)' = <<"settle", s>> /\ s \in Stages
      BY <1>2, <2>1, Working DEF StageOf, EventOf, TypeOK
    <3>2. ASSUME work[w].phase = "abandon", Holds(w)'
          PROVE  steps[s].quarantined \/ Ended(creation) \/ Ended(creation)'
      <4>1. /\ events'[<<"settle", s>>].status = "claimed"
            /\ events'[<<"settle", s>>].holder = w
        BY <3>1, <3>2 DEF Holds
      <4>2. NoOne # w
        BY DEF TerminalAssumption
      <4>3. ~Claim(w, <<"settle", s>>)
        BY <3>2 DEF Claim
      <4>4. NewEvent.status # "claimed"
        BY DEF NewEvent, NoEvent
      <4>5. \/ /\ events'[<<"settle", s>>].status = events[<<"settle", s>>].status
               /\ events'[<<"settle", s>>].holder = events[<<"settle", s>>].holder
            \/ \E v \in Workers : Claim(v, <<"settle", s>>) /\ events'[<<"settle", s>>].holder = v
            \/ Ended(creation)'
        BY <3>1, <4>1, <4>2, <4>4, SettleEventSteps
      <4>6. Holds(w) \/ Ended(creation)'
        BY <3>1, <4>1, <4>3, <4>5 DEF Holds
      <4>7. QED
        BY <3>1, <3>2, <4>6 DEF SettlementsMeant
    <3>3. QED
      BY <2>1, <3>1, <3>2, Lasting DEF SettlementsMeant
  <2>2. CASE work'[w] # work[w]
    <3>1. Idle.event[1] # "settle"
      BY DEF Idle
    <3>2. CASE \E e \in Kinds \X Stages : work'[w] = [phase |-> "claimed", event |-> e]
      BY <3>2
    <3>3. CASE \E phase \in Phases :
                /\ Goto(w, phase)
                /\ work'[w] = [phase |-> phase, event |-> work[w].event]
                /\ LoadReconcile(w) \/ LoadMaterialize(w) \/ LoadSettle(w)
                   \/ LookUpAnswered(w) \/ LookUpInconclusive(w) \/ Copy(w) \/ CopyFails(w)
                   \/ FlagUploadPending(w) \/ FlagFails(w) \/ PublishFails(w) \/ SettleFails(w)
      <4>1. PICK phase \in Phases :
                /\ Goto(w, phase)
                /\ work'[w] = [phase |-> phase, event |-> work[w].event]
                /\ LoadReconcile(w) \/ LoadMaterialize(w) \/ LoadSettle(w)
                   \/ LookUpAnswered(w) \/ LookUpInconclusive(w) \/ Copy(w) \/ CopyFails(w)
                   \/ FlagUploadPending(w) \/ FlagFails(w) \/ PublishFails(w) \/ SettleFails(w)
        BY <3>3
      <4>2. work[w].event[1] = "settle" /\ StageOf(w)' = s /\ EventOf(w)' = EventOf(w)
        BY <1>2, <4>1 DEF StageOf, EventOf
      <4>3. LoadSettle(w) \/ SettleFails(w)
        BY <4>1, <4>2 DEF LoadReconcile, LoadMaterialize, LookUpAnswered, LookUpInconclusive,
                          Copy, CopyFails, FlagUploadPending, FlagFails, PublishFails, In
      <4>4. events' = events
        BY <4>3 DEF LoadSettle, SettleFails, Local
      <4>5. Holds(w)' = Holds(w)
        BY <4>2, <4>4 DEF Holds
      <4>6. \A other \in Phases : Goto(w, other) => work'[w].phase = other
        BY DEF Goto, TypeOK
      <4>7. {"settle", "abandon", "retry"} \subseteq Phases
        BY DEF Phases
      <4>8. CASE LoadSettle(w)
        <5>1. \/ work'[w].phase = IF LoadableFailure(s) THEN "settle" ELSE "abandon"
              \/ work'[w].phase = "retry"
          BY <4>6, <4>7, <4>8 DEF LoadSettle
        <5>2. work'[w].phase = "abandon" => ~LoadableFailure(s)
          BY <5>1
        <5>3. QED
          BY <4>2, <4>5, <5>1, <5>2, NothingToSettle, Lasting, Working
      <4>9. CASE SettleFails(w)
        <5>1. \/ ~(Holds(w) /\ CanSettle(s)) /\ work'[w].phase = "abandon"
              \/ work'[w].phase = "retry"
          BY <4>6, <4>7, <4>9 DEF SettleFails
        <5>2. QED
          BY <4>2, <4>5, <5>1, NothingToSettle, Lasting, Working
      <4>10. QED
        BY <4>3, <4>8, <4>9
    <3>4. QED
      BY <1>2, <2>2, <3>1, <3>2, <3>3, NewPlace
  <2>3. QED
    BY <2>1, <2>2
<1>3. QED
  BY <1>1, <1>2 DEF SettlementsMeant

\* No step gives up a settlement that still has something to refund.
LEMMA NextRefundNotLost ==
    ASSUME TerminalAssumption, IInv, [Next]_vars
    PROVE  RefundNotLost'
<1> USE DEF IInv
<1>1. SUFFICES ASSUME NEW s \in Stages, steps'[s].terminal.status \in Failures,
                      ~steps'[s].quarantined, ~Ended(creation)'
               PROVE  events'[<<"settle", s>>].status \in {"pending", "claimed", "needs_attention"}
  BY DEF RefundNotLost
<1>2. ~steps[s].quarantined /\ ~Ended(creation)
  BY <1>1, Lasting
<1>3. NewEvent.status = "pending"
  BY DEF NewEvent, NoEvent
<1>4. CASE steps'[s].terminal # steps[s].terminal
  BY <1>1, <1>3, <1>4, SettleEventSteps
<1>5. CASE steps'[s].terminal = steps[s].terminal
  <2>1. events[<<"settle", s>>].status \in {"pending", "claimed", "needs_attention"}
    BY <1>1, <1>2, <1>5 DEF RefundNotLost
  <2>2. QED
    BY <1>1, <1>2, <1>3, <2>1, SettleEventSteps
<1>6. QED
  BY <1>4, <1>5
----------------------------------------------------------------------------
\* The inductive invariant holds initially.
LEMMA InitInvariant ==
    ASSUME TerminalAssumption, Init
    PROVE  IInv
<1>0. PICK second \in {"absent", "blocked"} :
        /\ steps = <<NewStep("submitted", "bound"), NewStep(second, "none")>>
        /\ recipe = IF second = "absent" THEN "none" ELSE "pending"
  BY DEF Init
<1>1. /\ steps[1].submit = "submitted" /\ steps[1].job = "bound"
      /\ steps[2].submit = second /\ steps[2].job = "none"
      /\ \A s \in Stages : steps[s].terminal = Nothing /\ ~steps[s].quarantined
  BY <1>0 DEF NewStep, Stages
<1>2. FirstUnderway /\ MoneyFollows
  BY <1>0, <1>1 DEF Init, FirstUnderway, PreTerminal, MoneyFollows
<1>3. \A w \in Workers : work[w].phase = "idle" /\ work[w].event[1] = "reconcile"
  BY DEF Init, Idle
<1>4. AnswersBound
  BY <1>1, <1>3 DEF AnswersBound, In, Stages
<1>5. \A s \in Stages : events[<<"settle", s>>].status = "absent"
  BY DEF Init, NoEvent, Kinds
<1>6. SettlementsMeant
  BY <1>3, <1>5 DEF SettlementsMeant
<1>7. RefundNotLost
  BY <1>1, Answered DEF RefundNotLost
<1>8. QED
  BY <1>2, <1>4, <1>6, <1>7, InitType DEF IInv, Position

\* The inductive invariant: where a creation stands, with its reservation, its
\* answers and its settlement events.
THEOREM InvariantHolds == Spec => []IInv
<1>1. Init => IInv
  BY InitInvariant, TerminalAssumption
<1>2. IInv /\ [Next]_vars => IInv'
  <2> SUFFICES ASSUME IInv, [Next]_vars
      PROVE  IInv'
    OBVIOUS
  <2>1. TypeOK'
    BY NextType, TerminalAssumption DEF IInv
  <2>2. Position' /\ MoneyFollows'
    BY NextPosition, TerminalAssumption DEF IInv
  <2>3. AnswersBound'
    BY NextAnswersBound, TerminalAssumption DEF IInv
  <2>4. SettlementsMeant'
    BY NextSettlementsMeant, TerminalAssumption DEF IInv
  <2>5. RefundNotLost'
    BY NextRefundNotLost, TerminalAssumption
  <2>6. QED
    BY <2>1, <2>2, <2>3, <2>4, <2>5 DEF IInv
<1>3. QED
  BY <1>1, <1>2, PTL DEF Spec

\* A failed job can always still be refunded: no interleaving of deliveries,
\* look-ups, settlement workers, crashes, expired windows and re-drives ends its
\* settlement event first.
THEOREM RefundsNotLost == Spec => []RefundNotLost
<1>1. IInv => RefundNotLost
  BY DEF IInv
<1>2. QED
  BY <1>1, InvariantHolds, PTL

\* What is shown, what runs and what was paid agree: a result belongs to a
\* creation that succeeded, a second step to an owned frame, and a refund leaves
\* nothing to run.
THEOREM GraphIsConsistent == Spec => []GraphConsistent
<1>1. IInv => GraphConsistent
  <2> SUFFICES ASSUME Position, MoneyFollows, steps \in [Stages -> Step]
      PROVE  GraphConsistent
    BY DEF IInv, TypeOK
  <2>0. Stages = {1, 2}
    BY DEF Stages
  <2>1. CASE FirstUnderway
    BY <2>0, <2>1 DEF GraphConsistent, FirstUnderway, MoneyFollows, PreTerminal
  <2>2. CASE SecondUnderway
    BY <2>0, <2>2 DEF GraphConsistent, SecondUnderway, FrameOwned, MoneyFollows, PreTerminal
  <2>3. CASE Succeeded
    BY <2>0, <2>3 DEF GraphConsistent, Succeeded, FrameOwned, MoneyFollows
  <2>4. CASE Failed
    BY <2>0, <2>4 DEF GraphConsistent, Failed, FrameOwned
  <2>5. QED
    BY <2>1, <2>2, <2>3, <2>4 DEF Position
<1>2. QED
  BY <1>1, InvariantHolds, PTL

\* A step never acts on a contradicted answer, and the first answer stands.
LEMMA NextAnswerStands ==
    ASSUME TerminalAssumption, IInv, [Next]_vars, NEW s \in Stages
    PROVE  /\ steps[s].terminal # Nothing => steps'[s].terminal = steps[s].terminal
           /\ steps[s].quarantined =>
                steps'[s].quarantined /\ steps'[s].submit = steps[s].submit
<1> USE DEF IInv
<1>0. 1 \in Stages /\ 2 \in Stages
  BY DEF Stages
<1>1. SUFFICES ASSUME steps[s].quarantined
               PROVE  steps'[s].submit = steps[s].submit
  BY Lasting
<1>2. CASE UNCHANGED Documents
  BY <1>2 DEF Documents
<1>3. ASSUME NEW t \in Stages, NEW fact \in Facts, ApplyTerminal(t, fact)
      PROVE  steps'[s].submit = steps[s].submit
  BY <1>3, ApplyTerminalEffect
<1>4. ASSUME NEW w \in Workers, FlagUploadPending(w)
      PROVE  steps'[s].submit = steps[s].submit
  BY <1>4 DEF FlagUploadPending, TypeOK, Step
<1>5. ASSUME NEW w \in Workers, Publish(w)
      PROVE  steps'[s].submit = steps[s].submit
  <2>1. s # StageOf(w)
    BY <1>1, <1>5 DEF Publish, CanPublish, LoadableResult
  <2>2. CASE PublishFinal(StageOf(w))
    BY <2>1, <2>2 DEF PublishFinal, TypeOK, Step
  <2>3. CASE ActivateSecondStep(StageOf(w))
    <3>1. s = 2 /\ Waiting
      BY <1>5, <2>1, <2>3 DEF ActivateSecondStep, Publish, CanPublish, LoadableResult, Stages, OneStep
    <3>2. steps[2].job # "bound"
      BY <3>1 DEF Waiting, Position, FirstUnderway, SecondUnderway, Succeeded, Failed, OneStep
    <3>3. QED
      BY <1>1, <3>1, <3>2 DEF AnswersBound
  <2>4. QED
    BY <1>5, <2>2, <2>3 DEF Publish
<1>6. ASSUME NEW w \in Workers, SettleFailure(w)
      PROVE  steps'[s].submit = steps[s].submit
  <2>1. s # StageOf(w)
    BY <1>1, <1>6 DEF SettleFailure, CanSettle, LoadableFailure
  <2>2. CASE s = 2 /\ ~OneStep
    <3>1. StageOf(w) = 1 /\ Unactivated
      BY <1>6, <2>1, <2>2, Working DEF SettleFailure, CanSettle, Stages
    <3>2. steps[2].job # "bound"
      BY <3>1 DEF Unactivated, Waiting, Position, FirstUnderway, SecondUnderway, Succeeded, Failed, OneStep
    <3>3. QED
      BY <1>1, <2>2, <3>2 DEF AnswersBound
  <2>3. CASE ~(s = 2 /\ ~OneStep)
    BY <1>6, <2>1, <2>3 DEF SettleFailure, SettledSteps
  <2>4. QED
    BY <2>2, <2>3
<1>7. CASE PrepareSecond \/ BindSecond \/ RejectSecond
  <2>1. steps[2].submit \in {"ready", "submitting"}
    BY <1>7 DEF PrepareSecond, BindSecond, RejectSecond
  <2>2. s # 2
    BY <1>1, <2>1, SecondWaiting DEF AnswersBound
  <2>3. QED
    BY <1>0, <1>7, <2>2 DEF PrepareSecond, BindSecond, RejectSecond, TypeOK, Step
<1>8. CASE CancelCommit
  BY <1>8 DEF CancelCommit
<1>9. QED
  BY <1>2, <1>3, <1>4, <1>5, <1>6, <1>7, <1>8, DocumentSteps

\* The first terminal answer of a job stays its answer, and a step whose answer
\* has been contradicted is never published, activated or refunded on it.
THEOREM FirstAnswersStand == Spec => FirstAnswerStands
<1>1. IInv /\ [Next]_vars =>
        [\A s \in Stages :
            /\ steps[s].terminal # Nothing => steps'[s].terminal = steps[s].terminal
            /\ steps[s].quarantined =>
                steps'[s].quarantined /\ steps'[s].submit = steps[s].submit]_vars
  BY NextAnswerStands, TerminalAssumption
<1>2. QED
  BY <1>1, InvariantHolds, PTL DEF Spec, FirstAnswerStands

\* The status a creation ended with stays.
LEMMA EndKept ==
    ASSUME TypeOK, AnswersBound, Ended(creation), [Next]_vars
    PROVE  creation' = creation
<1>1. ~PreTerminal
  BY DEF Ended, PreTerminal
<1>2. ASSUME NEW w \in Workers, FlagUploadPending(w) \/ Publish(w) \/ SettleFailure(w)
      PROVE  creation' = creation
  BY <1>1, <1>2 DEF FlagUploadPending, Publish, CanPublish, LoadableResult, SettleFailure,
                    CanSettle, LoadableFailure
<1>3. CASE PrepareSecond \/ BindSecond
  BY <1>3 DEF PrepareSecond, BindSecond
<1>4. CASE RejectSecond \/ CancelCommit
  BY <1>4 DEF RejectSecond, CancelCommit, Ended
<1>5. QED
  BY <1>2, <1>3, <1>4, DocumentSteps DEF Documents

\* The pipeline implements the bargain: the reservation is kept with a result,
\* returned without one, in the step that tells the owner, once.
THEOREM ChargeImplemented == Spec => ImplementsCharge
<1> DEFINE money == IF reservation.status = "reversed" THEN "returned"
                    ELSE IF reservation.gate = "published" THEN "kept" ELSE "held"
           story == IF creation = "succeeded" THEN "delivered"
                    ELSE IF PreTerminal THEN "open" ELSE "failed"
<1>0. IInv => /\ creation = "succeeded" => money = "kept" /\ story = "delivered"
              /\ PreTerminal => money = "held" /\ story = "open"
              /\ ~PreTerminal /\ creation # "succeeded" => money = "returned" /\ story = "failed"
  BY DEF IInv, MoneyFollows, PreTerminal
<1>1. IInv' => /\ creation' = "succeeded" => money' = "kept" /\ story' = "delivered"
               /\ PreTerminal' => money' = "held" /\ story' = "open"
               /\ ~PreTerminal' /\ creation' # "succeeded" => money' = "returned" /\ story' = "failed"
  BY DEF IInv, MoneyFollows, PreTerminal
<1>2. Init => Bargain!Init
  BY DEF Init, Bargain!Init, PreTerminal
<1>3. IInv /\ IInv' /\ [Next]_vars => [Bargain!Next]_<<money, story>>
  <2> SUFFICES ASSUME IInv, IInv', [Next]_vars
      PROVE  [Bargain!Next]_<<money, story>>
    OBVIOUS
  <2>1. CASE PreTerminal /\ PreTerminal'
    BY <1>0, <1>1, <2>1
  <2>2. CASE PreTerminal /\ ~PreTerminal'
    <3>1. CASE creation' = "succeeded"
      BY <1>0, <1>1, <2>2, <3>1 DEF Bargain!Next, Bargain!Deliver, Bargain!Decide
    <3>2. CASE creation' # "succeeded"
      BY <1>0, <1>1, <2>2, <3>2 DEF Bargain!Next, Bargain!Refund, Bargain!Decide
    <3>3. QED
      BY <3>1, <3>2
  <2>3. CASE ~PreTerminal
    <3>1. Ended(creation)
      BY <2>3 DEF Ended, PreTerminal, IInv, TypeOK
    <3>2. creation' = creation
      BY <3>1, EndKept DEF IInv
    <3>3. ~PreTerminal'
      BY <2>3, <3>2 DEF PreTerminal
    <3>4. QED
      BY <1>0, <1>1, <2>3, <3>2, <3>3
  <2>4. QED
    BY <2>1, <2>2, <2>3
<1>4. QED
  BY <1>2, <1>3, InvariantHolds, PTL DEF Spec, ImplementsCharge, Bargain!Spec
=============================================================================
