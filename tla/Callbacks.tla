----------------------------- MODULE Callbacks -----------------------------
(***************************************************************************)
(* The execution.v2 route of a generation: the client that posts a frozen  *)
(* execution and looks it up again, the verifier of signed callbacks, the  *)
(* linker and the store that settle a verified callback in one             *)
(* transaction, and the activation of a second step by the first one's     *)
(* result.  The execution service sends a callback as often as it likes,   *)
(* late, in any order and under a fresh or a repeated nonce.               *)
(*                                                                         *)
(* A creation has one step, or an opening frame followed by a video.       *)
(***************************************************************************)
EXTENDS Integers, FiniteSets

CONSTANTS
    Creations,
    TwoSteps,        \* creations whose result is a video made from a frame
    Nonces,
    Digests,         \* digests of the bytes of a callback
    Urls,            \* result addresses a callback may carry
    Inputs,          \* frozen inputs a creation's first step may ask for
    Skus(_),         \* models the contract allows for a capability
    RecipeOf(_),     \* the model a two-step creation's video is made with
    SafeUrl(_),      \* https, a host, no user information
    AssetUrl(_),     \* a safe address without a fragment
    Window,          \* how far a timestamp may be from the receiver's clock
    MaxClock,        \* bound: the clock
    MaxSent,         \* bound: callbacks the service sends
    NoFact

VARIABLES
    creation,        \* status of each creation
    step,            \* each step: status, version of its callback, job
    recipe,          \* the deferred recipe of each second step
    execution,       \* the frozen execution each step is to be submitted with
    asset,           \* result asset of each step
    receipt,         \* callback_receipts, by nonce
    refunds,         \* reversals of each creation's reservation
    job,             \* the service: what it holds of each step
    sent,            \* the service: callbacks under way, for ever
    clock

callbackVars == <<creation, step, recipe, execution, asset, receipt, refunds, job, sent, clock>>
-----------------------------------------------------------------------------
Sequence(c) == IF c \in TwoSteps THEN {1, 2} ELSE {1}
Steps == {<<c, n>> : c \in Creations, n \in {1, 2}} \ {<<c, 2>> : c \in Creations \ TwoSteps}
Capabilities == {"text_to_image", "image_edit", "image_to_video"}
MediaOf(capability) == IF capability = "image_to_video" THEN "video" ELSE "image"

\* The snapshot contract: a model of the capability and the assets it takes.
\* A text needs none, an edit at least one, a video exactly one first image.
AssetRoles == {"source_image", "opening_frame", "face_image", "garment_image", "reference_image", "guide_image"}
AssetsFit(e) ==
    /\ \A a \in e.assets : a.role \in AssetRoles /\ AssetUrl(a.url)
    /\ \A a \in e.assets : a.role = "reference_image" => e.sku = "ps-reference-v1"
    /\ CASE e.capability = "text_to_image" -> e.assets = {}
         [] e.capability = "image_edit" -> e.assets # {}
         [] OTHER -> /\ Cardinality({a \in e.assets : a.role \in {"opening_frame", "source_image"}}) = 1
                     /\ \A a \in e.assets : a.role \in {"opening_frame", "source_image", "reference_image"}
Compiles(e) == e.capability \in Capabilities /\ e.sku \in Skus(e.capability) /\ AssetsFit(e)

\* Binding the opening frame into a deferred recipe compiles the whole again.
BoundRecipe(c, url) ==
    [capability |-> "image_to_video", sku |-> RecipeOf(c), assets |-> {[role |-> "opening_frame", url |-> url]}]

Binds(c, url) == Compiles(BoundRecipe(c, url))

\* The kind of work a step does; a step not activated yet is a video.
Capability(s) == IF s[2] = 2 THEN "image_to_video" ELSE execution[s].capability

CreationStatuses == {"pending_submission", "cancelling", "succeeded", "generation_failed", "submission_failed"}
StepStatuses == {"blocked", "ready", "submitted", "succeeded", "generation_failed", "submission_failed"}

\* What a verified callback says; a failed or cancelled one has no result.
Facts == [step : Steps, job : Steps, capability : Capabilities,
          terminal : {"completed", "failed", "cancelled"},
          media : {"image", "video", NoFact}, url : Urls \cup {NoFact}, digest : Digests]

ASSUME CallbacksAssumption ==
    /\ TwoSteps \subseteq Creations
    /\ NoFact \notin Urls \cup Facts \cup Inputs \cup {BoundRecipe(c, url) : c \in TwoSteps, url \in Urls}
    /\ MaxClock \in Nat

CallbacksTypeOK ==
    /\ creation \in [Creations -> CreationStatuses]
    /\ step \in [Steps -> [status : StepStatuses, version : {0, 2}, job : Steps \cup {NoFact}]]
    /\ recipe \in [TwoSteps -> {"pending", "consumed"}]
    /\ \A s \in Steps : execution[s] = NoFact <=> (s[2] = 2 /\ recipe[s[1]] = "pending")
    /\ asset \in [Steps -> Urls \cup {NoFact}]
    /\ \A n \in Nonces : receipt[n] # NoFact => receipt[n] \in Facts
    /\ refunds \in [Creations -> 0..2]
    /\ job \in [Steps -> {"none", "running", "completed", "failed", "cancelled", "rejected"}]
    /\ clock \in 0..MaxClock

CallbacksInit ==
    /\ creation = [c \in Creations |-> "pending_submission"]
    /\ step = [s \in Steps |-> [status |-> IF s[2] = 2 THEN "blocked" ELSE "ready",
                                version |-> 0, job |-> NoFact]]
    /\ recipe = [c \in TwoSteps |-> "pending"]
    /\ execution \in {e \in [Steps -> {i \in Inputs : Compiles(i)} \cup {NoFact}] :
            \A s \in Steps : IF s[2] = 2 THEN e[s] = NoFact
                              ELSE e[s] # NoFact /\ (s[1] \in TwoSteps => e[s].capability # "image_to_video")}
    /\ asset = [s \in Steps |-> NoFact]
    /\ receipt = [n \in Nonces |-> NoFact]
    /\ refunds = [c \in Creations |-> 0]
    /\ job = [s \in Steps |-> "none"]
    /\ sent = {}
    /\ clock = 0
-----------------------------------------------------------------------------
(* The client.  The service keeps one execution per external reference, the *)
(* step's identifier, so that a repeated post finds the first one.          *)

\* What an answer means to the caller: the service's status code and, of a
\* success, the status in its envelope.  An address not found is a rejection.
SubmitMeaning(code, status) ==
    CASE code \in {400, 403, 404} -> "rejected"
      [] code \in {200, 201} /\ status \in {"accepted", "queued", "dispatching", "processing", "completed"} -> "accepted"
      [] code \in {200, 201} /\ status = "rejected" -> "rejected"
      [] OTHER -> "unknown"

\* A lookup that fails proves nothing about the submission before it.
LookupMeaning(code, status) == IF code = 200 THEN SubmitMeaning(200, status) ELSE "unknown"

\* The status the service's envelope gives an execution.
EnvelopeStatus(j) == CASE j = "running" -> "processing" [] j = "none" -> "absent" [] OTHER -> j

BoundTo(s) == step' = [step EXCEPT ![s].status = "submitted", ![s].job = s]

RejectedAt(s) ==
    /\ step' = [step EXCEPT ![s].status = "submission_failed"]
    /\ creation' = [creation EXCEPT ![s[1]] = "submission_failed"]
    /\ refunds' = [refunds EXCEPT ![s[1]] = @ + 1]

\* An execution taken is bound, whatever the creation has become in the meantime;
\* a rejection ends a pending creation and refunds it, and misses any other.
ConcludedAs(s, meaning) ==
    \/ meaning = "accepted" /\ BoundTo(s) /\ UNCHANGED <<creation, refunds>>
    \/ meaning = "rejected" /\ creation[s[1]] = "pending_submission" /\ RejectedAt(s)
    \/ /\ meaning = "unknown" \/ (meaning = "rejected" /\ creation[s[1]] # "pending_submission")
       /\ UNCHANGED <<step, creation, refunds>>

\* A submission compiles the frozen execution again and posts it.  The service
\* takes it, or finds it taken, or rejects it, or is not found; the answer may be lost.
Submit(s) ==
    /\ step[s].status = "ready"
    /\ Compiles(execution[s])
    /\ \E taken \in IF job[s] = "none" THEN {"none", "running", "rejected"} ELSE {job[s]},
          code \in {201, 404, 502} :
        /\ (code = 404 => taken = "none") /\ (taken = "none" => code # 201)
        /\ job' = [job EXCEPT ![s] = taken]
        /\ ConcludedAs(s, SubmitMeaning(code, EnvelopeStatus(taken)))
    /\ UNCHANGED <<recipe, execution, asset, receipt, sent, clock>>

\* After an unknown outcome the step is looked up by its reference, and what is
\* found concludes it.
LookupExecution(s) ==
    /\ step[s].status = "ready"
    /\ \E code \in {200, 404} :
        /\ code = 200 <=> job[s] # "none"
        /\ ConcludedAs(s, LookupMeaning(code, EnvelopeStatus(job[s])))
    /\ UNCHANGED <<recipe, execution, asset, receipt, job, sent, clock>>

\* The user asks for a cancellation; on this route nothing else follows.
AskCancel(c) ==
    /\ creation[c] = "pending_submission"
    /\ creation' = [creation EXCEPT ![c] = "cancelling"]
    /\ UNCHANGED <<step, recipe, execution, asset, receipt, refunds, job, sent, clock>>
-----------------------------------------------------------------------------
(* The service: an execution ends once; its callback is sent again and      *)
(* again, each sending signed at its time under a nonce of the service's.   *)

Finish(s) ==
    /\ job[s] = "running"
    /\ \E outcome \in {"completed", "failed", "cancelled"} : job' = [job EXCEPT ![s] = outcome]
    /\ UNCHANGED <<creation, step, recipe, execution, asset, receipt, refunds, sent, clock>>

Outputs(s, url) == [role : {"result"}, media : {MediaOf(Capability(s))}, url : {url}]

\* The body names event and status separately, and lists the outputs.
Send(s) ==
    /\ job[s] \in {"running", "completed", "failed", "cancelled"}
    /\ Cardinality(sent) < MaxSent
    /\ \E n \in Nonces, d \in Digests, url \in Urls :
        sent' = sent \cup
            {[nonce |-> n, digest |-> d, at |-> clock, job |-> s, ref |-> s,
              capability |-> Capability(s), event |-> job[s], status |-> job[s],
              outputs |-> IF job[s] = "completed" THEN Outputs(s, url) ELSE {}]}
    /\ UNCHANGED <<creation, step, recipe, execution, asset, receipt, refunds, job, clock>>

Tick == clock < MaxClock /\ clock' = clock + 1
        /\ UNCHANGED <<creation, step, recipe, execution, asset, receipt, refunds, job, sent>>
-----------------------------------------------------------------------------
(* Verifying and parsing.                                                   *)

\* Within the window on either side of the receiver's clock.
Fresh(at) == clock - at \in -Window..Window

ResultOutputs(outputs) == {o \in outputs : o.role = "result"}

\* A completion carries exactly one output, the result, in the medium of the
\* capability; a failure or a cancellation carries no result.
ParsedResult(m) ==
    /\ Cardinality(m.outputs) = 1
    /\ \A o \in m.outputs : o.role = "result" /\ o.media = MediaOf(m.capability) /\ SafeUrl(o.url)
NoResultOutput(m) == ResultOutputs(m.outputs) = {}

Parsed(m) ==
    /\ m.event = m.status
    /\ m.capability \in Capabilities
    /\ \/ m.event = "completed" /\ ParsedResult(m)
       \/ m.event \in {"failed", "cancelled"} /\ NoResultOutput(m)

Verified(m) == Fresh(m.at) /\ Parsed(m)

\* The controlled facts of a verified callback; its step is its reference.
FactOf(m) ==
    [step |-> m.ref, job |-> m.job, capability |-> m.capability, terminal |-> m.event,
     media |-> IF m.event = "completed" THEN MediaOf(m.capability) ELSE NoFact,
     url |-> IF m.event = "completed" THEN (CHOOSE o \in m.outputs : TRUE).url ELSE NoFact,
     digest |-> m.digest]
-----------------------------------------------------------------------------
(* Linking and settling, in one transaction.                                *)

\* The owner of a callback is read from the stored step it names; the job and
\* the kind of work must be that step's.
Linked(f) == f.step \in Steps /\ step[f.step].job = f.job /\ Capability(f.step) = f.capability

\* A nonce is used up by the first callback that commits under it: repeated
\* it writes nothing: with the same facts it is already confirmed, with others
\* it is invalid.
NonceFree(n) == receipt[n] = NoFact
Receipted(n, f) == receipt' = [receipt EXCEPT ![n] = f]

\* Only a submitted step without a callback takes a terminal.
TakesTerminal(s) == step[s].status = "submitted" /\ step[s].version = 0
Terminated(s, status) == [step EXCEPT ![s].status = status, ![s].version = 2]

IsFinalStep(s) == \A n \in Sequence(s[1]) : n <= s[2]

\* A receipt of the same facts under another nonce.
OtherReceipt(n, f) == \E other \in Nonces \ {n} : receipt[other] = f
ExistingCompleted(n, f) ==
    /\ step[f.step].status = "succeeded" /\ step[f.step].version = 2
    /\ OtherReceipt(n, f)
    /\ asset[f.step] = f.url
ExistingFailed(n, f) ==
    /\ step[f.step].status = "generation_failed" /\ step[f.step].version = 2
    /\ OtherReceipt(n, f)

\* The last step's result completes a creation that is still pending.
CompleteFinal(n, f) ==
    /\ NonceFree(n) /\ TakesTerminal(f.step) /\ asset[f.step] = NoFact
    /\ IsFinalStep(f.step)
    /\ creation[f.step[1]] = "pending_submission"
    /\ Receipted(n, f)
    /\ step' = Terminated(f.step, "succeeded")
    /\ asset' = [asset EXCEPT ![f.step] = f.url]
    /\ creation' = [creation EXCEPT ![f.step[1]] = "succeeded"]
    /\ UNCHANGED <<recipe, execution, refunds>>

\* The first step's result is bound into the second step's recipe, which is
\* consumed, and the second step's submission is queued.
CompleteFrame(n, f) ==
    /\ NonceFree(n) /\ TakesTerminal(f.step) /\ asset[f.step] = NoFact
    /\ ~IsFinalStep(f.step)
    /\ LET c == f.step[1] IN
        /\ step[<<c, 2>>].status = "blocked"
        /\ recipe[c] = "pending"
        /\ Binds(c, f.url)
        /\ step' = [Terminated(f.step, "succeeded") EXCEPT ![<<c, 2>>].status = "ready"]
        /\ recipe' = [recipe EXCEPT ![c] = "consumed"]
        /\ execution' = [execution EXCEPT ![<<c, 2>>] = BoundRecipe(c, f.url)]
    /\ Receipted(n, f)
    /\ asset' = [asset EXCEPT ![f.step] = f.url]
    /\ UNCHANGED <<creation, refunds>>

\* A failure or a cancellation ends a pending creation and reverses its charge.
Fail(n, f) ==
    /\ NonceFree(n) /\ TakesTerminal(f.step)
    /\ creation[f.step[1]] = "pending_submission"
    /\ Receipted(n, f)
    /\ step' = Terminated(f.step, "generation_failed")
    /\ creation' = [creation EXCEPT ![f.step[1]] = "generation_failed"]
    /\ refunds' = [refunds EXCEPT ![f.step[1]] = @ + 1]
    /\ UNCHANGED <<recipe, execution, asset>>

\* Mistaken variant: the step is saved again as it was when its job was bound,
\* without the version that says its terminal was taken.
ConfirmSaved(n, f) ==
    /\ NonceFree(n) /\ ~TakesTerminal(f.step)
    /\ IF f.terminal = "completed" THEN ExistingCompleted(n, f) ELSE ExistingFailed(n, f)
    /\ Receipted(n, f)
    /\ step' = [step EXCEPT ![f.step].version = 0]
    /\ UNCHANGED <<creation, recipe, execution, asset, refunds>>

\* The terminal is there already: only the new receipt is kept.
Confirm(n, f) ==
    /\ NonceFree(n) /\ ~TakesTerminal(f.step)
    /\ IF f.terminal = "completed" THEN ExistingCompleted(n, f) ELSE ExistingFailed(n, f)
    /\ Receipted(n, f)
    /\ UNCHANGED <<creation, step, recipe, execution, asset, refunds>>

\* Handling a callback: anything that does not fit leaves no trace, and the
\* service sends again.
Handle(m) ==
    /\ Verified(m)
    /\ LET f == FactOf(m) IN
        /\ Linked(f)
        /\ \/ f.terminal = "completed" /\ (CompleteFinal(m.nonce, f) \/ CompleteFrame(m.nonce, f))
           \/ f.terminal # "completed" /\ Fail(m.nonce, f)
           \/ Confirm(m.nonce, f)
    /\ UNCHANGED <<job, sent, clock>>

CallbacksNext ==
    \/ \E s \in Steps : Submit(s) \/ LookupExecution(s) \/ Finish(s) \/ Send(s)
    \/ \E c \in Creations : AskCancel(c)
    \/ \E m \in sent : Handle(m)
    \/ Tick

-----------------------------------------------------------------------------
\* What a step, its result, its receipts, its creation and its refund say of
\* one another agrees whatever was repeated, reordered or came late: a result
\* belongs to a step that succeeded and to a receipt of that very address, a
\* refunded creation failed at one of its steps and was refunded once, and a
\* creation succeeded only if every step of it did.
TerminalsAgree ==
    /\ \A s \in Steps :
        /\ step[s].status = "succeeded" <=> asset[s] # NoFact
        /\ step[s].status = "succeeded" <=>
              \E n \in Nonces : /\ receipt[n] # NoFact
                                /\ receipt[n].step = s
                                /\ receipt[n].terminal = "completed"
                                /\ receipt[n].url = asset[s]
        /\ step[s].status = "generation_failed" <=>
              \E n \in Nonces : receipt[n] # NoFact /\ receipt[n].step = s /\ receipt[n].terminal # "completed"
    /\ \A c \in Creations :
        /\ creation[c] = "succeeded" <=> \A n \in Sequence(c) : step[<<c, n>>].status = "succeeded"
        /\ refunds[c] = IF \E n \in Sequence(c) : step[<<c, n>>].status \in {"generation_failed", "submission_failed"}
                        THEN 1 ELSE 0
        /\ refunds[c] = 1 <=> creation[c] \in {"generation_failed", "submission_failed"}

\* A second step leaves its block only with an execution made of the result
\* the first one keeps, once, and the worker can submit what was queued.
SecondOfFirst ==
    \A c \in TwoSteps :
        /\ recipe[c] = "consumed" <=> step[<<c, 2>>].status # "blocked"
        /\ recipe[c] = "consumed" =>
              /\ execution[<<c, 2>>].assets = {[role |-> "opening_frame", url |-> asset[<<c, 1>>]]}
              /\ Compiles(execution[<<c, 2>>])

\* A terminal that was taken is final: no later callback changes a step that
\* has one, its result, or what a nonce stands for.
TerminalStands ==
    [][/\ \A s \in Steps : step[s].version = 2 => step'[s] = step[s] /\ asset'[s] = asset[s]
       /\ \A n \in Nonces : receipt[n] # NoFact => receipt'[n] = receipt[n]]_callbackVars

CallbacksSpec == CallbacksInit /\ [][CallbacksNext]_callbackVars
\* What the two legacy callbacks may do to a creation.
CallbacksSafe == TerminalsAgree /\ SecondOfFirst

\* Terminals agree in every state and stand for ever: what a callback may do to
\* a creation, however often, late and out of order it comes.
CallbacksAgree == []CallbacksSafe /\ TerminalStands
=============================================================================
