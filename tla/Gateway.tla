------------------------------ MODULE Gateway -------------------------------
(***************************************************************************)
(* The gateway in front of the old Node service.  A request goes to a      *)
(* local handler when its route is one the gateway knows, the handler is   *)
(* installed, the route switch (a document read again for every request)   *)
(* enables the route, the body is one the local handler understands and    *)
(* the client's app is this one's; otherwise it is forwarded to Node.      *)
(***************************************************************************)
EXTENDS Integers, FiniteSets

CONSTANTS
    Installed,       \* sets of handlers a process may be started with
    Scopes,          \* whether the client's app is resolved: a set of BOOLEAN
    Documents,       \* route switch documents operators write
    ClientRequests,  \* what clients send
    PurchaseKeys,    \* idempotency keys of the requests that create something
    MaxWrites,       \* bound on the documents written
    MaxRouted        \* bound on the requests explored

VARIABLES
    handlers,     \* the handlers of this process
    scoped,       \* does this process resolve the client's app?
    document,     \* the route switch as it can be read now
    written,      \* the routes of the document last written whole
    routed,       \* the request being routed
    did,          \* for every key, where it was executed: here and at Node
    gatewayCount  \* bounds: documents written, requests sent

\* What costs its sender something, and is sent again under its key as it was.
Purchases == {"image create", "video create", "checkout"}
ASSUME GatewayAssumption ==
    /\ \A d \in Documents : d.whole
    /\ \A r \in ClientRequests : r.path \in Purchases => r.key \in PurchaseKeys
    /\ \A r, s \in ClientRequests : {r.path, s.path} \subseteq Purchases /\ r.key = s.key => r = s

gatewayVars == <<handlers, scoped, document, written, routed, did, gatewayCount>>
-----------------------------------------------------------------------------
\* Routes the gateway decides on by path alone, before and without the switch.
Unswitched == {"generation callback", "provider callback", "image catalog", "video catalog", "homepage", "admin"}

\* Routes the switch document may name; nothing else in it is known.
Payment == {"payment callback", "checkout", "order status"}
Creates == {"image create", "video create"}
Reads == {"image statuses", "video statuses", "image detail", "video detail"}
Owned == {"stream", "works", "cancel", "wallet", "auth", "feedback", "notifications", "upload", "media"}
Switched == Payment \cup Creates \cup Reads \cup Owned \cup {"ping"}

\* Internal callers and the administration have no client app.
Unscoped == {"generation callback", "provider callback", "payment callback", "admin"}

\* A query where none belongs, or an encoded path, makes most routes another one.
Exact(r) == r.shape = "exact" \/ r.path \in {"admin", "stream"}

HandlerOf(path) ==
    CASE path \in {"image catalog", "image create", "image statuses", "image detail"} -> "image"
      [] path \in {"video catalog", "homepage", "video create", "video statuses", "video detail"} -> "video"
      [] path \in {"checkout", "order status"} -> "payment entry"
      [] OTHER -> path
-----------------------------------------------------------------------------
\* A document is taken only whole: one object of known routes and nothing after it.
Readable(d) == d.whole /\ d.routes \subseteq Switched

SwitchedOn(path) == Readable(document) /\ path \in document.routes
-----------------------------------------------------------------------------
\* The fields of a body the local handlers understand, and the values they take.
Present(b) == DOMAIN b \ {"size"}
ObjectBody(b) == b.size # "large"

TextToImage(b) ==
    /\ ObjectBody(b)
    /\ Present(b) \subseteq {"prompt", "negativePrompt", "aspectRatio", "operation", "presetTags", "optimizePrompt"}
    /\ "prompt" \in Present(b) /\ b.prompt = "text"
    /\ "operation" \in Present(b) => b.operation = "generate"
    /\ "presetTags" \in Present(b) => b.presetTags = "none"
    /\ "optimizePrompt" \in Present(b) => b.optimizePrompt = "false"

ImageEdit(b) ==
    /\ ObjectBody(b)
    /\ Present(b) \subseteq {"templateId", "inputImages", "prompt", "negativePrompt", "operation",
                             "optimizePrompt", "aspectRatio", "presetTags"}
    /\ {"templateId", "inputImages"} \subseteq Present(b)
    /\ b.templateId = "text" /\ b.inputImages = "one https"
    /\ "operation" \in Present(b) => b.operation = "generate"
    /\ "presetTags" \in Present(b) => b.presetTags = "own template"
    /\ "optimizePrompt" \in Present(b) => b.optimizePrompt = "false"
    /\ "aspectRatio" \in Present(b) => b.aspectRatio = "ratio"

Video(b) ==
    /\ ObjectBody(b)
    /\ Present(b) \subseteq {"templateId", "imageUrl", "prompt", "negativePrompt", "aspectRatio",
                             "durationSeconds", "enableAudio"}
    /\ "templateId" \in Present(b) /\ b.templateId = "text"
    /\ ("imageUrl" \in Present(b)) # ("prompt" \in Present(b))
    /\ "imageUrl" \in Present(b) => b.imageUrl = "one https"
    /\ "prompt" \in Present(b) => b.prompt = "text"
    /\ "negativePrompt" \in Present(b) => b.negativePrompt = ""
    /\ "aspectRatio" \in Present(b) => b.aspectRatio = ""
    /\ "durationSeconds" \in Present(b) => b.durationSeconds \in {5, 10, 15}
    /\ "enableAudio" \in Present(b) => b.enableAudio = "false"

\* A batch of statuses is ours when every id has the form of ours and none is repeated.
StatusBatch(b) == ObjectBody(b) /\ Present(b) = {"ids"} /\ b.ids = "ours"

Candidate(r) ==
    CASE r.path = "image create" -> TextToImage(r.body) \/ ImageEdit(r.body)
      [] r.path = "video create" -> Video(r.body)
      [] r.path \in {"image statuses", "video statuses"} -> StatusBatch(r.body)
      [] OTHER -> TRUE

TakenHere(r) ==
    /\ Exact(r)
    /\ HandlerOf(r.path) \in handlers \/ r.path = "ping"
    /\ r.path \in Unswitched \/ (r.path \in Switched /\ SwitchedOn(r.path))
    /\ Candidate(r)

\* allowClientApp: one platform and one identifier, of the app this process serves.
AppAllowed(r) == r.path \in Unscoped \/ ~scoped \/ r.app = "own"
-----------------------------------------------------------------------------
NoRequest == [path |-> "none"]
\* The request, with the routes the last whole document enabled when it came.
NoRouting == [step |-> "idle", r |-> NoRequest, enabled |-> {}, by |-> {}, code |-> 0]

GatewayInit ==
    /\ handlers \in Installed /\ scoped \in Scopes
    /\ document \in Documents
    /\ written = document.routes
    /\ routed = NoRouting
    /\ did = [k \in PurchaseKeys |-> [here |-> 0, node |-> 0]]
    /\ gatewayCount = [writes |-> 0, sends |-> 0]

\* Which side takes a request is decided once, from what can be read at that moment.
Route(r) ==
    /\ routed.step \in {"idle", "answered"} /\ gatewayCount.sends < MaxRouted
    /\ routed' = [NoRouting EXCEPT !.r = r, !.enabled = written,
                       !.step = IF ~TakenHere(r) THEN "forward"
                                ELSE IF ~AppAllowed(r) THEN "denied"
                                ELSE IF r.path = "ping" THEN "admission" ELSE "serve"]
    /\ gatewayCount' = [gatewayCount EXCEPT !.sends = @ + 1]
    /\ UNCHANGED <<handlers, scoped, document, written, did>>

Deny ==
    /\ routed.step = "denied"
    /\ routed' = [routed EXCEPT !.step = "answered", !.code = 403]
    /\ UNCHANGED <<handlers, scoped, document, written, did, gatewayCount>>

Executed(side) ==
    did' = IF routed.r.path \notin Purchases THEN did
           ELSE IF side = "here" THEN [did EXCEPT ![routed.r.key].here = 1]
           ELSE [did EXCEPT ![routed.r.key].node = 1]

\* Once a local handler has a request its answer is final, also when it failed:
\* Node is never asked after it.  A local create runs at most once for a key; a failure may come after it took effect.
Serve ==
    /\ routed.step = "serve"
    /\ \E code \in {200, 500} :
          routed' = [routed EXCEPT !.step = "answered", !.by = @ \cup {"here"}, !.code = code]
    /\ Executed("here") \/ (did' = did /\ routed'.code = 500)
    /\ UNCHANGED <<handlers, scoped, document, written, gatewayCount>>

\* The reverse proxy: Node's answer, or that it gave none in time or none at all.
Forward ==
    /\ routed.step = "forward"
    /\ \E code \in {200, 502, 504} :
          routed' = [routed EXCEPT !.step = "answered", !.by = @ \cup {"node"}, !.code = code]
    /\ Executed("node") \/ (did' = did /\ routed'.code # 200)
    /\ UNCHANGED <<handlers, scoped, document, written, gatewayCount>>

\* The ping is answered here only after Node has answered the same.
AdmitPing ==
    /\ routed.step = "admission"
    /\ \E code \in {200, 404, 502, 504}, same \in BOOLEAN :
          routed' = [routed EXCEPT !.step = "answered", !.code = code,
                                     !.by = IF code = 200 /\ same THEN {"node", "here"} ELSE {"node"}]
    /\ UNCHANGED <<handlers, scoped, document, written, did, gatewayCount>>
-----------------------------------------------------------------------------
\* An operator writes a document in place: for a while only part of it is there.
BeginWrite ==
    /\ gatewayCount.writes < MaxWrites /\ document.whole
    /\ \E d \in Documents : \E part \in SUBSET d.routes :
          document' = [whole |-> FALSE, routes |-> part, next |-> d.routes]
    /\ gatewayCount' = [gatewayCount EXCEPT !.writes = @ + 1]
    /\ UNCHANGED <<handlers, scoped, written, routed, did>>

EndWrite ==
    /\ ~document.whole
    /\ document' = [whole |-> TRUE, routes |-> document.next, next |-> {}]
    /\ written' = document.next
    /\ UNCHANGED <<handlers, scoped, routed, did, gatewayCount>>

GatewayNext ==
    \/ \E r \in ClientRequests : Route(r)
    \/ Deny \/ Serve \/ Forward \/ AdmitPing
    \/ BeginWrite \/ EndWrite

GatewaySpec == GatewayInit /\ [][GatewayNext]_gatewayVars
-----------------------------------------------------------------------------
\* A request being routed is one of the clients'; only an answered one has a code.
GatewayTypeOK ==
    /\ routed.step \in {"idle", "denied", "serve", "forward", "admission", "answered"}
    /\ routed.r \in ClientRequests \cup {NoRequest}
    /\ (routed.step = "answered") = (routed.code # 0)
    /\ document.whole => document.routes = written

\* A request is taken by one side only.  A local handler has only requests whose
\* route the document enabled, whole as it was last written (the switch fails
\* closed while it is rewritten), of the app this process serves; what it has
\* taken, it answers, also when it failed: Node never gets a checkout or a create
\* the gateway has begun, so that one purchase is not charged by both.  And the
\* administration, where it is installed, is never left to Node.
TakenByOne ==
    /\ routed.r.path # "ping" => routed.by # {"here", "node"}
    /\ routed.step = "serve" =>
          /\ routed.r.path \in Unswitched \cup routed.enabled
          /\ scoped /\ routed.r.path \notin Unscoped => routed.r.app = "own"
    /\ routed.step = "forward" /\ routed.r.path = "admin" => "admin" \notin handlers
    /\ routed.step = "forward" => routed.by = {}

\* A purchase or a creation, with all the retries of its client, is executed by
\* one side only, as long as operators leave the switch alone in between.
ExecutedOnce == gatewayCount.writes = 0 => \A k \in PurchaseKeys : did[k].here + did[k].node <= 1

\* What the split between the gateway and Node promises.
GatewaySafe == TakenByOne /\ ExecutedOnce
=============================================================================
