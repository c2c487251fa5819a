------------------------------- MODULE MCUser -------------------------------
(***************************************************************************)
(* A small instance of what stands between a user and his generations: the *)
(* gateway, sessions, admission, the providers and their callbacks, the    *)
(* lists he reads and the links he follows.  These components share no     *)
(* variable, so a behaviour of all of them is one behaviour of each, and   *)
(* it is enough to explore each while the others rest: Init chooses the    *)
(* part that moves.                                                        *)
(***************************************************************************)
EXTENDS User, TLC

CONSTANTS Moving, u1, u2, p1, p2

VARIABLE part
-----------------------------------------------------------------------------
(* Admission.                                                               *)

MCKindOf == [p \in Products |-> "video"]
MCPrice == [p \in Products |-> IF p = "video5" THEN 1 ELSE 2]
MCDeltas == {-1, 1}
-----------------------------------------------------------------------------
(* The instances.                                                           *)

\* The same accounts as people who register and log in by password, and as two
\* guests who want the same external identity.
Members == INSTANCE Sessions WITH Devices <- {}
Guests == INSTANCE Sessions WITH Emails <- {}, Passwords <- {}, MaxChanges <- 1

Message(a) == [type |-> "bug", text |-> "long", attachments |-> a]

MCSubmissions == {Message("none"), Message("own"), Message("other's")}
-----------------------------------------------------------------------------
Setting ==
    [storage |-> "full", secret |-> TRUE, private |-> TRUE, redirect |-> TRUE, attachment |-> TRUE,
     shared |-> TRUE, age |-> 1, expiry |-> 0]
MCMediaConfigs ==
    {Setting, [Setting EXCEPT !.storage = "absent"], [Setting EXCEPT !.private = FALSE],
     [Setting EXCEPT !.shared = FALSE, !.expiry = 1], [Setting EXCEPT !.redirect = FALSE]}
AskObject ==
    [path |-> "object", method |-> "GET", key |-> "a", signed |-> "a", download |-> FALSE, webview |-> FALSE, range |-> FALSE]
AskImage == [path |-> "image", public |-> TRUE, source |-> 1, width |-> 0, height |-> 0, quality |-> 0, format |-> ""]
AskRefresh == [path |-> "refresh", host |-> "own", key |-> "a", signed |-> "a", download |-> TRUE]
MCMediaAsks ==
    {AskObject, [AskObject EXCEPT !.download = TRUE, !.webview = TRUE], [AskObject EXCEPT !.download = TRUE],
     [AskObject EXCEPT !.key = "b", !.signed = "b", !.range = TRUE], [AskObject EXCEPT !.key = "b"],
     [AskObject EXCEPT !.method = "OPTIONS"],
     AskRefresh, [AskRefresh EXCEPT !.host = "other"], [path |-> "other"],
     AskImage, [AskImage EXCEPT !.quality = 1], [AskImage EXCEPT !.height = 2, !.width = 5], [AskImage EXCEPT !.format = "webp", !.width = 1],
     [AskImage EXCEPT !.public = FALSE], [AskImage EXCEPT !.source = 2, !.width = 9]}
-----------------------------------------------------------------------------
Switch(routes) == [whole |-> TRUE, routes |-> routes, next |-> {}]
Call(path) == [path |-> path, shape |-> "exact", app |-> "own", key |-> path, body |-> [size |-> "small"]]
CallWith(path, key, body) == [Call(path) EXCEPT !.key = key, !.body = body]
MCClientRequests ==
    {Call("admin"), Call("checkout"), [Call("checkout") EXCEPT !.app = "other", !.key = "k6"], Call("provider callback"), Call("ping"),
     Call("works"), [Call("works") EXCEPT !.shape = "odd"],
     CallWith("image create", "k1", [size |-> "small", prompt |-> "text", operation |-> "generate"]),
     CallWith("image create", "k2", [size |-> "large"]),
     CallWith("image create", "k3", [size |-> "small", templateId |-> "text", inputImages |-> "one https",
                                     presetTags |-> "own template", aspectRatio |-> "other"]),
     CallWith("video create", "k4", [size |-> "small", templateId |-> "text", imageUrl |-> "one https", durationSeconds |-> 5]),
     CallWith("image statuses", "k5", [size |-> "small", ids |-> "ours"]),
     CallWith("image statuses", "k5", [size |-> "small", ids |-> "mixed"])}

MCPurchaseKeys == {c.key : c \in MCClientRequests}
MCInstalled == {{"admin", "payment entry", "image", "video", "works", "provider callback"}, {"payment callback"}}
MCDocuments ==
    {Switch({}), Switch({"image create", "checkout", "ping"}),
     Switch({"image statuses", "video create", "works", "unknown"})}
-----------------------------------------------------------------------------
LocalService(callbackKey) ==
    [requestKey |-> "k4", callbackKey |-> callbackKey, apiKey |-> "short", addresses |-> "valid"]
Platform(ref, tenant, secret, previous) ==
    [identity |-> "safe", account |-> ref, tenant |-> tenant, apiKey |-> "k3", base |-> "public", hosts |-> "public",
     limits |-> "within", mode |-> "webhook", origin |-> "public", secret |-> secret, previous |-> previous]
Polled == [Platform("a1", "t1", "", "") EXCEPT !.mode = "lookup_only", !.origin = "none"]
Configuration(environment, provider, local, b2b) ==
    [environment |-> environment, provider |-> provider, local |-> local, b2b |-> b2b]
OnPlatform(b2b) == Configuration("production", "polarstar_b2b_v2", Absent, b2b)
MCProviderConfigs ==
    {OnPlatform(Platform("a1", "t1", "k1", "")), OnPlatform(Platform("a1", "t1", "k2", "k1")),
     OnPlatform(Platform("a2", "t2", "k1", "")), OnPlatform(Polled),
     Configuration("local", "", LocalService("k5"), Polled),
     Configuration("production", "", LocalService("k5"), Absent),
     Configuration("local", "polarstar_b2b_v2", Absent, [Platform("a1", "t1", "k1", "") EXCEPT !.origin = "reserved"]),
     Configuration("local", "polarstar_b2b_v2", LocalService("k4"), Polled),
     Configuration("production", "polarstar_b2b_v2", LocalService("k5"), Platform("a1", "t1", "k4", ""))}
JobAnswer(status, tenant, s, wellFormed) == [status |-> status, tenant |-> tenant, step |-> s, wellFormed |-> wellFormed]

MCJobResponses ==
    {JobAnswer("created", "t1", "s1", TRUE), JobAnswer("created", "t1", "s1", FALSE),
     JobAnswer("created", "t2", "s1", TRUE), JobAnswer("created", "t1", "other", TRUE),
     JobAnswer("conflict", "t1", "s1", TRUE)}
-----------------------------------------------------------------------------
(* Callbacks.                                                               *)

Input(capability, sku, assets) == [capability |-> capability, sku |-> sku, assets |-> assets]
MCInputs ==
    {Input("text_to_image", "ps-image-v1", {}), Input("image_edit", "ps-edit-v1", {}),
     Input("image_edit", "ps-edit-v1", {[role |-> "source_image", url |-> "https:a"]})}
MCSkus(capability) ==
    CASE capability = "text_to_image" -> {"ps-image-v1"} [] capability = "image_edit" -> {"ps-edit-v1"} [] OTHER -> {"ps-auto"}
MCRecipeOf(c) == "ps-auto"
MCSafeUrl(u) == u # "http:a"
MCAssetUrl(u) == u \notin {"http:a", "https:a#f"}
-----------------------------------------------------------------------------
Delivery ==
    [method |-> "POST", path |-> "payment-confirmed", query |-> FALSE, large |-> FALSE,
     headers |-> [h \in {"timestamp", "nonce", "signature"} |-> "once"],
     body |-> [f \in {"orderId", "userId", "providerTxnId"} |-> "text"], fields |-> "in order", signed |-> "in order"]

MCOwner == [o \in Orders |-> "b1"]
MCShapes ==
    {Delivery, [Delivery EXCEPT !.path = "v1/payment-confirmed"], [Delivery EXCEPT !.path = "other"],
     [Delivery EXCEPT !.headers["nonce"] = "twice"], [Delivery EXCEPT !.body["userId"] = "half a pair"],
     [Delivery EXCEPT !.fields = "another order"]}
MCSkews == {-1, 0, 1}
-----------------------------------------------------------------------------
(* One part moves; the others keep one of their first states.               *)

MCInit ==
    /\ part \in Moving
    /\ AdmissionInit
    /\ subs[u2].period = "none" /\ users[u1].bound /\ ~users[u2].bound
    /\ \A q \in QuotaIds : quotas[q].limit = IF q[1] = u1 THEN Base ELSE 0
    /\ subs[u1].period = "monthly"
    /\ SessionsInit
    /\ part = "sessions" => accounts[p2] = NoAccount
    /\ part # "sessions" => \A p \in People : accounts[p] = NoAccount
    /\ FeedsInit
    /\ part # "lists" => listing = "ledger"
    /\ RealtimeInit
    /\ MediaInit
    /\ part # "links" => config = Setting /\ \A k \in DOMAIN public : public[k].bytes = 1
    /\ GatewayInit
    /\ part # "edge" => handlers = {"payment callback"} /\ scoped /\ document = Switch({})
    /\ ProvidersInit
    /\ part # "routing" => sender["t1"] = "k1"
    /\ CallbacksInit
    /\ part # "legacy" => \A s \in DOMAIN execution : (execution[s] # NoFact => execution[s].assets = {})
    /\ PayCoresInit

\* The variables of every part but the one named stay as they are.
OnlyMoves(name) ==
    /\ part = name /\ part' = name
    /\ IF name = "admission" THEN TRUE ELSE UNCHANGED admissionVars
    /\ IF name \in {"sessions", "guests"} THEN TRUE ELSE UNCHANGED sessionsVars
    /\ IF name \in {"lists", "messages"} THEN TRUE ELSE UNCHANGED feedsVars
    /\ IF name = "hub" THEN TRUE ELSE UNCHANGED realtimeVars
    /\ IF name = "links" THEN TRUE ELSE UNCHANGED mediaVars
    /\ IF name = "edge" THEN TRUE ELSE UNCHANGED gatewayVars
    /\ IF name = "routing" THEN TRUE ELSE UNCHANGED providersVars
    /\ IF name = "legacy" THEN TRUE ELSE UNCHANGED callbackVars
    /\ IF name = "buying" THEN TRUE ELSE UNCHANGED paycoresVars

MCNext ==
    \/ OnlyMoves("admission") /\ AdmissionNext
    \/ OnlyMoves("sessions") /\ Members!SessionsNext /\ sessions'["t2"] = NoSession
    \/ OnlyMoves("guests") /\ Guests!SessionsNext
    \/ OnlyMoves("lists") /\ FeedsNext /\ UNCHANGED <<feedbackVars, switchVars>>
    \/ OnlyMoves("messages") /\ FeedsNext /\ UNCHANGED <<listing, listed, reader>>
    \/ OnlyMoves("hub") /\ RealtimeNext
    \/ OnlyMoves("links") /\ MediaNext
    \/ OnlyMoves("edge") /\ GatewayNext
    \/ OnlyMoves("routing") /\ ProvidersNext
    \/ OnlyMoves("legacy") /\ CallbacksNext
    \/ OnlyMoves("buying") /\ PayCoresNext

MCVars ==
    <<part, admissionVars, sessionsVars, feedsVars, realtimeVars, mediaVars, gatewayVars,
      providersVars, callbackVars, paycoresVars>>

MCSpec == MCInit /\ [][MCNext]_MCVars
=============================================================================
