--------------------------------- MODULE Apps ---------------------------------
(***************************************************************************)
(* The registry of application instances, as its operators edit it.        *)
(*                                                                         *)
(* A request that edits an application reads its document, computes every  *)
(* field it is about to write from what it read, and writes those fields   *)
(* by the application's id alone; only the removal of a legal page names   *)
(* in its filter what it read.  Nothing but one unique index, over the     *)
(* identifiers a document claims for native builds, stands between two     *)
(* requests.  The platform configuration an application's target resolves  *)
(* to is a document of another collection, written by the same requests.   *)
(***************************************************************************)
EXTENDS Integers, FiniteSets, Sequences

CONSTANTS
    Apps,          \* ids of applications, registered or yet to be
    AppRequests,   \* requests of operators
    Identifiers,   \* client ids, package names and application ids
    Bundles,       \* bundle ids
    PageVersions,  \* published versions of a legal page
    Editable,      \* patches operators submit: field and value
    AppValues,     \* values operators give, per kind of request
    PolicyPatches, \* and for a platform configuration
    NoId

Platforms == {"ios", "android", "web"}
Natives == Platforms \ {"web"}
PlatformKeys == Platforms \X (Identifiers \cup Bundles)
ReviewModes == {"strict", "hybrid", "off"}

\* The fields an update may name, of those that are kept here.
UpdatableFields == {"clientId", "bundleId", "packageName", "domain", "status", "nativeConfig"}

\* What a request passes its validation with.
ASSUME AppsAssumption ==
    /\ NoId \notin PageVersions
    /\ \A patch \in Editable :
          /\ patch[1] \in UpdatableFields
          /\ patch[1] \in {"clientId", "packageName"} => patch[2] \in Identifiers \cup {NoId}
    /\ \A patch \in AppValues["package"] : patch[1] \in Identifiers \cup {NoId}
    /\ \A patch \in AppValues["review"] : patch[1] \in ReviewModes

VARIABLES
    apps,             \* the documents of the collection
    platformConfigs,  \* platform configurations, by platform and client id
    edits             \* where each request stands

appVars == <<apps, platformConfigs, edits>>
-----------------------------------------------------------------------------
NoApp == [platform |-> "none", status |-> "none", clientId |-> NoId, bundleId |-> NoId,
          packageName |-> NoId, applicationId |-> NoId, claims |-> {}, rules |-> "none",
          legalUrl |-> NoId, page |-> NoId, binding |-> "none", builds |-> {},
          domain |-> "none"]
NoConfig == [review |-> "none", policy |-> "none", enabled |-> FALSE]
NoEdit == [kind |-> "none", at |-> "ready", app |-> CHOOSE a \in Apps : TRUE,
           saw |-> NoApp, patch |-> <<"none", "none">>, config |-> NoConfig,
           key |-> CHOOSE k \in PlatformKeys : TRUE]

Registered == {a \in Apps : apps[a] # NoApp}

\* The identifiers a document is to claim: the client id counts on Android only.
NativeIdentifiers(app) ==
    ({app.packageName, app.applicationId}
       \cup (IF app.platform = "android" THEN {app.clientId} ELSE {})) \ {NoId}

FirstOf(names) == LET given == SelectSeq(names, LAMBDA n : n # NoId)
                  IN  IF given = <<>> THEN NoId ELSE given[1]

\* The identifier the builds of a native application go by.
Target(app) == CASE app.platform = "android" -> FirstOf(<<app.applicationId, app.packageName, app.bundleId>>)
                 [] app.platform = "ios" -> app.bundleId
                 [] OTHER -> NoId

\* Its runtime configuration is kept under its client id, if it has one.
NativeRuntimeTarget(app) == <<app.platform, FirstOf(<<app.clientId, Target(app)>>)>>

\* The unique index: no other document claims one of these.
IndexAdmits(a, claims) == \A b \in Apps \ {a} : apps[b].claims \cap claims = {}
-----------------------------------------------------------------------------
(* What a patch makes of the document it was computed from.                *)

\* An empty value takes the field away.
Common(app, field, value) == [app EXCEPT ![field] = value]

\* A client's legal address yields to a published page's, and its state rules
\* to the stored ones.
ApplyNativeConfigUpdate(app, value) ==
    [app EXCEPT !.legalUrl = IF app.page # NoId THEN app.page ELSE value]

ValidateUpdate(app, patch) ==
    IF patch[1] = "nativeConfig" THEN ApplyNativeConfigUpdate(app, patch[2])
                                 ELSE Common(app, patch[1], patch[2])

\* The fields an update sets or unsets; all others keep what is stored by then.
WrittenFields(patch) == IF patch[1] = "nativeConfig" THEN {"legalUrl", "rules"} ELSE {patch[1]}

StoreApp(a, fields, from) ==
    apps' = [apps EXCEPT ![a] = [f \in DOMAIN NoApp |-> IF f \in fields THEN from[f] ELSE @[f]]]

Goto(r, at) == edits' = [edits EXCEPT ![r].at = at]
Answer(r, result) == edits' = [edits EXCEPT ![r] = [NoEdit EXCEPT !.at = result]]
-----------------------------------------------------------------------------
(* A request begins: an editor reads the document, a creation its input.   *)

AppKinds == {"update", "package", "review", "build", "domain", "binding", "disable"}
ConfigKinds == {"content-policy", "clone"}

\* The whitelist of a creation and its normalised fields.
ValidateCreate(platform, client, bundle, package) ==
    [NoApp EXCEPT !.platform = platform, !.status = "active", !.clientId = client,
                  !.bundleId = bundle, !.packageName = package]

AppsInit ==
    /\ apps \in [Apps -> {NoApp} \cup {ValidateCreate(p, NoId, b, NoId) : p \in Platforms, b \in Bundles}]
    /\ \A a, b \in Registered : apps[a].bundleId = apps[b].bundleId => a = b
    /\ platformConfigs = [k \in PlatformKeys |-> NoConfig]
    /\ edits = [r \in AppRequests |-> NoEdit]

\* A request for an application nobody registered is refused.
ReadApp(r, a, kind, patch) ==
    /\ edits[r].at = "ready"
    /\ IF a \in Registered
       THEN edits' = [edits EXCEPT ![r] = [@ EXCEPT !.kind = kind, !.at = "read", !.app = a,
                                                    !.saw = apps[a], !.patch = patch]]
       ELSE Answer(r, "notFound")
    /\ UNCHANGED <<apps, platformConfigs>>

BeginCreate(r, a, app) ==
    /\ edits[r].at = "ready" /\ a \notin Registered
    /\ \A q \in AppRequests : ~(edits[q].kind = "create" /\ edits[q].app = a)
    /\ edits' = [edits EXCEPT ![r] = [@ EXCEPT !.kind = "create", !.at = "read", !.app = a, !.saw = app]]
    /\ UNCHANGED <<apps, platformConfigs>>
-----------------------------------------------------------------------------
(* The checks before a write, and the writes.                              *)

\* Nobody else holds one of the identifiers the document will have.
NativeFree(a, app) == \A b \in Apps \ {a} : NativeIdentifiers(apps[b]) \cap NativeIdentifiers(app) = {}

\* The further checks of a creation, each a query of its own.
CreateFree(a, app) ==
    /\ app.platform # "android" /\ app.clientId # NoId =>
          \A b \in Registered : apps[b].platform = app.platform => apps[b].clientId # app.clientId
    /\ app.bundleId # NoId => \A b \in Registered : apps[b].bundleId # app.bundleId
    /\ app.platform # "android" /\ app.packageName # NoId =>
          \A b \in Registered : apps[b].packageName # app.packageName

\* What the document will look like to the check: the snapshot under the patch.
Effective(e) ==
    CASE e.kind = "update" -> ValidateUpdate(e.saw, e.patch)
      [] e.kind = "package" -> [e.saw EXCEPT !.packageName = e.patch[1], !.applicationId = e.patch[1],
                                             !.bundleId = e.patch[2]]
      [] OTHER -> e.saw

CheckFree(r) ==
    LET e == edits[r] IN
    /\ e.at = "read" /\ e.kind \in {"create", "update", "package"}
    /\ IF /\ NativeFree(e.app, Effective(e))
          /\ e.kind = "create" => CreateFree(e.app, e.saw)
       THEN Goto(r, "checked")
       ELSE Answer(r, "conflict")
    /\ UNCHANGED <<apps, platformConfigs>>

\* The index decides; a document without identifiers is not in it.
Create(r) ==
    LET e == edits[r]
        claims == NativeIdentifiers(e.saw) IN
    /\ e.kind = "create" /\ e.at = "checked"
    /\ IF IndexAdmits(e.app, claims)
       THEN /\ apps' = [apps EXCEPT ![e.app] = [e.saw EXCEPT !.claims = claims]]
            /\ Answer(r, "ok")
       ELSE UNCHANGED apps /\ Answer(r, "conflict")
    /\ UNCHANGED platformConfigs

\* An update and a package configuration set the claims they computed.  What the
\* index refuses is a conflict to the former, and a plain error to the latter.
SaveApp(r, fields) ==
    LET e == edits[r]
        app == Effective(e)
        claims == NativeIdentifiers(app) IN
    /\ e.at = "checked"
    /\ IF IndexAdmits(e.app, claims)
       THEN /\ StoreApp(e.app, fields \cup {"claims"}, [app EXCEPT !.claims = claims])
            /\ Answer(r, "ok")
       ELSE UNCHANGED apps /\ Answer(r, IF e.kind = "package" THEN "error" ELSE "conflict")
    /\ UNCHANGED platformConfigs

Update(r) == edits[r].kind = "update" /\ SaveApp(r, WrittenFields(edits[r].patch))
UpdatePackageConfig(r) ==
    edits[r].kind = "package" /\ SaveApp(r, {"packageName", "applicationId", "bundleId"})

\* The soft deletion reads nothing.
Delete(r, a) ==
    /\ edits[r].at = "ready" /\ a \in Registered
    /\ apps' = [apps EXCEPT ![a].status = "deprecated"]
    /\ Answer(r, "ok")
    /\ UNCHANGED platformConfigs
-----------------------------------------------------------------------------
(* The review mode: the target's configuration, then the state rules.      *)

RulesFor(mode) == IF mode = "off" THEN "open" ELSE "closed"

SetReviewMode(r) ==
    LET e == edits[r]
        mode == e.patch[1] IN
    /\ e.kind = "review" /\ e.at = "read"
    /\ IF Target(e.saw) = NoId
       THEN UNCHANGED platformConfigs /\ Answer(r, "invalid")
       ELSE /\ platformConfigs' = [platformConfigs EXCEPT ![NativeRuntimeTarget(e.saw)] =
                   [@ EXCEPT !.review = mode, !.enabled = TRUE,
                             !.policy = IF mode = "strict" THEN "safe" ELSE @]]
            /\ IF e.saw.platform = "ios" THEN Goto(r, "configured") ELSE Answer(r, "ok")
    /\ UNCHANGED apps

\* The whole native configuration is written back as it was read, but for its
\* state rules.
SetStateRules(r) ==
    LET e == edits[r] IN
    /\ e.kind = "review" /\ e.at = "configured"
    /\ StoreApp(e.app, {"rules", "legalUrl"}, [e.saw EXCEPT !.rules = RulesFor(e.patch[1])])
    /\ Answer(r, "ok")
    /\ UNCHANGED platformConfigs
-----------------------------------------------------------------------------
(* Build requests, API domains, the publisher's binding, legal pages.      *)

\* The list of requested builds is written back one longer than it was read.
CreateBuildRequest(r) ==
    LET e == edits[r]
        app == [e.saw EXCEPT !.platform = e.patch[1]] IN
    /\ e.kind = "build" /\ e.at = "read"
    /\ IF e.patch[1] \in Natives /\ Target(app) # NoId
       THEN StoreApp(e.app, {"builds"}, [e.saw EXCEPT !.builds = @ \cup {r}]) /\ Answer(r, "ok")
       ELSE UNCHANGED apps /\ Answer(r, "invalid")
    /\ UNCHANGED platformConfigs

\* No registrar is configured: a registration is recorded as blocked.
RegisterAPIDomain(r) ==
    LET e == edits[r] IN
    /\ e.kind = "domain" /\ e.at = "read"
    /\ IF e.saw.status # "deprecated"
       THEN StoreApp(e.app, {"domain"}, [e.saw EXCEPT !.domain = "blocked"]) /\ Answer(r, "ok")
       ELSE UNCHANGED apps /\ Answer(r, "invalid")
    /\ UNCHANGED platformConfigs

HasActiveLegalPages(app) == app.page # NoId

\* With pages published only the repetition of the same pending binding passes,
\* and writes nothing.
UpdateLegalPublishing(r) ==
    LET e == edits[r] IN
    /\ e.kind = "binding" /\ e.at = "read"
    /\ IF HasActiveLegalPages(e.saw)
       THEN UNCHANGED apps /\ Answer(r, IF e.saw.binding = e.patch[1] THEN "ok" ELSE "conflict")
       ELSE StoreApp(e.app, {"binding"}, [e.saw EXCEPT !.binding = e.patch[1]]) /\ Answer(r, "ok")
    /\ UNCHANGED platformConfigs

\* Mistaken variant: whatever page is in force is taken down.
StillAny(a, version) == apps[a].page # NoId

\* The filter names the version that was read, and the address goes with it.
StillCurrent(a, version) == apps[a].page = version

LegalAction(r) ==
    LET e == edits[r] IN
    /\ e.kind = "disable" /\ e.at = "read"
    /\ IF ~HasActiveLegalPages(e.saw)
       THEN UNCHANGED apps /\ Answer(r, "notFound")
       ELSE IF StillCurrent(e.app, e.saw.page)
       THEN /\ apps' = [apps EXCEPT ![e.app].page = NoId, ![e.app].legalUrl = NoId]
            /\ Answer(r, "ok")
       ELSE UNCHANGED apps /\ Answer(r, "conflict")
    /\ UNCHANGED platformConfigs

\* Pages are published by the deployment that owns their storage.
PublishPage(a, v) ==
    /\ a \in Registered /\ apps[a].page # v
    /\ apps' = [apps EXCEPT ![a].page = v, ![a].legalUrl = v]
    /\ UNCHANGED <<platformConfigs, edits>>
-----------------------------------------------------------------------------
(* The platform configurations' own routes.                                *)

Patched(config, patch) ==
    [config EXCEPT !.policy = IF patch[1] = "policy" THEN patch[2] ELSE @,
                   !.enabled = IF patch[1] = "enabled" THEN patch[2] = "yes" ELSE @]

\* An upsert; a new document is enabled.  A native review mode has a route of
\* its own and is refused here.
UpdatePlatformConfig(r, key, patch) ==
    /\ edits[r].at = "ready"
    /\ platformConfigs' = [platformConfigs EXCEPT ![key] =
           Patched(IF @ = NoConfig THEN [@ EXCEPT !.enabled = TRUE] ELSE @, patch)]
    /\ Answer(r, "ok")
    /\ UNCHANGED apps

DeletePlatformConfig(r, key) ==
    /\ edits[r].at = "ready"
    /\ platformConfigs' = [platformConfigs EXCEPT ![key] = NoConfig]
    /\ Answer(r, IF platformConfigs[key] = NoConfig THEN "notFound" ELSE "ok")
    /\ UNCHANGED apps

GetPlatformConfig(r, kind, from, to, patch) ==
    /\ edits[r].at = "ready"
    /\ IF platformConfigs[from] = NoConfig THEN Answer(r, "notFound")
       ELSE edits' = [edits EXCEPT ![r] = [@ EXCEPT !.kind = kind, !.at = "read", !.key = to,
                                                    !.config = platformConfigs[from], !.patch = patch]]
    /\ UNCHANGED <<apps, platformConfigs>>

\* A partial patch sends the document it read through the update, the review
\* mode of a native target with it; a copy leaves that behind.
PatchPlatformConfig(r) ==
    LET e == edits[r] IN
    /\ e.kind = "content-policy" /\ e.at = "read"
    /\ IF e.key[1] = "web" \/ e.config.review = "none"
       THEN /\ platformConfigs' = [platformConfigs EXCEPT ![e.key] =
                  [Patched(e.config, e.patch) EXCEPT !.review = platformConfigs[e.key].review]]
            /\ Answer(r, "ok")
       ELSE UNCHANGED platformConfigs /\ Answer(r, "invalid")
    /\ UNCHANGED apps

ClonePlatformConfig(r) ==
    LET e == edits[r] IN
    /\ e.kind = "clone" /\ e.at = "read"
    /\ platformConfigs' = [platformConfigs EXCEPT ![e.key].policy = e.config.policy, ![e.key].enabled = e.config.enabled]
    /\ Answer(r, "ok")
    /\ UNCHANGED apps
-----------------------------------------------------------------------------
(* The routes.                                                             *)

WriteApp(r) ==
    \/ Create(r) \/ Update(r) \/ UpdatePackageConfig(r)
    \/ SetReviewMode(r) \/ SetStateRules(r)
    \/ CreateBuildRequest(r) \/ RegisterAPIDomain(r)
    \/ UpdateLegalPublishing(r) \/ LegalAction(r)

DispatchApp(r, a) ==
    \/ \E patch \in Editable : ReadApp(r, a, "update", patch)
    \/ \E kind \in AppKinds \ {"update"} : \E patch \in AppValues[kind] : ReadApp(r, a, kind, patch)
    \/ \E p \in Platforms, c, n \in Identifiers \cup {NoId}, b \in Bundles \cup {NoId} :
          BeginCreate(r, a, ValidateCreate(p, c, b, n))
    \/ Delete(r, a)

DispatchPlatforms(r) ==
    \/ \E key \in PlatformKeys, patch \in PolicyPatches :
          \/ UpdatePlatformConfig(r, key, patch)
          \/ GetPlatformConfig(r, "content-policy", key, key, patch)
    \/ \E from, to \in PlatformKeys : GetPlatformConfig(r, "clone", from, to, <<"none", "none">>)
    \/ \E key \in PlatformKeys : DeletePlatformConfig(r, key)
    \/ PatchPlatformConfig(r)
    \/ ClonePlatformConfig(r)

AppsNext ==
    \/ \E r \in AppRequests :
          \/ \E a \in Apps : DispatchApp(r, a)
          \/ DispatchPlatforms(r)
          \/ CheckFree(r)
          \/ WriteApp(r)
    \/ \E a \in Apps, v \in PageVersions : PublishPage(a, v)

AppsSpec == AppsInit /\ [][AppsNext]_appVars
-----------------------------------------------------------------------------
AppsTypeOK ==
    /\ \A a \in Apps :
          /\ {apps[a].clientId, apps[a].packageName, apps[a].applicationId} \subseteq Identifiers \cup {NoId}
          /\ apps[a].claims \subseteq Identifiers
          /\ apps[a].builds \subseteq AppRequests
          /\ apps[a].page \in PageVersions \cup {NoId}
    /\ \A k \in PlatformKeys : platformConfigs[k].review \in ReviewModes \cup {"none"}
    /\ \A r \in AppRequests :
          edits[r].at \in {"ready", "read", "checked", "configured", "ok", "notFound", "conflict", "invalid", "error"}

\* No identifier is claimed by two applications, however the requests that
\* checked it to be free overlap (Create, Update and UpdatePackageConfig in
\* data/admin_apps.go and data/admin_apps_compat.go).
ClaimsDisjoint == \A a, b \in Apps : a # b => apps[a].claims \cap apps[b].claims = {}

\* A published legal page is taken down only by an operator who read that very
\* version: one published in between stays (LegalAction).
PageTakenByReader ==
    [][\A a \in Apps : apps[a].page # NoId /\ apps'[a].page = NoId =>
          \E r \in AppRequests : edits[r].kind = "disable" /\ edits[r].app = a /\ edits[r].saw.page = apps[a].page
      ]_appVars

=============================================================================
