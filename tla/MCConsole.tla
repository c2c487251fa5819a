------------------------------ MODULE MCConsole ------------------------------
(***************************************************************************)
(* A small instance of what the operators work with: the review of         *)
(* results, applications and their pages, links and posts, prices, the old *)
(* site's images, the analytics, the catalogs of models, the published     *)
(* objects with their audit, the upkeep of the outbox and of the index     *)
(* over jobs, and the administrators' own accounts.  As in MCUser, the     *)
(* components share no variable and Init chooses the part that moves.      *)
(***************************************************************************)
EXTENDS Console, TLC

CONSTANTS Moving, Nothing

VARIABLE part
-----------------------------------------------------------------------------
(* Reviews.                                                                 *)

MCSourceOf == <<"animates", "faceswaptasks">>

LegacyDocument ==
    [whole |-> TRUE, type |-> "", status |-> "", public |-> "unset", generation |-> "", titled |-> FALSE]
MCDocuments ==
    {[LegacyDocument EXCEPT !.status = "completed", !.titled = TRUE],
     [LegacyDocument EXCEPT !.whole = FALSE, !.status = "odd"],
     [LegacyDocument EXCEPT !.status = "approved", !.public = "private"],
     [LegacyDocument EXCEPT !.type = "image"]}

ReviewPage(status) ==
    [media |-> "video", status |-> status, source |-> "all", pool |-> "all", template |-> "all", page |-> 1]
MCReviewQueries ==
    {ReviewPage("pending"), [ReviewPage("all") EXCEPT !.page = 2],
     [ReviewPage("all") EXCEPT !.source = "faceswap", !.pool = "external", !.template = "__none__"]}

\* Operators stand for one another.
OperatorSymmetry == Permutations(Operators)

\* Reviews of documents that can all be projected and do not change, found among
\* those that wait, and of any that change while they are imported, on any list.
Reviewing == INSTANCE Reviews WITH MaxChanges <- 0, Queries <- {ReviewPage("pending")}
Imported == INSTANCE Reviews WITH MaxDecisions <- 1, MaxChanges <- 1
-----------------------------------------------------------------------------
(* Applications.                                                            *)

MCEditable ==
    {<<"packageName", "i1">>, <<"status", "active">>, <<"nativeConfig", "own">>, <<"packageName", Nothing>>}
MCAppValues ==
    [package |-> {<<"i1", "b1">>}, review |-> {<<"strict", "">>, <<"off", "">>}, build |-> {<<"ios", "">>},
     domain |-> {<<"", "">>}, binding |-> {<<"pending", "">>}, disable |-> {<<"", "">>}]

MCPolicyPatches == {<<"policy", "open">>, <<"enabled", "no">>}
-----------------------------------------------------------------------------
(* Links, posts and prices.                                                 *)

Param(key, value, utm) == [key |-> key, value |-> value, utm |-> utm, overlong |-> FALSE]
LinkForm ==
    [slug |-> Nothing, target |-> Nothing, source |-> Nothing, medium |-> Nothing, extra |-> Nothing,
     overlong |-> FALSE, enabled |-> Nothing]
MCLinkForms ==
    {LinkForm, [LinkForm EXCEPT !.slug = "S1", !.source = "ads", !.target = "/q"],
     [LinkForm EXCEPT !.slug = "s1", !.source = "mail", !.target = "/%zz", !.enabled = FALSE],
     [LinkForm EXCEPT !.medium = "", !.extra =
        {Param("from", "a", FALSE), Param("from", "b", FALSE), Param("utm_source", "x", TRUE)}],
     [LinkForm EXCEPT !.slug = "bad slug"]}
PostForm(slug, title, status) == [slug |-> slug, title |-> title, status |-> status]

MCRoleOf == [root |-> "super_admin", ed |-> "editor"]
MCPostForms ==
    {PostForm(Nothing, "T", Nothing), PostForm("", Nothing, "published"),
     PostForm("p1", "U", "published"), PostForm(Nothing, Nothing, "archived")}
MCNormalized == ("S1" :> "s1") @@ ("s1" :> "s1") @@ ("bad slug" :> "bad")
MCSlugOfTitle == [T |-> "t", U |-> "u"]
MCQueryOf == ("/" :> << >>) @@ ("/q" :> ("utm_source" :> "own" @@ "from" :> ""))

IntValue(n) == [kind |-> "int", n |-> n]
MCGradeOf == [root |-> "super_admin", clerk |-> "admin"]
MCPackageOverrides ==
    {[small |-> [coins |-> IntValue(7), bonusCoins |-> IntValue(100), priceInCents |-> [kind |-> "text", n |-> 0]]],
     [own |-> ("_custom" :> [kind |-> "bool", n |-> 1]) @@ ("coins" :> IntValue(-1)),
      ignored |-> [coins |-> IntValue(1)]]}
MCMemberOverrides ==
    {[priceMonthly |-> IntValue(100), images |-> IntValue(4)], [priceYearly |-> IntValue(-1)],
     [images |-> IntValue(5), firstMonthMultiplier |-> IntValue(0)]}
\* What the build makes of an amount that is too large.
MCOverflow == -100

MCMenus == {<< >>, ("/a" :> TRUE), ("/b" :> FALSE), ("relative" :> TRUE)}
-----------------------------------------------------------------------------
(* The old site's images.                                                   *)

Image(collection, time) ==
    [collection |-> collection, generation |-> "completed", tool |-> "t2i", kind |-> "image", status |-> "active",
     public |-> TRUE, created |-> time, title |-> "A", client |-> "web", pool |-> Nothing, provider |-> "fal",
     inputs |-> 1]
Library ==
    [g1 |-> Image("generatedimages", 4),
     g2 |-> [Image("generatedimages", 2) EXCEPT !.status = "pending", !.tool = "i2i", !.inputs = 2, !.title = Nothing],
     f1 |-> [Image("faceswaptasks", 3) EXCEPT !.kind = "video", !.tool = Nothing],
     t1 |-> [Image("tryontasks", 1) EXCEPT !.status = Nothing, !.tool = Nothing]]

ImagePage(n, limit) ==
    [status |-> "all", source |-> "all", template |-> "all", pool |-> "all", client |-> "all",
     multi |-> FALSE, today |-> FALSE, page |-> n, limit |-> limit]
MCImageQueries ==
    {ImagePage(1, 2), ImagePage(2, 1), ImagePage(2, 2),
     [ImagePage(1, 2) EXCEPT !.status = "active", !.pool = "image-flex-default"],
     [ImagePage(1, 2) EXCEPT !.template = "__none__"],
     [ImagePage(1, 2) EXCEPT !.template = "__none__", !.client = "clingai"],
     [ImagePage(1, 2) EXCEPT !.source = "t2i", !.today = TRUE],
     [ImagePage(1, 0) EXCEPT !.multi = TRUE],
     [ImagePage(0, 2) EXCEPT !.status = "hidden"]}

MCLibraries == {Library, [Library EXCEPT !.f1.kind = "image", !.f1.provider = "a2e"]}
MCFallbacks(p) == IF p = "image-flex-default" THEN {"fal"} ELSE {"a2e"}
MCSources(c) == {"web"}
-----------------------------------------------------------------------------
(* Analytics.                                                               *)

Report(page) == [page |-> page, start |-> 0, end |-> 0, days |-> 0, sources |-> FALSE]
Google ==
    [client |-> "ready", credential |-> TRUE, up |-> TRUE, dimension |-> TRUE, lifetime |-> TRUE, refused |-> {}]

MCWorlds ==
    {[Google EXCEPT !.dimension = FALSE], [Google EXCEPT !.client = "absent"], [Google EXCEPT !.client = "broken"]}
MCReportQueries ==
    {Report("status"), Report("custom"), [Report("custom") EXCEPT !.days = 1], Report("insights"),
     [Report("conversion") EXCEPT !.days = 3, !.sources = TRUE], [Report("conversion") EXCEPT !.days = 9],
     Report("summary")}

\* A summary whose parts overlap.
Overlapping == INSTANCE Analytics WITH
    Worlds <- {Google, [Google EXCEPT !.dimension = FALSE]}, ReportQueries <- {Report("pwa/summary")}, InFlight <- 2
-----------------------------------------------------------------------------
(* Catalogs: five reviewed manifests.  The third has the version of the    *)
(* first and other content; the last two have one version.                 *)

Offer(capability, inputs) == [capability |-> capability, enabled |-> TRUE, inputs |-> inputs]
Still == Offer("text_to_image", {"prompt", "aspect"})
Edit == Offer("image_edit", {"prompt", "image"})
Clip == Offer("image_to_video", {"prompt", "image", "duration"})
Recipe(product, inputs, allowed, framed) ==
    [product |-> product, inputs |-> inputs, allowed |-> allowed, framed |-> framed]
StillRecipe == Recipe("still", {"prompt"}, {"prompt", "aspect"}, FALSE)
ClipRecipe == Recipe("clip", {"prompt", "duration"}, {"duration"}, FALSE)
Atom(version, capability) == <<"tmpl", version, capability>>

NoOffer == [capability |-> "none", enabled |-> FALSE, inputs |-> {}]
Offering(still, edit, clip) == [still |-> still, edit |-> edit, clip |-> clip]
Offered ==
    <<Offering(Still, Edit, Clip),
      Offering(Offer("text_to_image", {"prompt"}), NoOffer, Offer("image_to_video", {"prompt", "duration"})),
      Offering(Still, NoOffer, Clip),
      Offering(Still, Edit, [Clip EXCEPT !.enabled = FALSE]),
      Offering(Edit, Edit, Edit)>>
Recipes ==
    <<(Atom(1, "text_to_image") :> StillRecipe) @@ (Atom(1, "image_to_video") :> ClipRecipe)
          @@ (Atom(1, "image_edit") :> Recipe("edit", {"prompt"}, {"prompt"}, TRUE)),
      (Atom(2, "text_to_image") :> [StillRecipe EXCEPT !.allowed = {"prompt"}])
          @@ (Atom(2, "image_to_video") :> ClipRecipe),
      Atom(2, "image_to_video") :> ClipRecipe,
      Atom(2, "text_to_image") :> StillRecipe,
      Atom(2, "text_to_image") :> StillRecipe>>

ManifestVersions == <<1, 2, 1, 3, 3>>
ManifestTimes == <<1, 2, 1, 1, 1>>
-----------------------------------------------------------------------------
(* Published objects: two claims of one event, by two workers, and one     *)
(* claim that may be answered anything.                                    *)

Hop == [scheme |-> "https", user |-> FALSE, literal |-> FALSE, host |-> "ok", resolved |-> {"public"}]
Download(type, body) ==
    [hops |-> <<Hop>>, status |-> 200, declared |-> Len(body), encoding |-> "", type |-> type, body |-> body]
Downloads == {Download("image/png", <<1>>), Download("image/png", <<3>>), Download("image/jpeg", <<1, 2>>)}
Picture == Download("image/png", <<1>>)
OtherDownloads ==
    {[Picture EXCEPT !.body = <<1, 2, 5>>], [Picture EXCEPT !.body = << >>], [Picture EXCEPT !.status = 503],
     [Picture EXCEPT !.hops = <<Hop, Hop, Hop>>], [Picture EXCEPT !.type = "text/html"]}
Extension(type) == CASE type = "image/png" -> "png" [] type = "image/jpeg" -> "jpg" [] OTHER -> "none"

MCStepKeys == <<"jpg", "png">>

Answers == INSTANCE Streams WITH Claims <- {"a"}, Responses <- Downloads \cup OtherDownloads
-----------------------------------------------------------------------------
(* The outbox's upkeep, and the index over jobs.  The retention command and *)
(* the worker's metrics both read the events and nothing of each other, so  *)
(* each is explored while the other rests.                                  *)

MCPeriod == ("delivered" :> 1) @@ ("failed" :> 2) @@ ("needs_attention" :> 2)

Metrics == INSTANCE Retention WITH Events <- {1}
-----------------------------------------------------------------------------
(* The administrators' desk: changes of accounts by two requests at a time, *)
(* and one request for each route.                                         *)

Window == [twice |-> FALSE, page |-> 1, limit |-> 20, from |-> 0, until |-> 0]
To(method, path, body) == [method |-> method, path |-> path, body |-> body, query |-> Window]

Changes ==
    {To("PATCH", <<"users", p, "role">>, v) : p \in {"clerk", "kim"}, v \in {"admin", "super_admin"}}
        \cup {To("PATCH", <<"users", "clerk", "role">>, "user"), To("PATCH", <<"users", "kim", "status">>, "active"),
              To("PATCH", <<"users", "root", "status">>, "suspended")}
        \cup {To("DELETE", <<"users", p>>, "") : p \in {"clerk", "kim", "unknown"}}

Lists == {[To("GET", <<"users">>, "") EXCEPT !.query = q] :
    q \in {Window, [Window EXCEPT !.page = 0], [Window EXCEPT !.twice = TRUE],
          [Window EXCEPT !.page = 10000, !.limit = 100], [Window EXCEPT !.from = 2, !.until = 1]}}

Everything ==
    Lists \cup {To(m, path, "") : m \in {"GET", "POST"}, path \in
        {<<"wallet", "purchase-countries">>, <<"users", "overview">>, <<"users", "kim">>, <<"wallet", "adjust">>,
         <<"analytics", "cohort", "revenue-breakdowns">>, <<"analytics", "overview">>, <<"image-review", "pending">>,
         <<"image-review", "x", "log">>, <<"homepage", "review-template", "video", "x">>,
         <<"homepage", "review-template", "video">>, <<"video-review">>, <<"video-review", "stats">>,
         <<"video-review", "x", "log">>, <<"video-review", "gpu-status">>, <<"video-review", "x", "review">>,
         <<"analytics", "subscription", "breakdown">>, <<"analytics", "ga4">>, <<"analytics", "utm-funnel">>,
         <<"utm-links", "sources">>, <<"utm-links">>, <<"utm-links", "x">>, <<"utm-links", "o1", "x">>, <<"blog">>,
         <<"paycores">>, <<"paycores", "channels-overview">>, <<"system", "menu-visibility", "x">>,
         <<"wallet", "packages">>, <<"wallet", "vip-config">>, <<"config", "pricing">>, <<"config", "platforms">>,
         <<"apps", "x", "legal-pages">>, <<"apps", "o1", "legal-pages">>, <<"apps", "o1", "legal-pages", "odd">>,
         <<"apps", "o1", "legal-pages", "privacy", "verify">>,
         <<"apps", "o1", "legal-pages", "publishing-binding", "managed">>}}
    \cup {To("PUT", path, body) : body \in {"", "bad"}, path \in
        {<<"utm-links", "o1">>, <<"system", "menu-visibility">>, <<"apps", "o1", "legal-pages", "publishing-binding">>}}
    \cup {To("DELETE", <<"apps", "o1", "legal-pages", "privacy">>, body) : body \in {"", "confirmed"}}

Council == [root |-> "super_admin", clerk |-> "admin", kim |-> "editor"]

\* One request at a time, of every route; the other is not made.
Routed == INSTANCE Desk WITH Requests <- {"r1"}, Asked <- Everything
-----------------------------------------------------------------------------
(* One part moves; the others keep one of their first states.               *)

MCInit ==
    /\ part \in Moving
    /\ ReviewsInit
    /\ part = "reviews" => \A i \in Items : MapLegacyDocument(SourceOf[i], legacy[i]) = "ready"
    /\ part \notin {"reviews", "imports"} => \A i \in Items : ~legacy[i].whole
    /\ AppsInit
    /\ apps["a2"] = NoApp /\ (part # "apps" => apps["a1"] = NoApp)
    /\ MarketingInit
    /\ PricingInit
    /\ ImagesInit /\ (part # "images" => images = Library)
    /\ IF part = "installs" THEN Overlapping!AnalyticsInit ELSE AnalyticsInit
    /\ part \notin {"analytics", "installs"} => google.client = "absent"
    /\ CatalogInit
    /\ StreamsInit
    /\ RetentionInit
    /\ \A e \in Events : outbox[e] = NoEvent \/ (part \in {"retention", "metrics"} /\ e = 1)
    /\ JobIndexInit
    /\ DeskInit
    /\ part # "jobs" => indexes = {"scoped"} /\ \A s \in DOMAIN steps : steps[s].scope = "a"

\* The variables of every part but the one named stay as they are.
OnlyMoves(name) ==
    /\ part = name /\ part' = name
    /\ IF name \in {"reviews", "imports"} THEN TRUE ELSE UNCHANGED reviewVars
    /\ IF name = "apps" THEN TRUE ELSE UNCHANGED appVars
    /\ IF name = "marketing" THEN TRUE ELSE UNCHANGED marketingVars
    /\ IF name = "prices" THEN TRUE ELSE UNCHANGED pricingVars
    /\ IF name = "images" THEN TRUE ELSE UNCHANGED imageVars
    /\ IF name \in {"analytics", "installs"} THEN TRUE ELSE UNCHANGED analyticsVars
    /\ IF name = "catalog" THEN TRUE ELSE UNCHANGED catalogVars
    /\ IF name \in {"objects", "downloads"} THEN TRUE ELSE UNCHANGED streamVars
    /\ IF name \in {"retention", "metrics"} THEN TRUE ELSE UNCHANGED retentionVars
    /\ IF name = "jobs" THEN TRUE ELSE UNCHANGED jobIndexVars
    /\ IF name \in {"desk", "routes"} THEN TRUE ELSE UNCHANGED deskVars

MCNext ==
    \/ OnlyMoves("reviews") /\ Reviewing!ReviewsNext
    \/ OnlyMoves("imports") /\ Imported!ReviewsNext
    \/ OnlyMoves("apps") /\ AppsNext
    \/ OnlyMoves("marketing") /\ MarketingNext
    \/ OnlyMoves("prices") /\ PricingNext
    \/ OnlyMoves("images") /\ ImagesNext
    \/ OnlyMoves("analytics") /\ AnalyticsNext
    \/ OnlyMoves("installs") /\ Overlapping!AnalyticsNext
    \/ OnlyMoves("catalog") /\ CatalogNext
    \/ OnlyMoves("objects") /\ StreamsNext
    \/ OnlyMoves("downloads") /\ Answers!StreamsNext
    \/ OnlyMoves("retention") /\ UNCHANGED <<worker, gauges>> /\ RetentionNext
    \/ OnlyMoves("metrics") /\ UNCHANGED <<ttl, command, removed>> /\ Metrics!RetentionNext
    \/ OnlyMoves("jobs") /\ JobIndexNext
    \/ OnlyMoves("desk") /\ DeskNext
    \/ OnlyMoves("routes") /\ Routed!DeskNext

MCVars ==
    <<part, reviewVars, appVars, marketingVars, pricingVars, imageVars, analyticsVars, catalogVars,
      streamVars, retentionVars, jobIndexVars, deskVars>>

MCSpec == MCInit /\ [][MCNext]_MCVars
==============================================================================
