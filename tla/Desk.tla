--------------------------------- MODULE Desk ---------------------------------
(***************************************************************************)
(* The administrators' desk: every request under /api/admin/.              *)
(*                                                                         *)
(* The path names the projection that answers.  The projection reads the   *)
(* session's user, whose role admits the request or not, and then does     *)
(* what its method and path ask, which may be to change the role or the    *)
(* status of an account: of one, perhaps, whose own request was admitted   *)
(* before and is still under way.                                          *)
(***************************************************************************)
EXTENDS Integers, Sequences, SequencesExt, FiniteSetsExt

CONSTANTS
    People,
    FirstRole,    \* [People -> {"user", "editor", "admin", "super_admin"}]
    Ids,          \* identifiers of the right form: 24 hexadecimal digits
    LegalPages,   \* types of legal pages
    Requests,
    Asked,        \* requests the administrators make
    MaxWrites,    \* bound on the changes of accounts
    MaxPage, MaxLimit, MaxSkip,
    Nobody        \* who asks what is not asked

VARIABLES
    staff,        \* users: role and status
    desk,         \* where each request stands, with the role it was admitted by
    changed       \* audit: the changes of accounts, in order

deskVars == <<staff, desk, changed>>
-----------------------------------------------------------------------------
(* Who answers, and who may ask.                                           *)

Admins == {"admin", "super_admin"}

\* The paths of the projections; the rest is the view's.
Projections ==
    [apps |-> {<<"apps">>, <<"config", "platforms">>}, utm |-> {<<"utm-links">>},
     funnel |-> {<<"analytics", "utm-funnel">>}, blog |-> {<<"blog">>},
     subscription |-> {<<"analytics", "subscription">>}, ga4 |-> {<<"analytics", "ga4">>},
     menu |-> {<<"system", "menu-visibility">>},
     pricing |-> {<<"wallet", "packages">>, <<"wallet", "vip-config">>, <<"wallet", "subscription-strategy">>,
                  <<"config", "system">>, <<"config", "pricing">>},
     paycores |-> {<<"paycores">>}, imageReview |-> {<<"image-review">>}, images |-> {<<"images">>},
     videoReview |-> {<<"video-review">>, <<"homepage", "review-template", "video">>}]

\* A prefix is a path or its parent, segment by segment.
Under(path, prefix) == IsPrefix(prefix, path)

Owns(h, path) == \E prefix \in Projections[h] : Under(path, prefix)

HandlerOf(path) ==
    IF \E h \in DOMAIN Projections : Owns(h, path)
    THEN CHOOSE h \in DOMAIN Projections : Owns(h, path) ELSE "view"

\* Settings of the site and of other people's applications are the super
\* administrators'; posts are the editors' too.
Admitted(h, c) ==
    CASE h = "blog" -> Admins \cup {"editor"}
      [] h \in {"utm", "menu"} -> {"super_admin"}
      [] h = "apps" /\ (c.method # "GET" \/ Under(c.path, <<"config", "platforms">>)) -> {"super_admin"}
      [] OTHER -> Admins
-----------------------------------------------------------------------------
(* What is asked: by method and path.  Each answers what a request is for, *)
(* "read" or "write", or why it is for nothing.                            *)

Get(c) == c.method = "GET"
Readable(c) == c.body # "bad"

\* A page of a list, in bounds, over windows that do not end before they begin;
\* no parameter is given twice.
ParsedQuery(q) ==
    /\ ~q.twice
    /\ q.page \in 1..MaxPage /\ q.limit \in 1..MaxLimit /\ (q.page - 1) * q.limit <= MaxSkip
    /\ q.from # 0 /\ q.until # 0 => q.from < q.until + 1

ViewLists ==
    {<<"users">>, <<"users", "kpis">>, <<"users", "active-count">>, <<"wallet", "ledger">>,
     <<"wallet", "purchases">>, <<"wallet", "stats">>, <<"reports", "feedback">>,
     <<"reports", "feedback", "stats">>}

\* Names below "users" that are no identifiers.
ReservedUsers == {"duplicates", "overview"}

OfUser(path) == Len(path) >= 2 /\ path[1] = "users" /\ path[2] \notin ReservedUsers

ChangesUser(c) ==
    /\ OfUser(c.path)
    /\ \/ c.method = "DELETE" /\ Len(c.path) = 2
       \/ c.method = "PATCH" /\ Len(c.path) = 3 /\ c.path[3] \in {"status", "role"}

ViewWrites(c) ==
    /\ c.method = "POST"
    /\ \/ c.path \in {<<"wallet", "adjust">>, <<"wallet", "grant-subscription">>}
       \/ Len(c.path) = 4 /\ Under(c.path, <<"reports", "feedback">>) /\ c.path[4] = "respond"

ViewReads(c) ==
    /\ Get(c)
    /\ \/ c.path = <<"wallet", "purchase-countries">>
       \/ Len(c.path) >= 3 /\ Under(c.path, <<"wallet", "user">>)
       \/ Len(c.path) = 2 /\ OfUser(c.path)

Management(c) ==
    IF Get(c) /\ c.path \in ViewLists THEN IF ParsedQuery(c.query) THEN "read" ELSE "invalid"
    ELSE CASE ViewReads(c) -> "read"
           [] ChangesUser(c) -> IF c.method = "DELETE" \/ Readable(c) THEN "change" ELSE "invalid"
           [] ViewWrites(c) -> IF Readable(c) THEN "write" ELSE "invalid"
           [] OTHER -> "not mine"

\* Trends of some days, and the revenue of some cohorts.
Trends(c) ==
    IF Len(c.path) >= 2 /\ c.path[1] = "analytics"
       /\ SubSeq(c.path, 2, Len(c.path)) \in
             {<<"users">>, <<"images">>, <<"videos">>, <<"revenue-trends">>, <<"cohort", "revenue-breakdowns">>}
    THEN IF Readable(c) THEN "read" ELSE "invalid"
    ELSE "not mine"

View(c) ==
    IF Management(c) # "not mine" THEN Management(c)
    ELSE IF Get(c) /\ Trends(c) # "not mine" THEN Trends(c)
    ELSE IF Get(c) /\ c.path = <<"analytics", "overview">> THEN "read" ELSE "not migrated"

\* Lists of images to review; the logs and drafts are not kept.
ReviewPages ==
    {<<"images">>, <<"images", "template-options">>, <<"images", "provider-status">>, <<"images", "today-by-gpu">>,
     <<"video-review", "template-options">>, <<"video-review", "gpu-status">>, <<"video-review", "today-by-gpu">>}
        \cup {<<r>> : r \in {"image-review", "video-review"}}
        \cup {<<r, p>> : r \in {"image-review", "video-review"}, p \in {"pending", "stats"}}

\* Its decisions are in Reviews.
ReviewOfImages(c) ==
    LET draft == Len(c.path) > 3 /\ Under(c.path, <<"homepage", "review-template", "video">>)
        log == Len(c.path) > 1 /\ c.path[1] \in {"image-review", "video-review"} /\ Last(c.path) = "log"
    IN  IF draft \/ (Get(c) /\ log) THEN "unavailable"
        ELSE IF ~Get(c) THEN "elsewhere"
        ELSE IF c.path \notin ReviewPages THEN "not migrated"
        ELSE IF Readable(c) THEN "read" ELSE "invalid"

DecidesVideos(c, below) ==
    \/ c.method = "POST" /\ (below \in {<<"translate">>, <<"batch-review">>} \/ Last(below) = "review")
    \/ c.method = "PATCH" /\ Last(below) = "prompt"
    \/ c.method = "DELETE"

ReviewOfVideos(c) ==
    LET below == SubSeq(c.path, 2, Len(c.path))
    IN  IF c.path[1] = "homepage" THEN IF Len(c.path) > 3 THEN "unavailable" ELSE "not migrated"
        ELSE IF Get(c) /\ below \in {<< >>, <<"stats">>, <<"template-options">>}
        THEN IF Readable(c) THEN "read" ELSE "invalid"
        ELSE IF below = << >> THEN "not migrated"
        ELSE IF Get(c) /\ (below \in {<<"gpu-status">>, <<"today-by-gpu">>} \/ (Len(below) <= 2 /\ Last(below) = "log"))
        THEN "unavailable"
        ELSE IF DecidesVideos(c, below) THEN "elsewhere" ELSE "not migrated"

Subscriptions(c) ==
    IF Get(c) /\ Len(c.path) = 3 /\ c.path[3] \in {"overview", "trends", "breakdown", "subscribers"}
    THEN IF Readable(c) \/ c.path[3] = "breakdown" THEN "read" ELSE "invalid"
    ELSE "not migrated"

\* Links are read together and changed one by one.
LinkRoutes(c) ==
    IF c.path = <<"utm-links", "sources">> THEN IF Get(c) THEN "read" ELSE "method"
    ELSE IF Len(c.path) = 1 THEN IF c.method \in {"GET", "POST"} THEN "elsewhere" ELSE "method"
    ELSE IF Len(c.path) > 2 THEN "not migrated"
    ELSE IF c.path[2] \notin Ids THEN "invalid"
    ELSE IF c.method \in {"PUT", "DELETE"} THEN "elsewhere" ELSE "method"

\* The pages need a storage that is not set up: one may be disabled, none
\* uploaded.
LegalRoutes(c) ==
    LET below == SubSeq(c.path, 3, Len(c.path))
        Only(method, answer) == IF c.method = method THEN answer ELSE "method"
        ofPage == Len(below) >= 2 /\ below[1] = "legal-pages" /\ below[2] \in LegalPages
    IN  CASE below = <<"legal-pages">> -> Only("GET", "read")
          [] below = <<"legal-pages", "publishing-binding">> -> Only("PUT", IF Readable(c) THEN "elsewhere" ELSE "invalid")
          [] below = <<"legal-pages", "publishing-binding", "managed">> -> Only("POST", "elsewhere")
          [] below = <<"legal-pages", "publishing-binding", "verify">> -> Only("POST", "unavailable")
          [] ofPage /\ Len(below) = 2 /\ c.method = "DELETE" -> IF c.body = "confirmed" THEN "elsewhere" ELSE "invalid"
          [] /\ ofPage /\ c.method = "POST"
             /\ \/ Len(below) = 2
                \/ Len(below) = 3 /\ below[3] \in {"verify", "rollback"} -> "unavailable"
          [] OTHER -> "not migrated"

\* The routes of an application, its legal pages apart, are in Apps.
AppRoutes(c) ==
    IF Len(c.path) > 2 /\ c.path[1] = "apps" /\ c.path[3] = "legal-pages"
    THEN IF c.path[2] \in Ids THEN LegalRoutes(c) ELSE "invalid"
    ELSE "elsewhere"

Channels(c) ==
    IF c.path # <<"paycores", "channels-overview">> THEN "not migrated"
    ELSE IF Get(c) THEN "read" ELSE "method"

MenuRoutes(c) ==
    IF c.path # <<"system", "menu-visibility">> THEN "not migrated"
    ELSE IF c.method \in {"GET", "PUT"} THEN "elsewhere" ELSE "method"

FunnelRoutes(c) == IF Get(c) THEN "unavailable" ELSE "method"

\* What may be bought is read; the other settings are in Pricing.
PricingRoutes(c) ==
    IF c.path = <<"wallet", "packages">> THEN IF Get(c) THEN "read" ELSE "method"
    ELSE IF c.path \in {<<"wallet", "vip-config">>, <<"wallet", "subscription-strategy">>}
              \/ Under(c.path, <<"config", "system">>)
    THEN "elsewhere" ELSE "not migrated"

Purpose(h, c) ==
    CASE h = "view" -> View(c) [] h = "imageReview" -> ReviewOfImages(c) [] h = "videoReview" -> ReviewOfVideos(c)
      [] h = "subscription" -> Subscriptions(c) [] h = "utm" -> LinkRoutes(c) [] h = "apps" -> AppRoutes(c)
      [] h = "paycores" -> Channels(c) [] h = "menu" -> MenuRoutes(c) [] h = "funnel" -> FunnelRoutes(c)
      [] h = "pricing" -> PricingRoutes(c) [] OTHER -> "elsewhere"
-----------------------------------------------------------------------------
(* The steps of a request.                                                 *)

NoCall == [at |-> "ready", by |-> Nobody, role |-> "user", call |-> [method |-> "", path |-> << >>]]

DeskInit ==
    /\ staff = [p \in People |-> [role |-> FirstRole[p], status |-> "active"]]
    /\ desk = [r \in Requests |-> NoCall]
    /\ changed = << >>

\* The session's user is read; an active one has a role.
Ask(r, p, c) ==
    /\ desk[r].at = "ready"
    /\ staff[p].status = "active"
    /\ desk' = [desk EXCEPT ![r] =
          IF staff[p].role \in Admitted(HandlerOf(c.path), c)
          THEN [at |-> "admitted", by |-> p, role |-> staff[p].role, call |-> c]
          ELSE [NoCall EXCEPT !.at = "forbidden"]]
    /\ UNCHANGED <<staff, changed>>

\* A change of an account: what is asked of whom.
Change(c) ==
    [target |-> c.path[2],
     field |-> IF c.method = "DELETE" THEN "status" ELSE c.path[3],
     value |-> IF c.method = "DELETE" THEN "deleted" ELSE c.body]

\* What may be asked by a role, of others than oneself.
Permitted(by, role, m) ==
    /\ m.target # by
    /\ m.field = "status" => m.value \in {"active", "suspended", "deleted"}
    /\ m.field = "role" => role = "super_admin" /\ m.value \in {"user", "admin", "editor"}

\* Mistaken variant: an administrator reaches every other but the super administrators.
ReachableAlike(role, target) ==
    /\ target \in People
    /\ staff[target].role # "super_admin" /\ staff[target].status # "deleted"

\* Whom a role reaches, as the account now stands.
Reachable(role, target) ==
    /\ target \in People
    /\ staff[target].role # "super_admin"
    /\ role = "super_admin" \/ staff[target].role \in {"user", "editor"}
    /\ staff[target].status # "deleted"

\* One transaction: it reads the account and writes it with its audit.
ChangeUser(r) ==
    LET d == desk[r]
        m == Change(d.call)
    IN  /\ d.at = "admitted" /\ Purpose(HandlerOf(d.call.path), d.call) = "change"
        /\ IF Permitted(d.by, d.role, m) /\ Reachable(d.role, m.target)
           THEN /\ Len(changed) < MaxWrites
                /\ staff' = IF m.field = "role" THEN [staff EXCEPT ![m.target].role = m.value]
                            ELSE [staff EXCEPT ![m.target].status = m.value]
                /\ changed' = Append(changed, [by |-> d.by, target |-> m.target, field |-> m.field, value |-> m.value])
                /\ desk' = [desk EXCEPT ![r] = [NoCall EXCEPT !.at = "change"]]
           ELSE /\ desk' = [desk EXCEPT ![r] = [NoCall EXCEPT !.at = "forbidden"]]
                /\ UNCHANGED <<staff, changed>>

\* What touches no account is read here, or written where it is modelled.
AnswerOther(r) ==
    LET purpose == Purpose(HandlerOf(desk[r].call.path), desk[r].call)
    IN  /\ desk[r].at = "admitted" /\ purpose # "change"
        /\ desk' = [desk EXCEPT ![r].at = purpose]
        /\ UNCHANGED <<staff, changed>>

AskAgain(r) ==
    /\ desk[r].at \notin {"ready", "admitted"}
    /\ desk' = [desk EXCEPT ![r] = NoCall]
    /\ UNCHANGED <<staff, changed>>

DeskNext ==
    \E r \in Requests :
        \/ \E p \in People, c \in Asked : Ask(r, p, c)
        \/ ChangeUser(r) \/ AnswerOther(r) \/ AskAgain(r)

DeskSpec == DeskInit /\ [][DeskNext]_deskVars
-----------------------------------------------------------------------------
Roles == {"user", "editor", "admin", "super_admin"}

\* The shape of the accounts, of their changes and of the requests under way.
DeskTypeOK ==
    /\ staff \in [People -> [role : Roles, status : {"active", "suspended", "deleted"}]]
    /\ \A i \in 1..Len(changed) :
          /\ {changed[i].by, changed[i].target} \subseteq People
          /\ changed[i].field \in {"role", "status"}
    /\ \A r \in Requests : desk[r].by \in People \cup {Nobody} /\ desk[r].role \in Roles

\* The role of an account after the first n changes of the audit.
RoleAfter(n, p) ==
    LET given == {i \in 1..n : changed[i].target = p /\ changed[i].field = "role"}
    IN  IF given = {} THEN FirstRole[p] ELSE changed[Max(given)].value

\* And its status.
StatusAfter(n, p) ==
    LET given == {i \in 1..n : changed[i].target = p /\ changed[i].field = "status"}
    IN  IF given = {} THEN "active" ELSE changed[Max(given)].value

\* The audit tells how every account came to stand as it does.  No super
\* administrator is made or touched by any change, so whoever gave a role still
\* has his own when it is given; who was an administrator at the time was changed
\* by a super administrator; and what is deleted stays so.
ChangesAreDue ==
    /\ \A p \in People :
          /\ staff[p] = [role |-> RoleAfter(Len(changed), p), status |-> StatusAfter(Len(changed), p)]
          /\ staff[p].role = "super_admin" <=> FirstRole[p] = "super_admin"
          /\ FirstRole[p] = "super_admin" => staff[p].status = "active"
    /\ \A i \in 1..Len(changed) :
          LET m == changed[i]
          IN  /\ m.by # m.target /\ StatusAfter(i - 1, m.target) # "deleted"
              /\ m.field = "role" \/ RoleAfter(i - 1, m.target) = "admin" => FirstRole[m.by] = "super_admin"

\* A request with effects is no reading, and no setting of the site is touched,
\* here or in another projection, for one who is no super administrator.
PurposesFit ==
    \A r \in Requests :
        desk[r].at \in {"write", "elsewhere"} =>
            LET d == desk[r]
            IN  /\ d.at = "write" => d.call.method # "GET" /\ d.role \in Admins
                /\ d.role \notin Admins => HandlerOf(d.call.path) = "blog"
                /\ HandlerOf(d.call.path) \in {"utm", "menu"} => FirstRole[d.by] = "super_admin"
                /\ HandlerOf(d.call.path) = "apps" /\ d.call.method # "GET" => FirstRole[d.by] = "super_admin"

\* Both, for every order in which the requests are admitted and served.
DeskSafe == ChangesAreDue /\ PurposesFit
=============================================================================
