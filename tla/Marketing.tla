------------------------------ MODULE Marketing ------------------------------
(***************************************************************************)
(* Tracking links and blog posts, and the staff who edit them.             *)
(*                                                                         *)
(* A link is read into a form, edited, switched on and off, and counted by *)
(* the short-link redirect of the legacy service while that goes on.  A    *)
(* write names the fields it sets and leaves the others; with its audit    *)
(* fact it is one transaction, and unique indexes on the slugs decide      *)
(* between writers.  Posts are published and unpublished the same way.     *)
(***************************************************************************)
EXTENDS Integers, FiniteSets

CONSTANTS
    TrackingLinks, Posts,  \* identifiers
    Staff, RoleOf,   \* editor, admin or super_admin
    LinkForms,       \* inputs a link's form sends
    PostForms,       \* inputs a post's form sends
    Normalized,      \* the slug a text normalizes to, or BadSlug
    SlugOfTitle,     \* the slug derived from a title
    QueryOf,         \* parameters a target path carries itself, for the paths that parse
    Unset,           \* a field the input does not name
    BadSlug, NoSlug,
    MaxClicks,       \* bound: redirects
    MaxEdits         \* bound: committed writes, which are also the clock

UtmKeys == {"utm_source", "utm_medium"}
PostStatuses == {"draft", "published", "archived"}

\* What a slug normalizes to is not the mark of a link that is not there, and a
\* link is switched on or off or left alone.
ASSUME MarketingAssumption ==
    /\ \A form \in LinkForms : form.slug # Unset => Normalized[form.slug] # NoSlug
    /\ \A form \in LinkForms : form.enabled \in BOOLEAN \cup {Unset}
    /\ MaxClicks \in Nat /\ MaxEdits \in Nat

VARIABLES
    links,        \* utmlinks
    posts,        \* blog_posts
    marketingAudits,  \* audit facts of both
    clicked,      \* redirects through each link since its creation
    forms         \* the link each member of staff has open

marketingVars == <<links, posts, marketingAudits, clicked, forms>>
-----------------------------------------------------------------------------
NoLink == [slug |-> NoSlug, target |-> "/", source |-> "", medium |-> "", extra |-> {},
           enabled |-> FALSE, clicks |-> 0, born |-> 0]
NoPost == [slug |-> NoSlug, title |-> "", status |-> "draft", published |-> 0]
Now == Cardinality(marketingAudits) + 1
AuditFact(a, what, target) == [at |-> Now, by |-> a, action |-> what, target |-> target]
LinkExists(l) == links[l] # NoLink
PostExists(p) == posts[p] # NoPost
Free(l, slug) == \A m \in TrackingLinks \ {l} : links[m].slug # slug
PostSlugFree(p, slug) == \A m \in Posts \ {p} : posts[m].slug # slug

MarketingInit ==
    /\ links = [l \in TrackingLinks |-> NoLink]
    /\ posts = [p \in Posts |-> NoPost]
    /\ marketingAudits = {}
    /\ clicked = [l \in TrackingLinks |-> 0]
    /\ forms = [a \in Staff |-> NoLink]

\* Links are a super administrator's, posts also an administrator's or editor's.
AuthorizeLinks(a) == RoleOf[a] = "super_admin"
AuthorizePosts(a) == RoleOf[a] \in {"editor", "admin", "super_admin"}
-----------------------------------------------------------------------------
(* Links.                                                                  *)

\* Parameters named utm_ are dropped, as are empty and overlong names; of two
\* names that trim to the same one, map order decides which value stays.
SanitizeExtraParams(extra) ==
    LET kept == {e \in extra : ~e.utm /\ ~e.overlong}
        names == {e.key : e \in kept} IN
    {{[key |-> k, value |-> f[k]] : k \in names} :
        f \in {g \in [names -> {e.value : e \in kept}] :
                  \A k \in names : [key |-> k, value |-> g[k]] \in {[key |-> e.key, value |-> e.value] : e \in kept}}}

\* A form is refused for a slug of the wrong shape, an empty source or an
\* overlong field, and on creation when it lacks slug or source.
NormalizeInput(form, creating) ==
    /\ form.slug # Unset => Normalized[form.slug] # BadSlug
    /\ form.source # "" /\ ~form.overlong
    /\ creating => form.slug # Unset /\ form.source # Unset

Or(value, fallback) == IF value = Unset THEN fallback ELSE value
NormalizeTargetPath(path) == IF path \in {"", Unset} THEN "/" ELSE path

\* A document of the fields a form names, with the defaults of the others.
NewLink(form, extra) ==
    [slug |-> Normalized[form.slug], target |-> NormalizeTargetPath(form.target),
     source |-> form.source,
     medium |-> IF form.medium \in {"", Unset} THEN "banner" ELSE form.medium,
     extra |-> extra, enabled |-> Or(form.enabled, TRUE), clicks |-> 0, born |-> Now]

\* The fields a form names over those of a document.
SetFields(link, form, extra) ==
    [link EXCEPT !.slug = IF form.slug = Unset THEN @ ELSE Normalized[form.slug],
                 !.target = IF form.target = Unset THEN @ ELSE NormalizeTargetPath(form.target),
                 !.source = Or(form.source, @), !.medium = Or(form.medium, @),
                 !.extra = IF form.extra = Unset THEN @ ELSE extra,
                 !.enabled = Or(form.enabled, @)]

TakesSlug(l, slug) == Free(l, slug)

\* The parameters a form leaves behind, once cleaned.
Cleaned(form) == IF form.extra = Unset THEN {{}} ELSE SanitizeExtraParams(form.extra)

CreateLink(a, l, form) ==
    /\ AuthorizeLinks(a) /\ ~LinkExists(l) /\ NormalizeInput(form, TRUE)
    /\ TakesSlug(l, Normalized[form.slug])
    /\ Now <= MaxEdits
    /\ \E extra \in Cleaned(form) : links' = [links EXCEPT ![l] = NewLink(form, extra)]
    /\ marketingAudits' = marketingAudits \cup {AuditFact(a, "utm_link_create", l)}
    /\ clicked' = [clicked EXCEPT ![l] = 0]
    /\ UNCHANGED <<posts, forms>>

NamesAField(form) ==
    \/ form.slug # Unset \/ form.target # Unset \/ form.source # Unset
    \/ form.medium # Unset \/ form.extra # Unset \/ form.enabled # Unset

UpdateLink(a, l, form) ==
    /\ AuthorizeLinks(a) /\ LinkExists(l)
    /\ NormalizeInput(form, FALSE) /\ NamesAField(form)
    /\ form.slug # Unset => TakesSlug(l, Normalized[form.slug])
    /\ Now <= MaxEdits
    /\ \E extra \in Cleaned(form) : links' = [links EXCEPT ![l] = SetFields(links[l], form, extra)]
    /\ marketingAudits' = marketingAudits \cup {AuditFact(a, "utm_link_update", l)}
    /\ UNCHANGED <<posts, clicked, forms>>

\* The switch of the list sends the field it switches and nothing else.
Toggle(a, l) ==
    /\ forms[a].born = links[l].born
    /\ UpdateLink(a, l, [slug |-> Unset, target |-> Unset, source |-> Unset, medium |-> Unset,
                         extra |-> Unset, overlong |-> FALSE, enabled |-> ~forms[a].enabled])

DeleteLink(a, l) ==
    /\ AuthorizeLinks(a) /\ LinkExists(l) /\ Now <= MaxEdits
    /\ links' = [links EXCEPT ![l] = NoLink]
    /\ marketingAudits' = marketingAudits \cup {AuditFact(a, "utm_link_delete", l)}
    /\ UNCHANGED <<posts, clicked, forms>>

\* Listing the links puts one of them before a member of staff.
ListLinks(a, l) ==
    /\ AuthorizeLinks(a) /\ LinkExists(l)
    /\ forms' = [forms EXCEPT ![a] = links[l]]
    /\ UNCHANGED <<links, posts, marketingAudits, clicked>>

\* The legacy redirect counts a click in place.
Click(l) ==
    /\ LinkExists(l) /\ links[l].enabled /\ links[l].clicks < MaxClicks
    /\ links' = [links EXCEPT ![l].clicks = @ + 1]
    /\ clicked' = [clicked EXCEPT ![l] = @ + 1]
    /\ UNCHANGED <<posts, marketingAudits, forms>>

\* The link's own parameters replace those of its target path.
Dedicated(own, dedicated) == [k \in DOMAIN own \cup DOMAIN dedicated |->
                                 IF k \in DOMAIN dedicated THEN dedicated[k] ELSE own[k]]

Parses(target) == target \in DOMAIN QueryOf
NoAddress == << >>

\* The address a link stands for, none if its target path does not parse; extra
\* parameters add to it and fill in what it leaves empty.
FullURL(link) ==
    LET fields == [utm_source |-> link.source, utm_medium |-> link.medium]
        base == Dedicated(QueryOf[link.target],
                          [k \in {u \in UtmKeys : fields[u] # ""} |-> fields[k]])
        added == {e \in link.extra : e.key \notin DOMAIN base \/ base[e.key] = ""}
        fillers == {e.key : e \in added} IN
    IF ~Parses(link.target) THEN NoAddress
    ELSE [k \in DOMAIN base \cup fillers |->
             IF k \in fillers THEN (CHOOSE e \in added : e.key = k).value ELSE base[k]]
-----------------------------------------------------------------------------
(* Posts.                                                                  *)

\* Without a slug of its own a post goes by one derived from its title.
SlugFor(form) == IF form.slug \in {Unset, ""} THEN SlugOfTitle[form.title] ELSE form.slug

NormalizePost(form, creating) ==
    /\ form.status \in PostStatuses \cup {Unset}
    /\ form.title # ""
    /\ creating => form.title # Unset

\* What becomes published is dated now, also when it already was.
Dated(post, status) == IF status = "published" THEN Now ELSE post.published

CreatePost(a, p, form) ==
    /\ AuthorizePosts(a) /\ ~PostExists(p) /\ NormalizePost(form, TRUE)
    /\ SlugFor(form) # NoSlug /\ PostSlugFree(p, SlugFor(form))
    /\ Now <= MaxEdits
    /\ LET status == Or(form.status, "draft") IN
       posts' = [posts EXCEPT ![p] = [slug |-> SlugFor(form), title |-> form.title, status |-> status,
                                      published |-> Dated(NoPost, status)]]
    /\ marketingAudits' = marketingAudits \cup {AuditFact(a, "blog_create", p)}
    /\ UNCHANGED <<links, clicked, forms>>

\* An update names its fields; an empty slug names none.
UpdatePost(a, p, form) ==
    LET slug == IF form.slug \in {Unset, ""} THEN posts[p].slug ELSE form.slug IN
    /\ AuthorizePosts(a) /\ PostExists(p) /\ NormalizePost(form, FALSE)
    /\ PostSlugFree(p, slug)
    /\ Now <= MaxEdits
    /\ posts' = [posts EXCEPT ![p] =
           [slug |-> slug, title |-> Or(form.title, @.title), status |-> Or(form.status, @.status),
            published |-> Dated(@, form.status)]]
    /\ marketingAudits' = marketingAudits \cup {AuditFact(a, "blog_update", p)}
    /\ UNCHANGED <<links, clicked, forms>>

SetStatus(a, p, status, action) ==
    /\ AuthorizePosts(a) /\ PostExists(p) /\ Now <= MaxEdits
    /\ posts' = [posts EXCEPT ![p].status = status,
                              ![p].published = IF status = "published" THEN Now ELSE @]
    /\ marketingAudits' = marketingAudits \cup {AuditFact(a, action, p)}
    /\ UNCHANGED <<links, clicked, forms>>

PublishPost(a, p) == SetStatus(a, p, "published", "blog_publish")
UnpublishPost(a, p) == SetStatus(a, p, "draft", "blog_unpublish")

DeletePost(a, p) ==
    /\ AuthorizePosts(a) /\ PostExists(p) /\ Now <= MaxEdits
    /\ posts' = [posts EXCEPT ![p] = NoPost]
    /\ marketingAudits' = marketingAudits \cup {AuditFact(a, "blog_delete", p)}
    /\ UNCHANGED <<links, clicked, forms>>
-----------------------------------------------------------------------------
MarketingNext ==
    \/ \E a \in Staff, l \in TrackingLinks :
          \/ \E form \in LinkForms : CreateLink(a, l, form) \/ UpdateLink(a, l, form)
          \/ Toggle(a, l)
          \/ DeleteLink(a, l)
          \/ ListLinks(a, l)
    \/ \E l \in TrackingLinks : Click(l)
    \/ \E a \in Staff, p \in Posts :
          \/ \E form \in PostForms : CreatePost(a, p, form) \/ UpdatePost(a, p, form)
          \/ PublishPost(a, p)
          \/ UnpublishPost(a, p)
          \/ DeletePost(a, p)

MarketingSpec == MarketingInit /\ [][MarketingNext]_marketingVars
-----------------------------------------------------------------------------
MarketingTypeOK ==
    /\ \A l \in TrackingLinks : links[l].clicks \in 0..MaxClicks /\ links[l].enabled \in BOOLEAN
    /\ \A p \in Posts : posts[p].status \in PostStatuses /\ posts[p].published \in 0..MaxEdits
    /\ Cardinality(marketingAudits) <= MaxEdits
    /\ clicked \in [TrackingLinks -> 0..MaxClicks]

\* Saves from stale forms and switches take no redirect back: a link's clicks
\* are those counted since its creation (data/admin_utm.go, Update).
ClicksCounted == \A l \in TrackingLinks : LinkExists(l) => links[l].clicks = clicked[l]

\* A link that has an address is named by it with its own source and medium,
\* whatever parameters its target path carries and its form adds, and no two
\* links share their short address, whether or not they have a full one
\* (data/admin_utm.go, buildAdminUTMURL; schema index ux_utmlinks_slug).
LinksUnmistakable ==
    \A l \in TrackingLinks : LinkExists(l) =>
        /\ Parses(links[l].target) =>
              /\ FullURL(links[l])["utm_source"] = links[l].source
              /\ links[l].medium # "" => FullURL(links[l])["utm_medium"] = links[l].medium
        /\ Free(l, links[l].slug)

\* What readers see as published has a date, and the date is that of a write to
\* that post in the audit (data/admin_blog.go, Create, Update, setStatus).
PublishedDated ==
    \A p \in Posts : PostExists(p) /\ posts[p].status = "published" =>
        \E w \in marketingAudits : w.target = p /\ w.at = posts[p].published

\* What visitors rely on, whatever stale forms the staff save.
MarketingSafe == ClicksCounted /\ LinksUnmistakable /\ PublishedDated
=============================================================================
