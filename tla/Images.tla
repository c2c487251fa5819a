------------------------------- MODULE Images -------------------------------
(***************************************************************************)
(* The administration of legacy images.  Three collections of the old      *)
(* site, generated images, face swaps and try-ons, are listed, counted and *)
(* hidden as if they were one: a list counts and reads each collection in  *)
(* turn, merges what it read by creation time and cuts out the page, while *)
(* other operators hide, restore and delete images between its reads.      *)
(***************************************************************************)
EXTENDS Sorting, Functions

CONSTANTS
    Libraries,      \* what the old site's collections may hold, by image id
    ImageQueries,   \* the lists operators ask for
    Batches,        \* the sets of ids of a batch
    MaxFetch,       \* documents read from a collection at most
    MaxPageSize,    \* images on a page at most
    DefaultLimit,
    Today,          \* creation times from this one on are today's
    Fallbacks(_),   \* providers whose images count as a pool's unless it is declared
    Pools,          \* the known pools
    Sources(_),     \* client sources a filter on the source stands for
    MaxImageChanges, \* bound on the changes explored
    MissingField    \* a field the document does not have

Collections == <<"generatedimages", "faceswaptasks", "tryontasks">>
DocumentFields ==
    {"collection", "generation", "tool", "kind", "status", "public", "created", "title", "client", "pool",
     "provider", "inputs"}

Mutations == {"hide", "restore", "delete"}
ImageStatuses == {"pending", "approved", "active", "hidden", "rejected", "deleted", MissingField} \cup Mutations

Public(d) == d.public => d.status \notin {"hide", "hidden", "delete", "deleted"}

\* What a library holds: documents of the three collections, created at different
\* times (lists sort by the time alone, so that images of one time have no order),
\* with no withdrawn image in the public gallery.
ASSUME ImagesAssumption ==
    /\ \A lib \in Libraries :
          /\ IsFiniteSet(DOMAIN lib)
          /\ \A id \in DOMAIN lib :
                /\ DOMAIN lib[id] = DocumentFields /\ lib[id].created \in Int
                /\ lib[id].status \in ImageStatuses
                /\ \E i \in 1..3 : lib[id].collection = Collections[i]
                /\ lib[id].collection = "generatedimages" => Public(lib[id])
          /\ \A id, other \in DOMAIN lib : id # other => lib[id].created # lib[other].created
    /\ \A q \in ImageQueries : q.page \in Int /\ q.limit \in Int
    /\ MaxFetch \in Nat /\ MaxPageSize \in Nat /\ DefaultLimit \in 1..MaxPageSize

VARIABLES
    images,         \* the documents of the three collections
    list,           \* the list under way
    batch,          \* the batch under way
    stats,          \* the counts under way
    options,        \* the template options under way
    imageChanges    \* bound: single images changed and batches begun so far

imageVars == <<images, list, batch, stats, options, imageChanges>>
-----------------------------------------------------------------------------
InCollection(c) == {id \in DOMAIN images : images[id].collection = c}

\* What each collection is taken to hold: finished images.
Finished(d) ==
    /\ d.generation = "completed"
    /\ d.collection = "generatedimages" => d.tool # "seo-agent"
    /\ d.collection = "faceswaptasks" => d.kind = "image"

ActiveOrMissing(d) == d.status \in {"active", MissingField}
IsActive(d) ==
    IF d.collection = "generatedimages" THEN d.status \in {"pending", "approved", "active"} ELSE ActiveOrMissing(d)
IsHidden(d) == d.status \in {"hidden", "rejected"}

\* The status a list asks for; hidden means rejected too only of generated images.
StatusFits(d, status) ==
    CASE status = "all" -> TRUE
      [] status = "active" -> IsActive(d)
      [] status = "hidden" /\ d.collection = "generatedimages" -> IsHidden(d)
      [] OTHER -> d.status = status

SubTools == {"t2i", "i2i", "undress", "doubleAction", "sexPose"}
ToolFits(d, source) ==
    source \in SubTools => IF source = "t2i" THEN d.tool \in {"t2i", MissingField} ELSE d.tool = source

TemplateFits(d, template) ==
    CASE template = "all" -> TRUE
      [] template = "__none__" -> d.title = MissingField
      [] template = "__any__" -> d.title # MissingField
      [] OTHER -> d.title = template

SourceFits(d, client) == client = "all" \/ d.client \in Sources(client)

\* A pool is the declared one, or else the one of the provider; a pool the
\* program does not know filters nothing.
PoolFits(d, pool) ==
    CASE pool = "unknown" ->
            d.pool \in {MissingField, "unknown"} /\ \A p \in Pools : d.provider \notin Fallbacks(p)
      [] pool \in Pools ->
            d.pool = pool \/ (d.provider \in Fallbacks(pool) /\ d.pool \in {MissingField, "unknown"})
      [] OTHER -> TRUE

\* The collections a query reads.
Includes(c, q) ==
    CASE c = "generatedimages" -> q.source \in {"all", "generated"} \cup SubTools
      [] c = "faceswaptasks" -> ~q.multi /\ q.pool \in {"all", "external"} /\ q.source \in {"all", "faceswap"}
      [] c = "tryontasks" -> ~q.multi /\ q.pool \in {"all", "qwen-edit-default"} /\ q.source \in {"all", "tryon"}

\* Face swaps and try-ons have no images without a template: asking for those
\* drops the whole filter, and the collection is skipped only if no client
\* source is asked for either.
Unfiltered(c, q) == c # "generatedimages" /\ q.template = "__none__"
Skipped(c, q) == ~Includes(c, q) \/ (Unfiltered(c, q) /\ q.client = "all")

Fits(d, q) ==
    /\ ~Unfiltered(d.collection, q) =>
          Finished(d) /\ StatusFits(d, q.status) /\ TemplateFits(d, q.template)
    /\ SourceFits(d, q.client)
    /\ d.collection = "generatedimages" =>
          ToolFits(d, q.source) /\ PoolFits(d, q.pool) /\ (q.multi => d.inputs >= 2)
    /\ q.today => d.created >= Today
-----------------------------------------------------------------------------
\* A query as it is run: page and limit within their bounds, and as many
\* documents of each collection as the page could possibly need.
Limit(q) == CASE q.limit < 1 -> DefaultLimit [] q.limit > MaxPageSize -> MaxPageSize [] OTHER -> q.limit
Skip(q) == IF q.page < 1 THEN 0 ELSE (q.page - 1) * Limit(q)

\* Mistaken variant: a page is read as if it were the first one.
FetchFirst(q) == IF Limit(q) > MaxFetch THEN MaxFetch ELSE Limit(q)
FetchLimit(q) == IF Skip(q) + Limit(q) > MaxFetch THEN MaxFetch ELSE Skip(q) + Limit(q)

\* The images by creation time, the newest first.
ByTime(lib) == {p \in (DOMAIN lib) \X (DOMAIN lib) : lib[p[1]].created > lib[p[2]].created}
Newest(ids, lib) == Sorted(ids, ByTime(lib))

\* The page of a merged list.
PageOf(merged, q) ==
    SubSeq(merged, Skip(q) + 1, IF Skip(q) + Limit(q) > Len(merged) THEN Len(merged) ELSE Skip(q) + Limit(q))

NoList == [pc |-> "idle", query |-> MissingField, at |-> 1, total |-> 0, read |-> {},
           page |-> << >>, quiet |-> TRUE]
NoBatch == [pc |-> "idle", ids |-> {}, at |-> 1]
NoStats == [pc |-> "idle", at |-> 1, active |-> 0, hidden |-> 0, deleted |-> 0, today |-> 0, quiet |-> TRUE]
NoOptions == [pc |-> "idle", at |-> 1, rows |-> {}, without |-> 0]

ImagesTypeOK ==
    /\ \A id \in DOMAIN images : images[id].status \in ImageStatuses
    /\ list.read \subseteq DOMAIN images /\ Len(list.page) <= MaxPageSize
    /\ batch.ids \subseteq UNION Batches
    /\ stats.today <= Cardinality(DOMAIN images)

ImagesInit ==
    /\ images \in Libraries
    /\ list = NoList /\ batch = NoBatch /\ stats = NoStats
    /\ options = NoOptions /\ imageChanges = 0
-----------------------------------------------------------------------------
(* The list.  Reads do not disturb one another, so that one of them at a    *)
(* time is under way.                                                       *)

NoReader == list.pc = "idle" /\ stats.pc = "idle" /\ options.pc = "idle"

BeginList ==
    /\ NoReader
    /\ \E q \in ImageQueries :
        list' = [NoList EXCEPT !.pc = "count", !.query = q]
    /\ UNCHANGED <<images, batch, stats, options, imageChanges>>

Here == Collections[list.at]
NextCollection(l) ==
    IF l.at = Len(Collections) THEN [l EXCEPT !.pc = "merge"] ELSE [l EXCEPT !.pc = "count", !.at = @ + 1]

SkipCollection ==
    /\ list.pc = "count" /\ Skipped(Here, list.query)
    /\ list' = NextCollection(list)
    /\ UNCHANGED <<images, batch, stats, options, imageChanges>>

CountCollection ==
    /\ list.pc = "count" /\ ~Skipped(Here, list.query)
    /\ list' = [list EXCEPT !.pc = "find",
                           !.total = @ + Cardinality({id \in InCollection(Here) : Fits(images[id], list.query)})]
    /\ UNCHANGED <<images, batch, stats, options, imageChanges>>

\* The newest documents that fit, as many as the query fetches.
FindCollection ==
    /\ list.pc = "find"
    /\ LET found == Newest({id \in InCollection(Here) : Fits(images[id], list.query)}, images)
       IN list' = NextCollection([list EXCEPT !.read = @ \cup Range(Leading(found, FetchLimit(list.query)))])
    /\ UNCHANGED <<images, batch, stats, options, imageChanges>>

\* What was read, merged and cut.
MergeList ==
    /\ list.pc = "merge"
    /\ list' = [list EXCEPT !.pc = "answered", !.page = PageOf(Newest(list.read, images), list.query)]
    /\ UNCHANGED <<images, batch, stats, options, imageChanges>>

ListFails ==
    /\ list.pc \in {"count", "find", "merge"}
    /\ list' = NoList
    /\ UNCHANGED <<images, batch, stats, options, imageChanges>>

ListDone ==
    /\ list.pc = "answered"
    /\ list' = NoList
    /\ UNCHANGED <<images, batch, stats, options, imageChanges>>
-----------------------------------------------------------------------------
(* Hiding, restoring and deleting.                                          *)

\* A change of any image between the reads of a list or of the counts.
Disturb ==
    /\ list' = [list EXCEPT !.quiet = list.pc = "idle"]
    /\ stats' = [stats EXCEPT !.quiet = stats.pc = "idle"]
    /\ UNCHANGED options

\* A generated image that is hidden or deleted leaves the public gallery;
\* restoring it does not bring it back there.
Withdrawn(d, status) ==
    [d EXCEPT !.status = status,
              !.public = @ /\ (d.collection = "generatedimages" => status \notin {"hide", "hidden", "delete"})]

\* One image: the collections are tried in turn and the first that has the id
\* is changed, to the name of the mutation.
Mutate ==
    /\ imageChanges < MaxImageChanges /\ imageChanges' = imageChanges + 1
    /\ \E id \in DOMAIN images, m \in Mutations :
        images' = [images EXCEPT ![id] = Withdrawn(@, m)]
    /\ Disturb
    /\ UNCHANGED batch

\* Many: one update for each collection, which an error may interrupt.
BeginBatch ==
    /\ batch.pc = "idle" /\ imageChanges < MaxImageChanges /\ imageChanges' = imageChanges + 1
    /\ \E ids \in Batches : batch' = [pc |-> "updating", ids |-> ids, at |-> 1]
    /\ UNCHANGED <<images, list, stats, options>>

BatchCollection ==
    /\ batch.pc = "updating"
    /\ images' = [id \in DOMAIN images |->
                    IF id \in batch.ids /\ images[id].collection = Collections[batch.at]
                    THEN Withdrawn(images[id], "hidden") ELSE images[id]]
    /\ batch' = IF batch.at = Len(Collections) THEN NoBatch ELSE [batch EXCEPT !.at = @ + 1]
    /\ Disturb
    /\ UNCHANGED imageChanges

BatchFails ==
    /\ batch.pc = "updating"
    /\ batch' = NoBatch
    /\ UNCHANGED <<images, list, stats, options, imageChanges>>
-----------------------------------------------------------------------------
(* The counts of the overview: four queries for each collection.            *)

BeginStats ==
    /\ NoReader
    /\ stats' = [NoStats EXCEPT !.pc = "active"]
    /\ UNCHANGED <<images, list, batch, options, imageChanges>>

Counted(Test(_)) ==
    Cardinality({id \in InCollection(Collections[stats.at]) : Finished(images[id]) /\ Test(images[id])})

CountActive ==
    /\ stats.pc = "active"
    /\ stats' = [stats EXCEPT !.pc = "hidden", !.active = @ + Counted(IsActive)]
    /\ UNCHANGED <<images, list, batch, options, imageChanges>>
CountHidden ==
    /\ stats.pc = "hidden"
    /\ stats' = [stats EXCEPT !.pc = "deleted", !.hidden = @ + Counted(IsHidden)]
    /\ UNCHANGED <<images, list, batch, options, imageChanges>>
CountDeleted ==
    /\ stats.pc = "deleted"
    /\ stats' = [stats EXCEPT !.pc = "today", !.deleted = @ + Counted(LAMBDA d : d.status = "deleted")]
    /\ UNCHANGED <<images, list, batch, options, imageChanges>>
CountToday ==
    /\ stats.pc = "today"
    /\ LET done == [stats EXCEPT !.today = @ + Counted(LAMBDA d : d.created >= Today)]
       IN stats' = IF stats.at = Len(Collections) THEN [done EXCEPT !.pc = "answered"]
                   ELSE [done EXCEPT !.pc = "active", !.at = @ + 1]
    /\ UNCHANGED <<images, list, batch, options, imageChanges>>
StatsDone ==
    /\ stats.pc = "answered"
    /\ stats' = NoStats
    /\ UNCHANGED <<images, list, batch, options, imageChanges>>

-----------------------------------------------------------------------------
(* The templates to choose from: one aggregation for each collection, whose *)
(* rows are added up by title.                                              *)

BeginOptions ==
    /\ NoReader
    /\ options' = [NoOptions EXCEPT !.pc = "reading"]
    /\ UNCHANGED <<images, list, batch, stats, imageChanges>>

\* Only generated images are counted when they have no template.
AggregateTemplates ==
    /\ options.pc = "reading"
    /\ LET here == Collections[options.at]
           finished == {id \in InCollection(here) : Finished(images[id])}
           titled == {id \in finished : images[id].title # MissingField}
       IN options' = [pc |-> IF options.at = Len(Collections) THEN "answered" ELSE "reading",
                      at |-> IF options.at = Len(Collections) THEN 1 ELSE options.at + 1,
                      rows |-> options.rows \cup {<<images[id].title, id>> : id \in titled},
                      without |-> IF here = "generatedimages" THEN Cardinality(finished \ titled)
                                  ELSE options.without]
    /\ UNCHANGED <<images, list, batch, stats, imageChanges>>

OptionsDone ==
    /\ options.pc = "answered"
    /\ options' = NoOptions
    /\ UNCHANGED <<images, list, batch, stats, imageChanges>>

ImagesNext ==
    \/ BeginList \/ SkipCollection \/ CountCollection \/ FindCollection \/ MergeList \/ ListFails \/ ListDone
    \/ Mutate \/ BeginBatch \/ BatchCollection \/ BatchFails
    \/ BeginStats \/ CountActive \/ CountHidden \/ CountDeleted \/ CountToday \/ StatsDone
    \/ BeginOptions \/ AggregateTemplates \/ OptionsDone

ImagesSpec == ImagesInit /\ [][ImagesNext]_imageVars
-----------------------------------------------------------------------------
\* The page of a list nothing was changed under is the page of one collection
\* that holds all the images that fit, as long as the page ends within what is
\* fetched of each; and its total is their number.
Answerable(q) == Skip(q) + Limit(q) <= MaxFetch
PageIsExact ==
    list.pc = "answered" /\ list.quiet /\ Answerable(list.query) =>
        LET q == list.query
            all == {id \in DOMAIN images : ~Skipped(images[id].collection, q) /\ Fits(images[id], q)}
        IN list.page = PageOf(Newest(all, images), q) /\ list.total = Cardinality(all)

\* No image of the public gallery is hidden or deleted, whether one by one or
\* in a batch that failed half way.
PublicNotHidden ==
    \A id \in InCollection("generatedimages") : Public(images[id])

\* What operators are shown and the public is spared.
ImagesSafe == PageIsExact /\ PublicNotHidden
=============================================================================
