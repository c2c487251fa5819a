------------------------------- MODULE Reviews -------------------------------
(***************************************************************************)
(* Moderation: the projection of legacy media, and its operators' verdicts.*)
(*                                                                         *)
(* An importer closes the readers' fence, scans the legacy collections     *)
(* document by document, inserts what is not there yet, and opens the      *)
(* fence again when nothing was orphaned or contradictory.  Operators list *)
(* items and decide on one or on many of them; the mutation under its      *)
(* version, the audit fact, the outbox event and the reading of the fence  *)
(* share one transaction.  The audit fact, kept under a hash of the        *)
(* request's key, is also what a repeated request is recognised by: for a  *)
(* single decision by its verdict and actor, for a batch by its items too. *)
(***************************************************************************)
EXTENDS Integers, Sequences, FiniteSets

CONSTANTS
    Items,          \* legacy documents, and the items projected from them, oldest first
    SourceOf,       \* the legacy collection of each
    Documents,      \* what the legacy service may hold under an id
    Operators,
    Keys,           \* idempotency keys clients send; NoKey when they do not
    NoKey,
    Imports,        \* runs of the importer
    MaxDecisions,   \* bound: decisions taken
    Queries,        \* pages operators ask for
    PageSize,       \* items on a page
    MaxChanges      \* bound: changes of the legacy collections

Media == {"image", "video"}
Actions == {"approve", "reject", "prompt", "delete"}
LegacySources == {"generatedimages", "generatedvideos", "animates", "faceswaptasks"}
Verdicts == {"pending", "approved", "rejected", "deleted"}
Generations == {"succeeded", "generating", "failed", "cancelled"}

ASSUME ReviewsAssumption ==
    /\ SourceOf \in [Items -> LegacySources]
    /\ Queries \subseteq
            [media : Media, status : Verdicts \cup {"all"}, source : {"all", "generated", "animate", "faceswap"},
             pool : {"all", "external", "unknown"}, template : {"all", "__none__", "__any__"},
             page : Nat \ {0}]
    /\ Items \subseteq Nat /\ IsFiniteSet(Items) /\ PageSize \in Nat \ {0}
    /\ Documents \subseteq
            [whole : BOOLEAN, type : STRING, status : STRING, public : {"unset", "public", "private"},
             generation : STRING, titled : BOOLEAN]
    /\ MaxDecisions \in Nat /\ MaxChanges \in Nat

VARIABLES
    legacy,      \* the legacy documents
    changes,
    items,       \* admin_review_items
    audits,      \* audit facts of decisions
    events,      \* outbox events of decisions
    fence,       \* admin_review_projection_state
    runs,        \* where each import stands
    seen,        \* versions each operator last listed
    answers      \* last answer to each operator

reviewVars == <<legacy, changes, items, audits, events, fence, runs, seen, answers>>
-----------------------------------------------------------------------------
Unknown == [media |-> "none", status |-> "none", visibility |-> "none",
            generation |-> "none", titled |-> FALSE, version |-> 0]
Projected == {i \in Items : items[i] # Unknown}
NoAnswer == [ok |-> FALSE, told |-> {}]
Waiting == [at |-> "waiting", left |-> {}, clean |-> TRUE]

ReviewsInit ==
    /\ legacy \in [Items -> Documents]
    /\ changes = 0
    /\ items = [i \in Items |-> Unknown]
    /\ audits = {} /\ events = {}
    /\ fence = [ready |-> FALSE, run |-> "none"]
    /\ runs = [n \in Imports |-> Waiting]
    /\ seen = [o \in Operators |-> [i \in Items |-> 0]]
    /\ answers = [o \in Operators |-> NoAnswer]
-----------------------------------------------------------------------------
(* The importer.                                                           *)

importStands == <<legacy, changes, audits, events, seen, answers>>

\* The first write of an import closes the fence.
CloseFence(n) ==
    /\ runs[n].at = "waiting"
    /\ fence' = [ready |-> FALSE, run |-> n]
    /\ runs' = [runs EXCEPT ![n] = [@ EXCEPT !.at = "scanning", !.left = Items]]
    /\ UNCHANGED <<importStands, items>>

\* The medium follows from the collection, and for a face swap from its type;
\* "none" where the type is unknown.
MediaAndOutput(source, d) ==
    CASE source = "generatedimages" -> "image"
      [] source \in {"generatedvideos", "animates"} -> "video"
      [] source = "faceswaptasks" ->
            CASE d.type \in {"", "video"} -> "video" [] d.type = "image" -> "image" [] OTHER -> "none"

VisibilityFromBool(d, fallback) == IF d.public = "unset" THEN fallback ELSE d.public

\* A document without a verdict is projected as pending, never as approved.
ReviewState(source, d) ==
    IF source = "animates" \/ d.status = ""
    THEN [status |-> "pending", visibility |-> VisibilityFromBool(d, "public")]
    ELSE CASE d.status \in Verdicts ->
                 [status |-> d.status,
                  visibility |-> VisibilityFromBool(d, IF d.status = "approved" THEN "public" ELSE "private")]
           [] d.status = "active" -> [status |-> "approved", visibility |-> "public"]
           [] d.status = "hidden" -> [status |-> "rejected", visibility |-> "private"]
           [] OTHER -> [status |-> "none", visibility |-> "none"]

NormalizeGenerationStatus(raw) ==
    CASE raw \in {"completed", "succeeded", "success"} -> "succeeded"
      [] raw \in {"generating", "processing", "pending", "retrying"} -> "generating"
      [] raw \in {"failed", "error"} -> "failed"
      [] raw \in {"cancelled", "canceled"} -> "cancelled"
      [] OTHER -> "none"

\* Animations keep their generation in the status; elsewhere an output without
\* a generation status is evidence of success.
GenerationOf(source, d) ==
    IF source = "animates"
    THEN IF d.status \in {"completed", "pending", "processing", "failed", "cancelled", "canceled"}
         THEN NormalizeGenerationStatus(d.status) ELSE "none"
    ELSE IF d.generation = "" THEN "succeeded" ELSE NormalizeGenerationStatus(d.generation)

Record(source, d) ==
    [media |-> MediaAndOutput(source, d), status |-> ReviewState(source, d).status,
     visibility |-> ReviewState(source, d).visibility, generation |-> GenerationOf(source, d),
     titled |-> d.titled, version |-> 1]

\* What the importer makes of a document: whole records are ready, those that
\* miss their output, owner or time are orphans, those it cannot read conflicts.
MapLegacyDocument(source, d) ==
    CASE MediaAndOutput(source, d) = "none" -> "conflict"
      [] ~d.whole -> "orphan"
      [] ReviewState(source, d).status = "none" \/ GenerationOf(source, d) = "none" -> "conflict"
      [] OTHER -> "ready"

\* Only an insertion: what is there already is left as it is.
Upserted(i) ==
    IF i \in Projected THEN items ELSE [items EXCEPT ![i] = Record(SourceOf[i], legacy[i])]

Scan(n, i) ==
    LET outcome == MapLegacyDocument(SourceOf[i], legacy[i]) IN
    /\ runs[n].at = "scanning" /\ i \in runs[n].left
    /\ items' = IF outcome = "ready" THEN Upserted(i) ELSE items
    /\ runs' = [runs EXCEPT ![n].left = @ \ {i}, ![n].clean = @ /\ outcome = "ready"]
    /\ UNCHANGED <<importStands, fence>>

\* After its audit a clean and confirmed import opens the fence.
MarkReady(n) ==
    /\ runs[n].at = "scanning" /\ runs[n].left = {}
    /\ \/ /\ runs[n].clean
          /\ fence' = [ready |-> TRUE, run |-> n]
          /\ runs' = [runs EXCEPT ![n].at = "done"]
       \/ UNCHANGED fence /\ runs' = [runs EXCEPT ![n].at = "done"]
    /\ UNCHANGED <<importStands, items>>

\* An import that fails anywhere leaves everything as it stands.
FailImport(n) ==
    /\ runs[n].at = "scanning"
    /\ runs' = [runs EXCEPT ![n].at = "failed"]
    /\ UNCHANGED <<importStands, items, fence>>

\* The legacy service goes on writing.
LegacyWrites(i, d) ==
    /\ changes < MaxChanges /\ legacy[i] # d
    /\ changes' = changes + 1
    /\ legacy' = [legacy EXCEPT ![i] = d]
    /\ UNCHANGED <<items, audits, events, fence, runs, seen, answers>>
-----------------------------------------------------------------------------
(* Reading.                                                                *)

VideoSources(source) ==
    CASE source = "generated" -> {"generatedvideos"}
      [] source = "animate" -> {"animates"}
      [] source = "faceswap" -> {"faceswaptasks"}
      [] source = "all" -> LegacySources

\* The pools cut the sources a query named; without one they name them.
PoolSources(pool) ==
    CASE pool = "external" -> {"animates", "faceswaptasks"}
      [] pool = "unknown" -> {"generatedvideos"}
      [] pool = "all" -> LegacySources

\* Videos are listed when generated, by source, pool and title; images by status alone.
Matches(i, q) ==
    /\ i \in Projected /\ items[i].media = q.media
    /\ q.status = "all" \/ items[i].status = q.status
    /\ q.media = "video" =>
          /\ items[i].generation = "succeeded"
          /\ SourceOf[i] \in VideoSources(q.source) \cap PoolSources(q.pool)
          /\ CASE q.template = "all" -> TRUE
               [] q.template = "__none__" -> ~items[i].titled
               [] q.template = "__any__" -> items[i].titled

\* The page of a query, newest first.
Page(q) ==
    {i \in Items : /\ Matches(i, q)
                   /\ LET newer == Cardinality({j \in Items : Matches(j, q) /\ j > i}) IN
                      newer >= (q.page - 1) * PageSize /\ newer < q.page * PageSize}

\* A page shows its items with their versions.
List(o, q) ==
    /\ fence.ready
    /\ seen' = [seen EXCEPT ![o] = [i \in Items |-> IF i \in Page(q) THEN items[i].version ELSE @[i]]]
    /\ UNCHANGED <<legacy, changes, items, audits, events, fence, runs, answers>>
-----------------------------------------------------------------------------
(* Deciding.                                                               *)

Verdict(item, action) ==
    CASE action = "approve" -> [item EXCEPT !.status = "approved", !.visibility = "visible"]
      [] action = "reject" -> [item EXCEPT !.status = "rejected", !.visibility = "hidden"]
      [] action = "delete" -> [item EXCEPT !.status = "deleted", !.visibility = "hidden"]
      [] action = "prompt" -> item

\* The handler of images writes every decision under one name, the handler of
\* videos under the name of its session.
ActorOf(o, media) == IF media = "image" THEN "authenticated-admin" ELSE o

\* Without a key of its own a request goes by the digest of who asks what.
DerivedKey(by, media, action, ids, expected) == <<"derived", by, media, action, ids, expected>>
KeyOf(key, by, media, action, ids, expected) ==
    IF key = NoKey THEN DerivedKey(by, media, action, ids, expected) ELSE <<"sent", key>>

\* Each item of a batch has an audit fact under the batch's key and its id.
Part(key, i) == <<"part", key, i>>

FindAudit(key, batch) == {a \in audits : a.key = key /\ a.batch = batch}

Decided == Cardinality({a \in audits : ~a.batch})

Found(i, media) == i \in Projected /\ items[i].media = media

\* The compare-and-swap: without an expected version the one read just now.
\* Mistaken variant: the version is not compared.
SwappableAlways(i, expected) == TRUE

Expected(i, expected) == IF expected < 0 THEN items[i].version ELSE expected
Swappable(i, expected) == items[i].version = expected

Swapped(i, action, expected) == [Verdict(items[i], action) EXCEPT !.version = expected + 1]

Fact(key, i, action, by) == [key |-> key, batch |-> FALSE, ids |-> {i}, action |-> action, by |-> by]
BatchFact(key, ids, action, by) == [key |-> key, batch |-> TRUE, ids |-> ids, action |-> action, by |-> by]
Event(key, i) == <<key, i>>

Refuse(o) ==
    /\ answers' = [answers EXCEPT ![o] = NoAnswer]
    /\ UNCHANGED <<items, audits, events>>

\* A success is told as the decision the request asked for.
Tell(o, fact) == answers' = [answers EXCEPT ![o] = [ok |-> TRUE, told |-> fact]]

Repeat(o, fact) == Tell(o, fact) /\ UNCHANGED <<items, audits, events>>

SameDecision(known, fact) == \A a \in known : a.action = fact.action /\ a.by = fact.by

decisionStands == <<legacy, changes, fence, runs, seen>>

\* One decision: the recorded fact answers a repetition whose action and actor
\* agree, whatever its item; else the item, its fact and its event change together.
ApplyReview(o, i, media, action, expected, sent) ==
    LET by == ActorOf(o, media)
        key == KeyOf(sent, by, media, action, {i}, expected)
        fact == Fact(key, i, action, by)
        known == FindAudit(key, FALSE)
        version == Expected(i, expected) IN
    /\ IF ~fence.ready \/ ~Found(i, media) THEN Refuse(o)
       ELSE IF known # {}
       THEN IF SameDecision(known, fact) THEN Repeat(o, fact) ELSE Refuse(o)
       ELSE IF ~Swappable(i, version) THEN Refuse(o)
       ELSE /\ Decided + 1 <= MaxDecisions
            /\ items' = [items EXCEPT ![i] = Swapped(i, action, version)]
            /\ audits' = audits \cup {fact}
            /\ events' = events \cup {Event(key, i)}
            /\ Tell(o, fact)
    /\ UNCHANGED decisionStands

\* Many decisions in one transaction, all or none; a repetition must name the
\* same items.
ApplyBatchReview(o, ids, media, action, sent) ==
    LET by == ActorOf(o, media)
        key == KeyOf(sent, by, media, action, ids, -1)
        fact == BatchFact(key, ids, action, by)
        known == FindAudit(key, TRUE) IN
    /\ action \in {"approve", "reject"} /\ ids # {}
    /\ IF ~fence.ready THEN Refuse(o)
       ELSE IF known # {}
       THEN IF SameDecision(known, fact) /\ (\A a \in known : a.ids = ids) /\ \A i \in ids : Found(i, media)
            THEN Repeat(o, fact)
            ELSE Refuse(o)
       ELSE IF \/ \E i \in ids : ~Found(i, media)
               \/ \E i \in ids : FindAudit(Part(key, i), FALSE) # {}
       THEN Refuse(o)
       ELSE /\ Decided + Cardinality(ids) <= MaxDecisions
            /\ items' = [i \in Items |-> IF i \in ids THEN Swapped(i, action, items[i].version) ELSE items[i]]
            /\ audits' = audits \cup {Fact(Part(key, i), i, action, by) : i \in ids} \cup {fact}
            /\ events' = events \cup {Event(Part(key, i), i) : i \in ids}
            /\ Tell(o, fact)
    /\ UNCHANGED decisionStands
-----------------------------------------------------------------------------
\* The handlers: a review names the version it saw or none, a deletion none.
ServeWrite(o, i, sent) ==
    \E media \in Media :
        \/ \E action \in {"approve", "reject", "prompt"}, expected \in {-1, seen[o][i]} \ {0} :
              ApplyReview(o, i, media, action, expected, sent)
        \/ ApplyReview(o, i, media, "delete", -1, sent)

ReviewsNext ==
    \/ \E n \in Imports :
          \/ CloseFence(n)
          \/ \E i \in Items : Scan(n, i)
          \/ MarkReady(n)
          \/ FailImport(n)
    \/ \E i \in Items, d \in Documents : LegacyWrites(i, d)
    \/ \E o \in Operators, q \in Queries : List(o, q)
    \/ \E o \in Operators, i \in Items, sent \in Keys \cup {NoKey} : ServeWrite(o, i, sent)
    \/ \E o \in Operators, media \in Media, sent \in Keys \cup {NoKey}, action \in {"approve", "reject"} :
          \E ids \in SUBSET Items \ {{}} : ApplyBatchReview(o, ids, media, action, sent)

ReviewsSpec == ReviewsInit /\ [][ReviewsNext]_reviewVars
-----------------------------------------------------------------------------
ReviewsTypeOK ==
    /\ legacy \in [Items -> Documents] /\ changes \in 0..MaxChanges
    /\ \A i \in Projected :
          /\ items[i].media \in Media /\ items[i].status \in Verdicts
          /\ items[i].generation \in Generations
          /\ items[i].visibility \in {"public", "private", "visible", "hidden"}
    /\ \A i \in Items :
          /\ items[i].version \in 0..(MaxDecisions + 1)
    /\ fence.ready \in BOOLEAN /\ fence.run \in Imports \cup {"none"}
    /\ \A n \in Imports : runs[n].at \in {"waiting", "scanning", "done", "failed"}
    /\ seen \in [Operators -> [Items -> 0..(MaxDecisions + 1)]]

\* An item's version counts the decisions on record for it: no decision is lost
\* to another that overlapped it, none is recorded and not applied, and no later
\* import takes one back (data/admin_review_write.go, cmd/admin-review-import).
VersionCountsDecisions ==
    \A i \in Projected :
        /\ items[i].version = 1 + Cardinality({a \in audits : ~a.batch /\ a.ids = {i}})
        /\ Cardinality({e \in events : e[2] = i}) = items[i].version - 1

\* Whoever is told of a success has a fact of that verdict and that actor on
\* record under the request's own key, and for a batch one that names the same
\* items: overlapping, repeated and mixed-up keys are refused, or answered with
\* what was decided under them.  For a lone decision the fact may be another
\* item's (KeyNamesOneDecision is what the code does not keep).
Answering(a, fact) ==
    /\ a.key = fact.key /\ a.batch = fact.batch
    /\ a.action = fact.action /\ a.by = fact.by
    /\ fact.batch => a.ids = fact.ids
AnswersOnRecord == \A o \in Operators : answers[o].ok => \E a \in audits : Answering(a, answers[o].told)

\* A key stands for one record, whoever used it and however often: the fact a
\* repetition finds is the only one it could find.
KeysAreOfOneRecord == \A a, b \in audits : a.key = b.key /\ a.batch = b.batch => a = b

\* A batch on record has decided each of its items, with the verdict it is
\* remembered by: none was left out and none was taken from another decision.
BatchesWhole ==
    \A a \in audits : a.batch => \A i \in a.ids : Fact(Part(a.key, i), i, a.action, a.by) \in audits

\* What a review promises its operators.
ReviewsSafe == VersionCountsDecisions /\ AnswersOnRecord /\ KeysAreOfOneRecord /\ BatchesWhole

\* An idempotency key used for another review is a conflict, never a success
\* (transport/adminreview/write.go): whoever is told of a success has that
\* decision, on that item, on record.
KeyNamesOneDecision == \A o \in Operators : answers[o].ok => answers[o].told \in audits
=============================================================================
