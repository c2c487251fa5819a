---------------------------- MODULE ConsoleProofs ----------------------------
(***************************************************************************)
(* What is proved of the components the operators work with.               *)
(*                                                                         *)
(* JobIndex: at every moment of the migration, with any number of steps,   *)
(* jobs and accounts, one of the two unique indexes stands, and either is  *)
(* enough.                                                                 *)
(*                                                                         *)
(* Reviews: with any number of items, operators, keys and imports, an      *)
(* item's version counts the decisions on record for it.  The facts of an  *)
(* item are those a decision added, and no fact is added twice because no  *)
(* key has a fact yet when a decision is taken under it.                   *)
(*                                                                         *)
(* Desk: with any number of administrators and requests, the audit tells   *)
(* the role and status of every account.  What a change may do is decided  *)
(* on the target as it is in the transaction, and on the role the request  *)
(* was admitted by, which for a super administrator cannot have changed.   *)
(*                                                                         *)
(* Catalog: with any manifests, templates and creation requests, a catalog *)
(* is published whole, and what a creation froze of it can be mapped for   *)
(* ever: no import writes over a publication, so the catalog of the frozen *)
(* version says what it said when the first step was admitted.             *)
(*                                                                         *)
(* Retention: with any events, periods and batches, nothing that is not    *)
(* settled is removed, and the TTL indexes are never installed over an     *)
(* expired event although three statuses were counted one after another:   *)
(* an event that moves is dated no earlier than the preflight.             *)
(*                                                                         *)
(* Streams: with any claims, workers, bodies and ceilings, what is         *)
(* published is what was read back, because an object that is there stays  *)
(* as it is; a stream is quiet where it is committed or given up; and an   *)
(* audit whose pages hold any number of keys sees all that was there.      *)
(*                                                                         *)
(* Apps: with any number of applications and requests of any kind, no      *)
(* identifier is claimed twice, since every write of claims passes the     *)
(* unique index whatever was found free before it; and only the removal of *)
(* a page takes a page away, by a filter that names the one it had read.   *)
(*                                                                         *)
(* Marketing: with any links, posts, forms and staff, a save leaves the    *)
(* clicks and every field its form does not name, and a publication is     *)
(* dated by the fact that goes with it.                                    *)
(*                                                                         *)
(* Pricing: with any settings, environments and overrides, the facts of a  *)
(* setting tell its versions from one on, each dated by the saves before   *)
(* it, and what is offered is sane whatever is stored.                     *)
(*                                                                         *)
(* Images: with any libraries and limits, an image that belongs on a page  *)
(* has no more newer ones in its own collection than in all of them, so    *)
(* that reading the first of each collection reads the page.               *)
(*                                                                         *)
(* Analytics: with any requests and parts at a time, each report that      *)
(* replaces a refused token, and a token that is gone, is to the credit of *)
(* the tokens fetched, and the days of a report are those its part meant.  *)
(***************************************************************************)
EXTENDS Console, Totals, SequenceTheorems, TLAPS

\* The old index stands, or the new one does.
Guarded == "legacy" \in indexes \/ "scoped" \in indexes

\* What an index promises of the documents, it keeps.
Kept == \A name \in indexes : Holds(name, steps)

\* The command drops the old index only once it has seen the new one.
SeenBeforeDrop == migration.at = "drop" => "scoped" \in indexes

JobIndexInv == JobIndexTypeOK /\ Guarded /\ Kept /\ SeenBeforeDrop

\* Either index keeps two steps of one account from sharing a job.
LEMMA EitherIsEnough == Guarded /\ Kept => JobsUnique
<1> SUFFICES ASSUME Guarded, Kept, NEW s \in Steps, NEW t \in Steps,
                    Indexed(steps[s]), Indexed(steps[t]), s # t,
                    steps[s].job = steps[t].job, steps[s].scope = steps[t].scope
             PROVE FALSE
    BY DEF JobsUnique
<1>1. SameKey("legacy", steps[s], steps[t]) /\ SameKey("scoped", steps[s], steps[t])
    BY DEF SameKey, Indexed
<1> QED BY <1>1 DEF Guarded, Kept, Holds

\* An accepted write keeps what the indexes promise.
LEMMA StoreKeeps ==
    ASSUME JobIndexInv, NEW s \in Steps, NEW document \in Step, Store(s, document)
    PROVE JobIndexInv'
<1>1. steps' \in [Steps -> Step]
    BY DEF JobIndexInv, JobIndexTypeOK, Store
<1> QED BY <1>1 DEF JobIndexInv, JobIndexTypeOK, Guarded, Kept, Holds, SeenBeforeDrop, Store

\* The invariant holds at first.
LEMMA JobIndexStarts == JobIndexInit => JobIndexInv
<1> SUFFICES ASSUME JobIndexInit PROVE JobIndexInv OBVIOUS
<1>1. JobIndexTypeOK
    BY DEF JobIndexInit, JobIndexTypeOK, Idle, Step, IndexNames
<1>2. Guarded /\ SeenBeforeDrop
    BY DEF JobIndexInit, Guarded, SeenBeforeDrop, Idle
<1>3. Kept
    <2> SUFFICES ASSUME NEW name \in indexes, NEW s \in Steps, NEW t \in Steps,
                        SameKey(name, steps[s], steps[t])
                 PROVE s = t
        BY DEF Kept, Holds
    <2>1. steps[s].job = NoJob
        BY DEF JobIndexInit
    <2> QED BY <2>1 DEF SameKey, Indexed, HasJob
<1> QED BY <1>1, <1>2, <1>3 DEF JobIndexInv

\* Every step keeps it.
LEMMA JobIndexStays == JobIndexInv /\ [JobIndexNext]_jobIndexVars => JobIndexInv'
<1> SUFFICES ASSUME JobIndexInv, [JobIndexNext]_jobIndexVars PROVE JobIndexInv' OBVIOUS
<1>t. JobIndexTypeOK BY DEF JobIndexInv
<1>1. ASSUME NEW s \in Steps, NEW scope \in Scopes, NEW route \in Routes, CreateStep(s, scope, route)
      PROVE JobIndexInv'
    <2>1. [job |-> NoJob, scope |-> scope, route |-> route] \in Step BY DEF Step
    <2> QED BY <1>1, <2>1, StoreKeeps DEF CreateStep
<1>2. ASSUME NEW s \in Steps, NEW job \in Jobs, BindJob(s, job) PROVE JobIndexInv'
    <2>1. [steps[s] EXCEPT !.job = job] \in Step BY <1>t DEF JobIndexTypeOK, Step
    <2> QED BY <1>2, <2>1, StoreKeeps DEF BindJob
<1>3. ASSUME NEW s \in Steps, NEW scope \in Scopes, Backfill(s, scope) PROVE JobIndexInv'
    <2>1. [steps[s] EXCEPT !.scope = scope, !.route = "whole"] \in Step
      <3>1. steps[s] \in Step
        BY <1>t DEF JobIndexTypeOK
      <3>2. "whole" \in Routes
        BY DEF Routes
      <3> QED BY <3>1, <3>2 DEF Step
    <2> QED BY <1>3, <2>1, StoreKeeps DEF Backfill
<1>4. CASE Deploy
    BY <1>4 DEF Deploy, JobIndexInv, JobIndexTypeOK, Guarded, Kept, Holds, SeenBeforeDrop
<1>5. CASE Ensure
    BY <1>5 DEF Ensure, CanCreateScoped, JobIndexInv, JobIndexTypeOK, Guarded, Kept, Holds, SeenBeforeDrop, IndexNames
<1>6. CASE DropLookalike
    BY <1>6 DEF DropLookalike, JobIndexInv, JobIndexTypeOK, Guarded, Kept, Holds, SeenBeforeDrop, IndexNames
<1>7. ASSUME NEW mode \in MigrationModes, Run(mode) PROVE JobIndexInv'
    BY <1>7 DEF Run, Idle, JobIndexInv, JobIndexTypeOK, Guarded, Kept, Holds, SeenBeforeDrop
<1>8. CASE ScanSteps
    BY <1>8 DEF ScanSteps, JobIndexInv, JobIndexTypeOK, Guarded, Kept, Holds, SeenBeforeDrop
<1>9. CASE Group
    <2>1. /\ \/ migration' = Idle
             \/ migration' = [migration EXCEPT !.at = "scan", !.again = TRUE]
             \/ migration' = [migration EXCEPT !.at = "create"]
             \/ migration' = [migration EXCEPT !.at = "installed"]
          /\ UNCHANGED <<steps, indexes, writers>>
        BY <1>9 DEF Group, AfterPreflight
    <2>t. migration.at = "group" /\ JobIndexTypeOK
        BY <1>9, <1>t DEF Group
    <2>2. migration' \in [mode : MigrationModes \cup {"none"}, again : BOOLEAN, clean : BOOLEAN,
                           at : {"idle", "scan", "group", "create", "installed", "drop"}]
          /\ migration'.at # "drop"
        <3>1. CASE migration' = Idle BY <3>1 DEF Idle
        <3>2. CASE migration' = [migration EXCEPT !.at = "scan", !.again = TRUE]
            BY <3>2, <2>t DEF JobIndexTypeOK
        <3>3. CASE migration' = [migration EXCEPT !.at = "create"] BY <3>3, <2>t DEF JobIndexTypeOK
        <3>4. CASE migration' = [migration EXCEPT !.at = "installed"] BY <3>4, <2>t DEF JobIndexTypeOK
        <3> QED BY <2>1, <3>1, <3>2, <3>3, <3>4
    <2> QED BY <2>1, <2>2, <2>t DEF JobIndexInv, JobIndexTypeOK, Guarded, Kept, Holds, SeenBeforeDrop
<1>10. CASE EnsureScopedUnique
    BY <1>10 DEF EnsureScopedUnique, CanCreateScoped, Idle, JobIndexInv, JobIndexTypeOK, Guarded, Kept, Holds,
        SeenBeforeDrop, IndexNames
<1>11. CASE CheckInstalled
    BY <1>11 DEF CheckInstalled, ScopedIndexInstalled, Idle, JobIndexInv, JobIndexTypeOK, Guarded, Kept, Holds,
        SeenBeforeDrop
<1>12. CASE RetireLegacyGlobalUnique
    BY <1>12 DEF RetireLegacyGlobalUnique, Idle, JobIndexInv, JobIndexTypeOK, Guarded, Kept, Holds,
        SeenBeforeDrop, IndexNames
<1>13. CASE MigrationFails
    BY <1>13 DEF MigrationFails, Idle, JobIndexInv, JobIndexTypeOK, Guarded, Kept, Holds, SeenBeforeDrop
<1>14. CASE UNCHANGED jobIndexVars
    BY <1>14 DEF jobIndexVars, JobIndexInv, JobIndexTypeOK, Guarded, Kept, Holds, SeenBeforeDrop
<1> QED
    BY <1>1, <1>2, <1>3, <1>4, <1>5, <1>6, <1>7, <1>8, <1>9, <1>10, <1>11, <1>12, <1>13, <1>14 DEF JobIndexNext

\* At no moment of the migration do two steps of one account share a job
\* (migrate/creation_step_execution_index.go).
THEOREM JobsStayUnique == JobIndexSpec => []JobsUnique
<1>1. JobIndexInv => JobsUnique BY EitherIsEnough DEF JobIndexInv
<1> QED BY <1>1, JobIndexStarts, JobIndexStays, PTL DEF JobIndexSpec

\* The state keeps its shape.
THEOREM JobIndexTyped == JobIndexSpec => []JobIndexTypeOK
<1>1. JobIndexInv => JobIndexTypeOK BY DEF JobIndexInv
<1> QED BY <1>1, JobIndexStarts, JobIndexStays, PTL DEF JobIndexSpec
-----------------------------------------------------------------------------
(* Reviews.                                                                *)

\* What is projected of a document, and nothing.
ItemType ==
    [media : Media \cup {"none"}, status : Verdicts \cup {"none"},
     visibility : {"public", "private", "visible", "hidden", "none"},
     generation : Generations \cup {"none"}, titled : BOOLEAN, version : Nat]

\* A projected item has no blanks.
Complete(item) ==
    /\ item.media \in Media /\ item.status \in Verdicts /\ item.generation \in Generations
    /\ item.visibility \in {"public", "private", "visible", "hidden"}

\* Types the invariant of the checks leaves to the code.
ShapesMeant ==
    /\ items \in [Items -> ItemType]
    /\ legacy \in [Items -> Documents] /\ changes \in 0..MaxChanges
    /\ fence \in [ready : BOOLEAN, run : Imports \cup {"none"}]
    /\ runs \in [Imports -> [at : {"waiting", "scanning", "done", "failed"}, left : SUBSET Items, clean : BOOLEAN]]
    /\ answers = [o \in Operators |-> answers[o]]
    /\ seen \in [Operators -> [Items -> 0..(MaxDecisions + 1)]]

\* The facts of an item.
FactsOf(i) == {a \in audits : ~a.batch /\ a.ids = {i}}
EventsOf(i) == {e \in events : e[2] = i}
Facts == {a \in audits : ~a.batch}

\* Facts and events are of projected items, and no event is without its fact.
RecordsMeant ==
    /\ IsFiniteSet(audits) /\ IsFiniteSet(events)
    /\ \A a \in audits : a.batch \in BOOLEAN
    /\ \A a \in Facts : \E i \in Projected : a.ids = {i}
    /\ \A e \in events : e[2] \in Projected /\ \E a \in Facts : a.key = e[1]
    /\ Cardinality(Facts) <= MaxDecisions

\* What is projected is whole, and its version counts its decisions.
ItemsMeant ==
    \A i \in Projected :
        /\ Complete(items[i])
        /\ items[i].version = 1 + Cardinality(FactsOf(i))
        /\ Cardinality(EventsOf(i)) = items[i].version - 1

\* What the records say of one another and of the answers.
KeysMeant == AnswersOnRecord /\ KeysAreOfOneRecord /\ BatchesWhole

ReviewsInv == ShapesMeant /\ RecordsMeant /\ ItemsMeant /\ KeysMeant
-----------------------------------------------------------------------------
\* The images of finitely many elements are finitely many.
LEMMA ImageFinite ==
    ASSUME NEW S, IsFiniteSet(S), NEW f, DOMAIN f = S
    PROVE  LET T == {f[x] : x \in S} IN IsFiniteSet(T) /\ Cardinality(T) <= Cardinality(S)
<1> DEFINE T == {f[x] : x \in S}
           g == [x \in S |-> f[x]]
<1>1. g \in Surjection(S, T)
  BY DEF Surjection
<1>2. QED
  BY <1>1, FS_Surjection

\* An item with a fact has a version above the first one.
LEMMA VersionsBounded ==
    ASSUME ReviewsAssumption, ReviewsInv, NEW i \in Items
    PROVE  items[i].version \in 0..(MaxDecisions + 1)
<1>1. CASE i \notin Projected
  BY <1>1 DEF Projected, Unknown, ReviewsAssumption
<1>2. CASE i \in Projected
  <2>1. FactsOf(i) \in SUBSET Facts /\ Facts \in SUBSET audits
    BY DEF FactsOf, Facts
  <2>2. IsFiniteSet(Facts) /\ IsFiniteSet(FactsOf(i)) /\ Cardinality(FactsOf(i)) <= Cardinality(Facts)
    BY <2>1, FS_Subset DEF ReviewsInv, RecordsMeant
  <2>3. Cardinality(Facts) \in Nat /\ Cardinality(FactsOf(i)) \in Nat
    BY <2>2, FS_CardinalityType
  <2>4. items[i].version = 1 + Cardinality(FactsOf(i)) /\ Cardinality(Facts) <= MaxDecisions
    BY <1>2 DEF ReviewsInv, ItemsMeant, RecordsMeant
  <2> QED
    BY <2>2, <2>3, <2>4 DEF ReviewsAssumption
<1> QED
  BY <1>1, <1>2

\* The invariant gives the types and the promise of the checks.
LEMMA InvariantMeans ==
    ASSUME ReviewsAssumption, ReviewsInv
    PROVE  ReviewsTypeOK /\ ReviewsSafe
<1>1. ReviewsTypeOK
  <2>1. \A i \in Projected :
          /\ items[i].media \in Media /\ items[i].status \in Verdicts
          /\ items[i].generation \in Generations
          /\ items[i].visibility \in {"public", "private", "visible", "hidden"}
    BY DEF ReviewsInv, ItemsMeant, Complete
  <2>2. \A i \in Items : items[i].version \in 0..(MaxDecisions + 1)
    BY VersionsBounded
  <2>3. fence.ready \in BOOLEAN /\ fence.run \in Imports \cup {"none"}
    BY DEF ReviewsInv, ShapesMeant
  <2>4. \A n \in Imports : runs[n].at \in {"waiting", "scanning", "done", "failed"}
    BY DEF ReviewsInv, ShapesMeant
  <2> QED
    BY <2>1, <2>2, <2>3, <2>4 DEF ReviewsInv, ShapesMeant, ReviewsTypeOK
<1>2. VersionCountsDecisions
  BY DEF ReviewsInv, ItemsMeant, FactsOf, EventsOf, VersionCountsDecisions
<1> QED
  BY <1>1, <1>2 DEF ReviewsInv, KeysMeant, ReviewsSafe

LEMMA InitInvariant ==
    ASSUME ReviewsAssumption, ReviewsInit
    PROVE  ReviewsInv
<1>1. Projected = {}
  BY DEF ReviewsInit, Projected
<1>2. Unknown \in ItemType /\ NoAnswer.ok = FALSE
  BY DEF Unknown, NoAnswer, ItemType, ReviewsAssumption
<1>3. ShapesMeant
  BY <1>2 DEF ReviewsInit, ShapesMeant, Waiting, NoAnswer, ReviewsAssumption
<1>4. Facts = {} /\ RecordsMeant
  BY <1>1, FS_EmptySet DEF ReviewsInit, RecordsMeant, Facts, ReviewsAssumption
<1>5. KeysMeant
  BY <1>2 DEF ReviewsInit, KeysMeant, AnswersOnRecord, KeysAreOfOneRecord, BatchesWhole
<1> QED
  BY <1>1, <1>3, <1>4, <1>5 DEF ReviewsInv, ItemsMeant
-----------------------------------------------------------------------------
\* What the importer inserts is whole.
LEMMA RecordWhole ==
    ASSUME ReviewsAssumption, NEW source \in LegacySources, NEW d \in Documents,
           MapLegacyDocument(source, d) = "ready"
    PROVE  /\ Record(source, d) \in ItemType
           /\ Complete(Record(source, d)) /\ Record(source, d).version = 1
<1>1. MediaAndOutput(source, d) \in Media
  <2>1. MediaAndOutput(source, d) # "none"
    BY DEF MapLegacyDocument
  <2>2. CASE source = "faceswaptasks"
    <3>1. MediaAndOutput(source, d) =
            CASE d.type \in {"", "video"} -> "video" [] d.type = "image" -> "image" [] OTHER -> "none"
      BY <2>2 DEF MediaAndOutput
    <3> QED
      BY <2>1, <3>1 DEF Media
  <2>3. CASE source # "faceswaptasks"
    BY <2>3 DEF MediaAndOutput, Media, LegacySources
  <2> QED
    BY <2>2, <2>3
<1>2. ReviewState(source, d).status # "none" /\ GenerationOf(source, d) # "none"
  BY DEF MapLegacyDocument
<1>3. d.public \in {"unset", "public", "private"} /\ d.titled \in BOOLEAN
  BY DEF ReviewsAssumption
<1>4. \A fallback \in {"public", "private"} : VisibilityFromBool(d, fallback) \in {"public", "private"}
  BY <1>3 DEF VisibilityFromBool
<1>5. /\ ReviewState(source, d).status \in Verdicts
      /\ ReviewState(source, d).visibility \in {"public", "private"}
  <2>1. CASE source = "animates" \/ d.status = ""
    BY <2>1, <1>4 DEF ReviewState, Verdicts
  <2>2. CASE ~(source = "animates" \/ d.status = "") /\ d.status \in Verdicts
    <3>1. PICK fallback \in {"public", "private"} :
            ReviewState(source, d) = [status |-> d.status, visibility |-> VisibilityFromBool(d, fallback)]
      BY <2>2 DEF ReviewState, Verdicts
    <3> QED
      <4>1. VisibilityFromBool(d, fallback) \in {"public", "private"}
        BY <1>4
      <4>2. ReviewState(source, d).status = d.status
        BY <3>1
      <4>3. ReviewState(source, d).visibility = VisibilityFromBool(d, fallback)
        BY <3>1
      <4> QED
        BY <2>2, <4>1, <4>2, <4>3
  <2>3. CASE ~(source = "animates" \/ d.status = "") /\ d.status \notin Verdicts
    BY <2>3, <1>2, <1>4 DEF ReviewState, Verdicts
  <2> QED
    BY <2>1, <2>2, <2>3
<1>6. GenerationOf(source, d) \in Generations
  <2>1. \A raw : NormalizeGenerationStatus(raw) \in Generations \cup {"none"}
    BY DEF NormalizeGenerationStatus, Generations
  <2> QED
    BY <2>1, <1>2 DEF GenerationOf, Generations
<1> QED
  BY <1>1, <1>3, <1>5, <1>6 DEF Record, ItemType, Complete
-----------------------------------------------------------------------------
\* A step of an importer, apart from its insertions, and a reading touch
\* neither items nor records.
LEMMA RecordsStand ==
    ASSUME ReviewsInv, UNCHANGED <<items, audits, events>>
    PROVE  RecordsMeant' /\ ItemsMeant'
<1>1. Projected' = Projected /\ Facts' = Facts
  BY DEF Projected, Facts
<1>2. \A i \in Items : FactsOf(i)' = FactsOf(i) /\ EventsOf(i)' = EventsOf(i)
  BY DEF FactsOf, EventsOf
<1>3. RecordsMeant'
  BY <1>1 DEF ReviewsInv, RecordsMeant
<1>4. ItemsMeant'
  BY <1>1, <1>2 DEF ReviewsInv, ItemsMeant, Projected
<1> QED
  BY <1>3, <1>4

LEMMA AnswersStand ==
    ASSUME ReviewsInv, answers' = answers, audits' = audits
    PROVE  KeysMeant'
  BY DEF ReviewsInv, KeysMeant, AnswersOnRecord, KeysAreOfOneRecord, BatchesWhole

\* An insertion is of an item that has no facts yet.
LEMMA InsertionStands ==
    ASSUME ReviewsAssumption, ReviewsInv, NEW i \in Items, i \notin Projected,
           NEW item \in ItemType, Complete(item), item.version = 1,
           items' = [items EXCEPT ![i] = item], UNCHANGED <<audits, events>>
    PROVE  items' \in [Items -> ItemType] /\ RecordsMeant' /\ ItemsMeant'
<1> USE DEF ReviewsInv
<1>1. items' \in [Items -> ItemType] /\ items'[i] = item
  BY DEF ShapesMeant
<1>2. item # Unknown
  BY DEF Complete, Unknown, Media
<1>3. Projected' = Projected \cup {i}
  BY <1>1, <1>2 DEF Projected, ShapesMeant
<1>4. Facts' = Facts
  BY DEF Facts
<1>5. RecordsMeant'
  BY <1>3, <1>4 DEF RecordsMeant
<1>6. FactsOf(i) = {} /\ EventsOf(i) = {}
  <2>1. \A a \in FactsOf(i) : FALSE
    BY DEF RecordsMeant, FactsOf, Facts, Projected
  <2>2. \A e \in EventsOf(i) : FALSE
    BY DEF RecordsMeant, EventsOf
  <2> QED
    BY <2>1, <2>2
<1>7. \A j \in Items : FactsOf(j)' = FactsOf(j) /\ EventsOf(j)' = EventsOf(j)
  BY DEF FactsOf, EventsOf
<1>8. ItemsMeant'
  <2> SUFFICES ASSUME NEW j \in Projected'
               PROVE  /\ Complete(items'[j])
                      /\ items'[j].version = 1 + Cardinality(FactsOf(j)')
                      /\ Cardinality(EventsOf(j)') = items'[j].version - 1
    BY DEF ItemsMeant
  <2>1. CASE j = i
    <3>1. FactsOf(j)' = {} /\ EventsOf(j)' = {}
      BY <2>1, <1>6, <1>7
    <3>2. Cardinality(FactsOf(j)') = 0 /\ Cardinality(EventsOf(j)') = 0
      BY <3>1, FS_EmptySet
    <3> QED
      BY <2>1, <1>1, <3>2
  <2>2. CASE j # i
    <3>1. j \in Projected /\ items'[j] = items[j] /\ j \in Items
      BY <2>2, <1>3 DEF ShapesMeant, Projected
    <3> QED
      BY <3>1, <1>7 DEF ItemsMeant
  <2> QED
    BY <2>1, <2>2
<1> QED
  BY <1>1, <1>5, <1>8
-----------------------------------------------------------------------------
\* Some items are decided on, each with a fact under a key no record had.
DecidesOn(S, fact, action, B) ==
    /\ DOMAIN fact = S /\ IsFiniteSet(B) /\ \A b \in B : b.batch = TRUE
    /\ \A i \in S : fact[i].batch = FALSE /\ fact[i].ids = {i} /\ FindAudit(fact[i].key, FALSE) = {}
    /\ Decided + Cardinality(S) <= MaxDecisions
    /\ items' = [i \in Items |-> IF i \in S THEN Swapped(i, action, items[i].version) ELSE items[i]]
    /\ audits' = audits \cup {fact[i] : i \in S} \cup B
    /\ events' = events \cup {Event(fact[i].key, i) : i \in S}

\* Each of them gets one fact, one event and one version more.
LEMMA DecisionsCounted ==
    ASSUME ReviewsAssumption, ReviewsInv, NEW S \in SUBSET Projected, NEW fact,
           NEW action \in Actions, NEW B, DecidesOn(S, fact, action, B)
    PROVE  items' \in [Items -> ItemType] /\ RecordsMeant' /\ ItemsMeant'
<1> DEFINE note == [i \in S |-> Event(fact[i].key, i)]
           New == {fact[i] : i \in S}
           NewEvents == {note[i] : i \in S}
<1>0. S \in SUBSET Items /\ Projected \in SUBSET Items
  BY DEF Projected
<1>1. IsFiniteSet(S) /\ Cardinality(S) \in Nat
  BY <1>0, FS_Subset, FS_CardinalityType DEF ReviewsAssumption
<1>2. IsFiniteSet(New) /\ Cardinality(New) <= Cardinality(S) /\ IsFiniteSet(NewEvents)
  <2>1. DOMAIN fact = S /\ DOMAIN note = S
    BY DEF DecidesOn
  <2> HIDE DEF note
  <2> QED
    BY <1>1, <2>1, ImageFinite
<1>3. audits' = audits \cup New \cup B /\ events' = events \cup NewEvents
  BY DEF DecidesOn
<1>b. \A b \in B : b.batch = TRUE
  BY DEF DecidesOn
<1>4. \A i \in S : /\ fact[i].batch = FALSE /\ fact[i].ids = {i}
                   /\ note[i][1] = fact[i].key /\ note[i][2] = i
  BY DEF Event, DecidesOn
<1>5. \A i \in S : fact[i] \notin audits /\ note[i] \notin events
  <2> SUFFICES ASSUME NEW i \in S PROVE fact[i] \notin audits /\ note[i] \notin events
    OBVIOUS
  <2>1. \A a \in Facts : a.key # fact[i].key
    <3>1. FindAudit(fact[i].key, FALSE) = {}
      BY DEF DecidesOn
    <3> QED
      BY <3>1 DEF FindAudit, Facts
  <2> QED
    BY <1>4, <2>1 DEF Facts, ReviewsInv, RecordsMeant
<1> HIDE DEF note, New, NewEvents
<1>6. Facts' = Facts \cup New
  BY <1>3, <1>4, <1>b DEF Facts, New
<1>7. Cardinality(Facts') <= MaxDecisions
  <2>1. IsFiniteSet(Facts) /\ Decided = Cardinality(Facts)
    BY FS_Subset DEF Facts, ReviewsInv, RecordsMeant, Decided
  <2>2. /\ Cardinality(Facts \cup New) = Cardinality(Facts) + Cardinality(New) - Cardinality(Facts \cap New)
        /\ IsFiniteSet(Facts \cap New)
    BY <2>1, <1>2, FS_Union, FS_Intersection
  <2>3. /\ Cardinality(Facts) \in Nat /\ Cardinality(New) \in Nat /\ Cardinality(Facts \cap New) \in Nat
    BY <2>1, <2>2, <1>2, FS_CardinalityType
  <2> QED
    BY <1>1, <1>2, <1>6, <2>1, <2>2, <2>3 DEF ReviewsAssumption, DecidesOn
<1>8. \A i \in S : LET item == Swapped(i, action, items[i].version)
                   IN  /\ item \in ItemType /\ Complete(item) /\ item # Unknown
                       /\ item.version = items[i].version + 1
  <2> SUFFICES ASSUME NEW i \in S
               PROVE  LET item == Swapped(i, action, items[i].version)
                      IN  /\ item \in ItemType /\ Complete(item) /\ item # Unknown
                          /\ item.version = items[i].version + 1
    OBVIOUS
  <2> DEFINE v == Verdict(items[i], action)
  <2>1. items[i] \in ItemType /\ Complete(items[i])
    BY <1>0 DEF ReviewsInv, ShapesMeant, ItemsMeant
  <2>2. v \in ItemType /\ Complete(v)
    BY <2>1 DEF Verdict, ItemType, Complete, Verdicts, Actions
  <2>3. Swapped(i, action, items[i].version) = [v EXCEPT !.version = items[i].version + 1]
    BY DEF Swapped
  <2> HIDE DEF v
  <2>4. items[i].version \in Nat
    BY <2>1 DEF ItemType
  <2>5. [v EXCEPT !.version = items[i].version + 1] \in ItemType
    BY <2>2, <2>4 DEF ItemType
  <2> QED
    BY <2>2, <2>3, <2>5 DEF ItemType, Complete, Unknown, Media
<1>9. \A i \in Items : items'[i] = IF i \in S THEN Swapped(i, action, items[i].version) ELSE items[i]
  BY DEF DecidesOn
<1>10. items' \in [Items -> ItemType]
  <2>1. DOMAIN items' = Items /\ items' = [i \in Items |-> items'[i]]
    BY DEF DecidesOn
  <2>2. \A i \in Items : items'[i] \in ItemType
    BY <1>8, <1>9 DEF ReviewsInv, ShapesMeant
  <2> QED
    BY <2>1, <2>2
<1>11. Projected' = Projected
  BY <1>0, <1>8, <1>9 DEF Projected
<1>12. \A j \in Items : /\ FactsOf(j)' = FactsOf(j) \cup (IF j \in S THEN {fact[j]} ELSE {})
                        /\ EventsOf(j)' = EventsOf(j) \cup (IF j \in S THEN {note[j]} ELSE {})
  <2> SUFFICES ASSUME NEW j \in Items
               PROVE  /\ FactsOf(j)' = FactsOf(j) \cup (IF j \in S THEN {fact[j]} ELSE {})
                      /\ EventsOf(j)' = EventsOf(j) \cup (IF j \in S THEN {note[j]} ELSE {})
    OBVIOUS
  <2>1. {a \in New : ~a.batch /\ a.ids = {j}} = IF j \in S THEN {fact[j]} ELSE {}
    <3>1. \A a : a \in New /\ ~a.batch /\ a.ids = {j} <=> j \in S /\ a = fact[j]
      <4>1. \A i \in S : ~fact[i].batch /\ fact[i].ids = {i}
        BY <1>4, Zenon
      <4>2. \A i \in S : {i} = {j} => i = j
        OBVIOUS
      <4>3. ASSUME NEW a \in New, a.ids = {j} PROVE j \in S /\ a = fact[j]
        <5>1. PICK i \in S : a = fact[i]
          BY DEF New
        <5> QED
          BY <5>1, <4>1, <4>2, <4>3
      <4>4. ASSUME j \in S PROVE fact[j] \in New /\ ~fact[j].batch /\ fact[j].ids = {j}
        BY <4>1, <4>4, Zenon DEF New
      <4> QED
        BY <4>3, <4>4, Zenon
    <3> QED
      BY <3>1
  <2>2. {e \in NewEvents : e[2] = j} = IF j \in S THEN {note[j]} ELSE {}
    BY <1>4 DEF NewEvents
  <2> QED
    BY <1>3, <1>b, <2>1, <2>2 DEF FactsOf, EventsOf
<1>13. \A j \in Items : /\ IsFiniteSet(FactsOf(j)) /\ IsFiniteSet(EventsOf(j))
                        /\ Cardinality(FactsOf(j)) \in Nat /\ Cardinality(EventsOf(j)) \in Nat
  BY FS_Subset, FS_CardinalityType DEF FactsOf, EventsOf, ReviewsInv, RecordsMeant
<1>14. \A j \in Items : IF j \in S THEN /\ Cardinality(FactsOf(j)') = Cardinality(FactsOf(j)) + 1
                                        /\ Cardinality(EventsOf(j)') = Cardinality(EventsOf(j)) + 1
                        ELSE FactsOf(j)' = FactsOf(j) /\ EventsOf(j)' = EventsOf(j)
  <2> SUFFICES ASSUME NEW j \in Items
               PROVE  IF j \in S THEN /\ Cardinality(FactsOf(j)') = Cardinality(FactsOf(j)) + 1
                                      /\ Cardinality(EventsOf(j)') = Cardinality(EventsOf(j)) + 1
                      ELSE FactsOf(j)' = FactsOf(j) /\ EventsOf(j)' = EventsOf(j)
    OBVIOUS
  <2>1. CASE j \in S
    <3>1. fact[j] \notin FactsOf(j) /\ note[j] \notin EventsOf(j)
      BY <2>1, <1>5 DEF FactsOf, EventsOf
    <3>2. FactsOf(j)' = FactsOf(j) \cup {fact[j]} /\ EventsOf(j)' = EventsOf(j) \cup {note[j]}
      BY <2>1, <1>12
    <3> QED
      BY <2>1, <3>1, <3>2, <1>13, FS_AddElement
  <2>2. CASE j \notin S
    BY <2>2, <1>12
  <2> QED
    BY <2>1, <2>2
<1>15. RecordsMeant'
  <2>1. IsFiniteSet(audits') /\ IsFiniteSet(events')
    <3>1. IsFiniteSet(audits) /\ IsFiniteSet(events)
      BY DEF ReviewsInv, RecordsMeant
    <3>2. IsFiniteSet(audits \cup New)
      BY <3>1, <1>2, FS_Union
    <3> QED
      <4>1. IsFiniteSet((audits \cup New) \cup B)
        BY <3>2, FS_Union DEF DecidesOn
      <4>2. IsFiniteSet(events \cup NewEvents)
        BY <3>1, <1>2, FS_Union
      <4> QED
        BY <4>1, <4>2, <1>3
  <2>2. \A a \in audits' : a.batch \in BOOLEAN
    <3> SUFFICES ASSUME NEW a \in audits' PROVE a.batch \in BOOLEAN
      OBVIOUS
    <3>1. CASE a \in audits
      BY <3>1 DEF ReviewsInv, RecordsMeant
    <3>2. CASE a \in New
      <4>1. \A i \in S : fact[i].batch \in BOOLEAN
        BY <1>4, Zenon
      <4> QED
        BY <3>2, <4>1, Zenon DEF New
    <3>3. CASE a \in B
      BY <3>3 DEF DecidesOn
    <3> QED
      BY <1>3, <3>1, <3>2, <3>3
  <2>3. \A a \in Facts' : \E i \in Projected' : a.ids = {i}
    BY <1>4, <1>6, <1>11 DEF New, ReviewsInv, RecordsMeant
  <2>4. \A e \in events' : e[2] \in Projected' /\ \E a \in Facts' : a.key = e[1]
    <3> SUFFICES ASSUME NEW e \in events'
                 PROVE  e[2] \in Projected' /\ \E a \in Facts' : a.key = e[1]
      OBVIOUS
    <3>1. CASE e \in events
      BY <3>1, <1>6, <1>11 DEF ReviewsInv, RecordsMeant
    <3>2. CASE e \in NewEvents
      <4>1. PICK i \in S : e = note[i]
        BY <3>2 DEF NewEvents
      <4>2. fact[i] \in Facts'
        BY <1>6 DEF New
      <4> QED
        BY <4>1, <4>2, <1>4, <1>11
    <3> QED
      BY <1>3, <3>1, <3>2
  <2> QED
    BY <2>1, <2>2, <2>3, <2>4, <1>7 DEF RecordsMeant
<1>16. ItemsMeant'
  <2> SUFFICES ASSUME NEW j \in Projected'
               PROVE  /\ Complete(items'[j])
                      /\ items'[j].version = 1 + Cardinality(FactsOf(j)')
                      /\ Cardinality(EventsOf(j)') = items'[j].version - 1
    BY DEF ItemsMeant
  <2>1. j \in Projected /\ j \in Items
    BY <1>0, <1>11
  <2>2. /\ Complete(items[j]) /\ items[j].version = 1 + Cardinality(FactsOf(j))
        /\ Cardinality(EventsOf(j)) = items[j].version - 1
    BY <2>1 DEF ReviewsInv, ItemsMeant
  <2>3. CASE j \in S
    BY <2>1, <2>2, <2>3, <1>8, <1>9, <1>13, <1>14
  <2>4. CASE j \notin S
    BY <2>1, <2>2, <2>4, <1>9, <1>14
  <2> QED
    BY <2>3, <2>4
<1> QED
  BY <1>10, <1>15, <1>16
-----------------------------------------------------------------------------
\* What stays of the shapes when only some variables move.
LEMMA ShapesStand ==
    ASSUME ReviewsInv, UNCHANGED <<legacy, changes, fence, runs, seen>>,
           items' \in [Items -> ItemType], NEW o \in Operators, NEW said,
           answers' = [answers EXCEPT ![o] = said]
    PROVE  ShapesMeant'
<1>1. answers' = [p \in Operators |-> answers'[p]]
  BY DEF ReviewsInv, ShapesMeant
<1> QED
  BY <1>1 DEF ReviewsInv, ShapesMeant

\* A refusal promises nothing.
LEMMA RefusalStands ==
    ASSUME ReviewsAssumption, ReviewsInv, NEW o \in Operators,
           Refuse(o), decisionStands' = decisionStands
    PROVE  ReviewsInv'
<1>1. NoAnswer.ok = FALSE
  BY DEF NoAnswer
<1>2. answers' = [answers EXCEPT ![o] = NoAnswer] /\ UNCHANGED <<items, audits, events>>
  BY DEF Refuse
<1>3. RecordsMeant' /\ ItemsMeant'
  BY <1>2, RecordsStand
<1>4. ShapesMeant'
  <2>1. items' \in [Items -> ItemType]
    BY <1>2 DEF ReviewsInv, ShapesMeant
  <2> QED
    BY <1>2, <2>1, ShapesStand DEF decisionStands
<1>5. AnswersOnRecord'
  <2> SUFFICES ASSUME NEW p \in Operators, answers'[p].ok
               PROVE  \E a \in audits' : Answering(a, answers'[p].told)
    BY DEF AnswersOnRecord
  <2>1. p # o
    BY <1>1, <1>2 DEF ReviewsInv, ShapesMeant
  <2>2. answers'[p] = answers[p] /\ audits' = audits
    BY <1>2, <2>1 DEF ReviewsInv, ShapesMeant
  <2> QED
    BY <2>2 DEF ReviewsInv, KeysMeant, AnswersOnRecord
<1>6. KeysAreOfOneRecord' /\ BatchesWhole'
  BY <1>2 DEF ReviewsInv, KeysMeant, KeysAreOfOneRecord, BatchesWhole
<1> QED
  BY <1>3, <1>4, <1>5, <1>6 DEF ReviewsInv, KeysMeant

\* Somebody is told of a decision on record.
LEMMA ToldOnRecord ==
    ASSUME ReviewsInv, NEW o \in Operators, NEW fact, audits \subseteq audits',
           \E a \in audits' : Answering(a, fact), Tell(o, fact)
    PROVE  AnswersOnRecord'
<1> SUFFICES ASSUME NEW p \in Operators, answers'[p].ok
               PROVE  \E a \in audits' : Answering(a, answers'[p].told)
  BY DEF AnswersOnRecord
<1>1. answers' = [answers EXCEPT ![o] = [ok |-> TRUE, told |-> fact]]
  BY DEF Tell
<1>2. CASE p = o
  <2>1. answers'[p].told = fact
    BY <1>1, <1>2 DEF ReviewsInv, ShapesMeant
  <2> QED
    BY <2>1
<1>3. CASE p # o
  <2>1. answers'[p] = answers[p]
    BY <1>1, <1>3 DEF ReviewsInv, ShapesMeant
  <2>2. \E a \in audits : Answering(a, answers[p].told)
    BY <2>1 DEF ReviewsInv, KeysMeant, AnswersOnRecord
  <2> QED
    BY <2>1, <2>2
<1> QED
  BY <1>2, <1>3

\* What a key finds, agrees with the request and names its items is its record.
LEMMA KnownOnRecord ==
    ASSUME NEW fact, FindAudit(fact.key, fact.batch) # {},
           SameDecision(FindAudit(fact.key, fact.batch), fact),
           fact.batch => \A a \in FindAudit(fact.key, fact.batch) : a.ids = fact.ids
    PROVE  \E a \in audits : Answering(a, fact)
  BY DEF FindAudit, SameDecision, Answering

\* A repetition is told what is on record.
LEMMA RepetitionStands ==
    ASSUME ReviewsAssumption, ReviewsInv, NEW o \in Operators, NEW fact,
           Repeat(o, fact), decisionStands' = decisionStands,
           \E a \in audits : Answering(a, fact)
    PROVE  ReviewsInv'
<1>1. Tell(o, fact) /\ UNCHANGED <<items, audits, events>>
  BY DEF Repeat
<1>2. RecordsMeant' /\ ItemsMeant'
  BY <1>1, RecordsStand
<1>3. ShapesMeant'
  <2>1. items' \in [Items -> ItemType]
    BY <1>1 DEF ReviewsInv, ShapesMeant
  <2> QED
    BY <1>1, <2>1, ShapesStand DEF decisionStands, Tell
<1>4. AnswersOnRecord'
  <2>1. (\E a \in audits' : Answering(a, fact)) /\ audits \subseteq audits'
    BY <1>1
  <2> QED
    BY <1>1, <2>1, ToldOnRecord
<1>5. KeysAreOfOneRecord' /\ BatchesWhole'
  BY <1>1 DEF ReviewsInv, KeysMeant, KeysAreOfOneRecord, BatchesWhole
<1> QED
  BY <1>2, <1>3, <1>4, <1>5 DEF ReviewsInv, KeysMeant

\* A decision taken under keys no record had is told as it was asked for.
LEMMA DecisionTold ==
    ASSUME ReviewsInv, NEW o \in Operators, NEW fact, NEW N, fact \in N,
           items' \in [Items -> ItemType], RecordsMeant', ItemsMeant', decisionStands' = decisionStands,
           audits' = audits \cup N, Tell(o, fact),
           \A a \in N : FindAudit(a.key, a.batch) = {},
           \A a, b \in N : a.key = b.key /\ a.batch = b.batch => a = b,
           \A a \in N : a.batch => \A i \in a.ids : Fact(Part(a.key, i), i, a.action, a.by) \in N
    PROVE  ReviewsInv'
<1>1. ShapesMeant'
  BY ShapesStand DEF decisionStands, Tell
<1>2. AnswersOnRecord'
  <2>1. (\E a \in audits' : Answering(a, fact)) /\ audits \subseteq audits'
    BY DEF Answering
  <2> QED
    BY <2>1, ToldOnRecord
<1>3. KeysAreOfOneRecord'
  <2> SUFFICES ASSUME NEW a \in audits', NEW b \in audits', a.key = b.key, a.batch = b.batch
               PROVE  a = b
    BY DEF KeysAreOfOneRecord
  <2>1. \A c \in N, d \in audits : ~(c.key = d.key /\ c.batch = d.batch)
    BY DEF FindAudit
  <2> QED
    BY <2>1 DEF ReviewsInv, KeysMeant, KeysAreOfOneRecord
<1>4. BatchesWhole'
  BY DEF ReviewsInv, KeysMeant, BatchesWhole
<1> QED
  BY <1>1, <1>2, <1>3, <1>4 DEF ReviewsInv, KeysMeant

LEMMA ReviewStep ==
    ASSUME ReviewsAssumption, ReviewsInv, NEW o \in Operators, NEW i \in Items, NEW media, NEW action \in Actions,
           NEW expected, NEW sent, ApplyReview(o, i, media, action, expected, sent)
    PROVE  ReviewsInv'
<1> DEFINE by == ActorOf(o, media)
           key == KeyOf(sent, by, media, action, {i}, expected)
           fact == Fact(key, i, action, by)
           known == FindAudit(key, FALSE)
           version == Expected(i, expected)
<1>a. decisionStands' = decisionStands
  BY DEF ApplyReview
<1>f. fact.key = key /\ fact.batch = FALSE
  BY DEF Fact
<1>1. CASE Refuse(o)
  BY <1>1, <1>a, RefusalStands
<1>2. CASE known # {} /\ SameDecision(known, fact) /\ Repeat(o, fact)
  <2> HIDE DEF fact, key
  <2>1. \E a \in audits : Answering(a, fact)
    BY <1>2, <1>f, KnownOnRecord
  <2> QED
    BY <1>2, <1>a, <2>1, RepetitionStands
<1>3. CASE /\ fence.ready /\ Found(i, media) /\ known = {} /\ Swappable(i, version)
           /\ Decided + 1 <= MaxDecisions
           /\ items' = [items EXCEPT ![i] = Swapped(i, action, version)]
           /\ audits' = audits \cup {fact}
           /\ events' = events \cup {Event(key, i)}
           /\ Tell(o, fact)
  <2> HIDE DEF key, by
  <2> DEFINE S == {i}
             f == [x \in S |-> fact]
             B == {}
  <2>1. S \in SUBSET Projected /\ DOMAIN f = S /\ f[i] = fact
    BY <1>3 DEF Found
  <2>2. Cardinality(S) = 1
    BY FS_Singleton
  <2>3. \A x \in S : f[x].batch = FALSE /\ f[x].ids = {x} /\ FindAudit(f[x].key, FALSE) = {}
    <3>1. fact.ids = {i}
      BY DEF Fact
    <3> QED
      BY <1>3, <1>f, <2>1, <3>1
  <2>4. items' = [j \in Items |-> IF j \in S THEN Swapped(j, action, items[j].version) ELSE items[j]]
    <3>1. items \in [Items -> ItemType] /\ version = items[i].version
      BY <1>3 DEF ReviewsInv, ShapesMeant, Swappable
    <3> HIDE DEF version
    <3>2. items' = [items EXCEPT ![i] = Swapped(i, action, items[i].version)]
      BY <1>3, <3>1
    <3> QED
      BY <3>1, <3>2
  <2>5. /\ audits' = audits \cup {f[x] : x \in S} \cup B
        /\ events' = events \cup {Event(f[x].key, x) : x \in S}
    BY <1>3, <1>f, <2>1
  <2>6. Decided + Cardinality(S) <= MaxDecisions
    BY <1>3, <2>2
  <2>b. IsFiniteSet(B) /\ \A b \in B : b.batch = TRUE
    BY FS_EmptySet
  <2>d. DecidesOn(S, f, action, B)
    BY <2>1, <2>3, <2>4, <2>5, <2>6, <2>b DEF DecidesOn
  <2> HIDE DEF S, f, B, fact
  <2>7. items' \in [Items -> ItemType] /\ RecordsMeant' /\ ItemsMeant'
    BY <2>1, <2>d, DecisionsCounted
  <2>8. /\ \A a \in {fact} : FindAudit(a.key, a.batch) = {}
        /\ \A a \in {fact} : a.batch => \A j \in a.ids : Fact(Part(a.key, j), j, a.action, a.by) \in {fact}
    BY <1>3, <1>f
  <2> QED
    BY <1>3, <1>a, <2>7, <2>8, DecisionTold
<1>4. QED
  BY <1>1, <1>2, <1>3, Zenon DEF ApplyReview

LEMMA BatchStep ==
    ASSUME ReviewsAssumption, ReviewsInv, NEW o \in Operators, NEW ids \in SUBSET Items, NEW media,
           NEW action \in Actions, NEW sent, ApplyBatchReview(o, ids, media, action, sent)
    PROVE  ReviewsInv'
<1> DEFINE by == ActorOf(o, media)
           key == KeyOf(sent, by, media, action, ids, -1)
           fact == BatchFact(key, ids, action, by)
           known == FindAudit(key, TRUE)
<1>a. decisionStands' = decisionStands
  BY DEF ApplyBatchReview
<1>f. fact.key = key /\ fact.batch = TRUE /\ fact.ids = ids /\ fact.action = action /\ fact.by = by
  BY DEF BatchFact
<1>1. CASE Refuse(o)
  BY <1>1, <1>a, RefusalStands
<1>2. CASE known # {} /\ SameDecision(known, fact) /\ (\A a \in known : a.ids = ids) /\ Repeat(o, fact)
  <2> HIDE DEF fact, key
  <2>1. \E a \in audits : Answering(a, fact)
    BY <1>2, <1>f, KnownOnRecord
  <2> QED
    BY <1>2, <1>a, <2>1, RepetitionStands
<1>3. CASE /\ known = {}
           /\ \A i \in ids : Found(i, media) /\ FindAudit(Part(key, i), FALSE) = {}
           /\ Decided + Cardinality(ids) <= MaxDecisions
           /\ items' = [i \in Items |-> IF i \in ids THEN Swapped(i, action, items[i].version) ELSE items[i]]
           /\ audits' = audits \cup {Fact(Part(key, i), i, action, by) : i \in ids} \cup {fact}
           /\ events' = events \cup {Event(Part(key, i), i) : i \in ids}
           /\ Tell(o, fact)
  <2> HIDE DEF key, fact, by
  <2> DEFINE f == [i \in ids |-> Fact(Part(key, i), i, action, by)]
             B == {fact}
             P == {Fact(Part(key, i), i, action, by) : i \in ids}
  <2>1. ids \in SUBSET Projected /\ DOMAIN f = ids
    BY <1>3 DEF Found
  <2>2. IsFiniteSet(B) /\ \A b \in B : b.batch = TRUE
    BY <1>f, FS_Singleton
  <2>3. \A i \in ids : f[i].batch = FALSE /\ f[i].ids = {i} /\ FindAudit(f[i].key, FALSE) = {}
    BY <1>3 DEF Fact
  <2>4. /\ audits' = audits \cup {f[i] : i \in ids} \cup B
        /\ events' = events \cup {Event(f[i].key, i) : i \in ids}
    BY <1>3 DEF Fact
  <2>5. /\ Decided + Cardinality(ids) <= MaxDecisions
        /\ items' = [i \in Items |-> IF i \in ids THEN Swapped(i, action, items[i].version) ELSE items[i]]
    BY <1>3
  <2>6. audits' = audits \cup (P \cup {fact}) /\ fact \in P \cup {fact}
    BY <1>3
  <2>p. \A i \in ids : LET part == Fact(Part(key, i), i, action, by)
                       IN  part.key = Part(key, i) /\ part.batch = FALSE
    BY DEF Fact
  <2>n. \A a \in P : a.batch = FALSE /\ \E i \in ids : a = Fact(Part(key, i), i, action, by) /\ a.key = Part(key, i)
    BY <2>p
  <2>i. \A i, j \in ids : Part(key, i) = Part(key, j) => i = j
    BY DEF Part
  <2>d. DecidesOn(ids, f, action, B)
    BY <2>1, <2>2, <2>3, <2>4, <2>5 DEF DecidesOn
  <2> HIDE DEF f, B
  <2>7. items' \in [Items -> ItemType] /\ RecordsMeant' /\ ItemsMeant'
    BY <2>1, <2>d, DecisionsCounted
  <2> HIDE DEF P
  <2>8. \A a \in P \cup {fact} : FindAudit(a.key, a.batch) = {}
    BY <1>3, <1>f, <2>n
  <2>9. \A a, b \in P \cup {fact} : a.key = b.key /\ a.batch = b.batch => a = b
    <3> SUFFICES ASSUME NEW a \in P \cup {fact}, NEW b \in P \cup {fact}, a.key = b.key, a.batch = b.batch
                 PROVE  a = b
      OBVIOUS
    <3>1. CASE a \in P /\ b \in P
      <4>1. PICK i \in ids : a = Fact(Part(key, i), i, action, by) /\ a.key = Part(key, i)
        BY <3>1, <2>n
      <4>2. PICK j \in ids : b = Fact(Part(key, j), j, action, by) /\ b.key = Part(key, j)
        BY <3>1, <2>n
      <4>3. i = j
        BY <4>1, <4>2, <2>i
      <4> QED
        BY <4>1, <4>2, <4>3
    <3>2. CASE a = fact \/ b = fact
      BY <3>2, <1>f, <2>n
    <3> QED
      BY <3>1, <3>2
  <2>10. \A a \in P \cup {fact} :
             a.batch => \A i \in a.ids : Fact(Part(a.key, i), i, a.action, a.by) \in P \cup {fact}
    <3>1. \A i \in ids : Fact(Part(key, i), i, action, by) \in P
      BY DEF P
    <3> QED
      BY <1>f, <2>n, <3>1
  <2> QED
    BY <1>3, <1>a, <2>6, <2>7, <2>8, <2>9, <2>10, DecisionTold
<1>4. QED
  BY <1>1, <1>2, <1>3, Zenon DEF ApplyBatchReview
-----------------------------------------------------------------------------
LEMMA ImportStep ==
    ASSUME ReviewsAssumption, ReviewsInv, NEW n \in Imports,
           CloseFence(n) \/ MarkReady(n) \/ FailImport(n)
    PROVE  ReviewsInv'
<1>1. UNCHANGED <<items, importStands>>
  BY DEF CloseFence, MarkReady, FailImport
<1>2. RecordsMeant' /\ ItemsMeant' /\ KeysMeant'
  BY <1>1, RecordsStand, AnswersStand DEF importStands
<1>3. ShapesMeant'
  <2>1. runs \in [Imports -> [at : {"waiting", "scanning", "done", "failed"}, left : SUBSET Items, clean : BOOLEAN]]
    BY DEF ReviewsInv, ShapesMeant
  <2>2. /\ runs' \in [Imports -> [at : {"waiting", "scanning", "done", "failed"}, left : SUBSET Items, clean : BOOLEAN]]
        /\ fence' \in [ready : BOOLEAN, run : Imports \cup {"none"}]
    <3>1. CASE CloseFence(n)
      BY <2>1, <3>1 DEF CloseFence
    <3>2. CASE MarkReady(n)
      <4>1. runs' = [runs EXCEPT ![n].at = "done"]
        BY <3>2 DEF MarkReady
      <4>2. fence' = [ready |-> TRUE, run |-> n] \/ fence' = fence
        BY <3>2 DEF MarkReady
      <4>3. fence' \in [ready : BOOLEAN, run : Imports \cup {"none"}]
        <5>1. fence \in [ready : BOOLEAN, run : Imports \cup {"none"}]
          BY DEF ReviewsInv, ShapesMeant
        <5> QED
          <6>1. CASE fence' = [ready |-> TRUE, run |-> n]
            <7>1. TRUE \in BOOLEAN /\ n \in Imports \cup {"none"}
              OBVIOUS
            <7> QED
              BY <6>1, <7>1
          <6>2. CASE fence' = fence
            BY <5>1, <6>2
          <6> QED
            BY <4>2, <6>1, <6>2
      <4> QED
        BY <2>1, <4>1, <4>3
    <3>3. CASE FailImport(n)
      <4>1. runs' = [runs EXCEPT ![n].at = "failed"] /\ fence' = fence
        BY <3>3 DEF FailImport
      <4>2. fence \in [ready : BOOLEAN, run : Imports \cup {"none"}]
        BY DEF ReviewsInv, ShapesMeant
      <4>3. runs' \in [Imports -> [at : {"waiting", "scanning", "done", "failed"}, left : SUBSET Items, clean : BOOLEAN]]
        BY <2>1, <4>1
      <4> QED
        BY <4>1, <4>2, <4>3
    <3> QED
      BY <3>1, <3>2, <3>3
  <2> QED
    BY <1>1, <2>2 DEF importStands, ReviewsInv, ShapesMeant
<1> QED
  BY <1>2, <1>3 DEF ReviewsInv

LEMMA ScanStep ==
    ASSUME ReviewsAssumption, ReviewsInv, NEW n \in Imports, NEW i \in Items, Scan(n, i)
    PROVE  ReviewsInv'
<1> DEFINE outcome == MapLegacyDocument(SourceOf[i], legacy[i])
<1>1. UNCHANGED <<importStands, fence>>
  BY DEF Scan
<1>2. items' \in [Items -> ItemType] /\ RecordsMeant' /\ ItemsMeant'
  <2>1. CASE items' = items
    BY <1>1, <2>1, RecordsStand DEF importStands, ReviewsInv, ShapesMeant
  <2>2. CASE items' # items
    <3>1. /\ outcome = "ready" /\ i \notin Projected
          /\ items' = [items EXCEPT ![i] = Record(SourceOf[i], legacy[i])]
      BY <2>2 DEF Scan, Upserted
    <3>2. SourceOf[i] \in LegacySources /\ legacy[i] \in Documents
      BY DEF ReviewsAssumption, ReviewsInv, ShapesMeant
    <3>3. LET item == Record(SourceOf[i], legacy[i])
          IN  item \in ItemType /\ Complete(item) /\ item.version = 1
      BY <3>1, <3>2, RecordWhole
    <3> QED
      BY <1>1, <3>1, <3>3, InsertionStands DEF importStands
  <2> QED
    BY <2>1, <2>2
<1>3. ShapesMeant'
  <2>1. runs' \in [Imports -> [at : {"waiting", "scanning", "done", "failed"}, left : SUBSET Items, clean : BOOLEAN]]
    <3> DEFINE Runs == [at : {"waiting", "scanning", "done", "failed"}, left : SUBSET Items, clean : BOOLEAN]
               run == [runs[n] EXCEPT !.left = @ \ {i}, !.clean = @ /\ outcome = "ready"]
    <3>1. runs \in [Imports -> Runs]
      BY DEF ReviewsInv, ShapesMeant
    <3>0. runs' = [runs EXCEPT ![n].left = @ \ {i}, ![n].clean = @ /\ outcome = "ready"]
      BY Zenon DEF Scan
    <3>2. runs' = [runs EXCEPT ![n] = run]
      BY <3>0, <3>1, Zenon
    <3>3. run \in Runs
      <4>1. runs[n] \in Runs
        BY <3>1
      <4>2. (runs[n].clean /\ outcome = "ready") \in BOOLEAN /\ runs[n].left \ {i} \in SUBSET Items
        BY <4>1
      <4> QED
        BY <4>1, <4>2
    <3> HIDE DEF Runs, run
    <3>4. runs' \in [Imports -> Runs]
      BY <3>1, <3>2, <3>3
    <3> QED
      BY <3>4 DEF Runs
  <2> QED
    BY <1>1, <1>2, <2>1 DEF importStands, ReviewsInv, ShapesMeant
<1>4. KeysMeant'
  BY <1>1, AnswersStand DEF importStands
<1> QED
  BY <1>2, <1>3, <1>4 DEF ReviewsInv

LEMMA LegacyStep ==
    ASSUME ReviewsAssumption, ReviewsInv, NEW i \in Items, NEW d \in Documents, LegacyWrites(i, d)
    PROVE  ReviewsInv'
<1>1. UNCHANGED <<items, audits, events, fence, runs, seen, answers>>
  BY DEF LegacyWrites
<1>2. RecordsMeant' /\ ItemsMeant' /\ KeysMeant'
  BY <1>1, RecordsStand, AnswersStand
<1>3. legacy' \in [Items -> Documents] /\ changes' \in 0..MaxChanges
  BY DEF LegacyWrites, ReviewsInv, ShapesMeant, ReviewsAssumption
<1> QED
  BY <1>1, <1>2, <1>3 DEF ReviewsInv, ShapesMeant

LEMMA ListStep ==
    ASSUME ReviewsAssumption, ReviewsInv, NEW o \in Operators, NEW q, List(o, q)
    PROVE  ReviewsInv'
<1>1. UNCHANGED <<legacy, changes, items, audits, events, fence, runs, answers>>
  BY DEF List
<1>2. RecordsMeant' /\ ItemsMeant' /\ KeysMeant'
  BY <1>1, RecordsStand, AnswersStand
<1>3. seen' \in [Operators -> [Items -> 0..(MaxDecisions + 1)]]
  <2> DEFINE row == [i \in Items |-> IF i \in Page(q) THEN items[i].version ELSE seen[o][i]]
  <2>1. seen' = [seen EXCEPT ![o] = row]
    BY DEF List, ReviewsInv, ShapesMeant
  <2>2. row \in [Items -> 0..(MaxDecisions + 1)]
    BY VersionsBounded DEF ReviewsInv, ShapesMeant
  <2> HIDE DEF row
  <2> QED
    BY <2>1, <2>2 DEF ReviewsInv, ShapesMeant
<1> QED
  BY <1>1, <1>2, <1>3 DEF ReviewsInv, ShapesMeant

LEMMA NextInvariant ==
    ASSUME ReviewsAssumption, ReviewsInv, [ReviewsNext]_reviewVars
    PROVE  ReviewsInv'
<1>1. CASE UNCHANGED reviewVars
  <2>1. RecordsMeant' /\ ItemsMeant' /\ KeysMeant'
    BY <1>1, RecordsStand, AnswersStand DEF reviewVars
  <2> QED
    BY <1>1, <2>1 DEF reviewVars, ReviewsInv, ShapesMeant
<1>2. ASSUME NEW n \in Imports, CloseFence(n) \/ MarkReady(n) \/ FailImport(n) PROVE ReviewsInv'
  BY <1>2, ImportStep
<1>3. ASSUME NEW n \in Imports, NEW i \in Items, Scan(n, i) PROVE ReviewsInv'
  BY <1>3, ScanStep
<1>4. ASSUME NEW i \in Items, NEW d \in Documents, LegacyWrites(i, d) PROVE ReviewsInv'
  BY <1>4, LegacyStep
<1>5. ASSUME NEW o \in Operators, NEW q \in Queries, List(o, q) PROVE ReviewsInv'
  BY <1>5, ListStep
<1>6. ASSUME NEW o \in Operators, NEW i \in Items, NEW sent \in Keys \cup {NoKey}, ServeWrite(o, i, sent)
      PROVE  ReviewsInv'
  <2>1. \E media \in Media, action \in Actions : \E expected : ApplyReview(o, i, media, action, expected, sent)
    BY <1>6 DEF ServeWrite, Actions
  <2> QED
    BY <2>1, ReviewStep
<1>7. ASSUME NEW o \in Operators, NEW media \in Media, NEW sent \in Keys \cup {NoKey},
             NEW action \in {"approve", "reject"}, NEW ids \in SUBSET Items,
             ApplyBatchReview(o, ids, media, action, sent)
      PROVE  ReviewsInv'
  <2>1. action \in Actions
    BY DEF Actions
  <2> QED
    BY <1>7, <2>1, BatchStep
<1>8. CASE ReviewsNext
  <2>1. SUBSET Items \ {{}} \subseteq SUBSET Items
    OBVIOUS
  <2> QED
    <3>1. CASE \E n \in Imports : CloseFence(n) \/ (\E i \in Items : Scan(n, i)) \/ MarkReady(n) \/ FailImport(n)
      BY <1>2, <1>3, <3>1
    <3>2. CASE \E i \in Items, d \in Documents : LegacyWrites(i, d)
      BY <1>4, <3>2
    <3>3. CASE \E o \in Operators, q \in Queries : List(o, q)
      BY <1>5, <3>3
    <3>4. CASE \E o \in Operators, i \in Items, sent \in Keys \cup {NoKey} : ServeWrite(o, i, sent)
      BY <1>6, <3>4
    <3>5. CASE \E o \in Operators, media \in Media, sent \in Keys \cup {NoKey}, action \in {"approve", "reject"} :
                  \E ids \in SUBSET Items \ {{}} : ApplyBatchReview(o, ids, media, action, sent)
      BY <1>7, <2>1, <3>5
    <3> QED
      BY <1>8, <3>1, <3>2, <3>3, <3>4, <3>5 DEF ReviewsNext
<1> QED
  BY <1>1, <1>8
-----------------------------------------------------------------------------
\* The strengthened invariant holds in every reachable state.
THEOREM InvariantHolds == ReviewsSpec => []ReviewsInv
<1>1. ReviewsInit => ReviewsInv
  BY ReviewsAssumption, InitInvariant
<1>2. ReviewsInv /\ [ReviewsNext]_reviewVars => ReviewsInv'
  BY ReviewsAssumption, NextInvariant
<1> QED
  BY <1>1, <1>2, PTL DEF ReviewsSpec

\* Items, fence, runs and what operators saw keep their types.
THEOREM ReviewsTyped == ReviewsSpec => []ReviewsTypeOK
<1>1. ReviewsInv => ReviewsTypeOK
  BY ReviewsAssumption, InvariantMeans
<1> QED
  BY <1>1, InvariantHolds, PTL

\* No decision is lost, taken twice or taken back, and none told that is not
\* on record (data/admin_review_write.go, cmd/admin-review-import).
THEOREM ReviewsAreSafe == ReviewsSpec => []ReviewsSafe
<1>1. ReviewsInv => ReviewsSafe
  BY ReviewsAssumption, InvariantMeans
<1> QED
  BY <1>1, InvariantHolds, PTL
-----------------------------------------------------------------------------
(* Desk.                                                                   *)

\* What the audit says of a change.
ChangeType ==
    [by : People, target : People, field : {"role", "status"},
     value : Roles \cup {"active", "suspended", "deleted"}]

Answers ==
    {"read", "write", "change", "elsewhere", "invalid", "not mine", "not migrated", "unavailable", "method"}
Over == {"ready", "forbidden", "change"}

CallsMade == Asked \cup {NoCall.call}

DeskShapes ==
    /\ staff \in [People -> [role : Roles, status : {"active", "suspended", "deleted"}]]
    /\ changed \in Seq(ChangeType)
    /\ desk \in [Requests -> [at : Answers \cup Over \cup {"admitted"}, by : People \cup {Nobody},
                              role : Roles, call : CallsMade]]

\* Who was let in, and as what: super administrators are so from the first.
AdmissionMeant(r) ==
    desk[r].at \notin Over =>
        LET d == desk[r]
        IN  /\ d.by \in People
            /\ d.role \in Admitted(HandlerOf(d.call.path), d.call)
            /\ d.role = "super_admin" <=> FirstRole[d.by] = "super_admin"
            /\ d.at # "admitted" => d.at = Purpose(HandlerOf(d.call.path), d.call)

DeskInv == DeskShapes /\ (\A r \in Requests : AdmissionMeant(r)) /\ ChangesAreDue
-----------------------------------------------------------------------------
\* What the routes answer.
LEMMA ManagementKnown ==
    ASSUME NEW c
    PROVE  /\ Management(c) \in {"read", "invalid", "change", "write", "not mine"}
           /\ Management(c) = "change" => ChangesUser(c)
           /\ Management(c) = "write" => ViewWrites(c)
  BY DEF Management

LEMMA ViewKnown ==
    ASSUME NEW c
    PROVE  /\ View(c) \in Answers
           /\ View(c) = "change" => ChangesUser(c)
           /\ View(c) = "write" => ViewWrites(c)
<1>1. Trends(c) \in {"read", "invalid", "not mine"}
  BY DEF Trends
<1> QED
  BY <1>1, ManagementKnown DEF View, Answers

OtherAnswers == Answers \ {"change", "write"}

LEMMA OthersKnown ==
    ASSUME NEW c
    PROVE  /\ ReviewOfImages(c) \in OtherAnswers /\ ReviewOfVideos(c) \in OtherAnswers
           /\ Subscriptions(c) \in OtherAnswers /\ LinkRoutes(c) \in OtherAnswers
           /\ AppRoutes(c) \in OtherAnswers /\ Channels(c) \in OtherAnswers
           /\ MenuRoutes(c) \in OtherAnswers /\ FunnelRoutes(c) \in OtherAnswers
           /\ PricingRoutes(c) \in OtherAnswers
<1> USE DEF OtherAnswers, Answers
<1>1. ReviewOfImages(c) \in OtherAnswers
  BY DEF ReviewOfImages
<1>2. ReviewOfVideos(c) \in OtherAnswers
  BY DEF ReviewOfVideos
<1>3. Subscriptions(c) \in OtherAnswers
  BY DEF Subscriptions
<1>4. LinkRoutes(c) \in OtherAnswers
  BY DEF LinkRoutes
<1>5. LegalRoutes(c) \in OtherAnswers
  BY DEF LegalRoutes
<1>6. AppRoutes(c) \in OtherAnswers
  BY <1>5 DEF AppRoutes
<1>7. /\ Channels(c) \in OtherAnswers /\ MenuRoutes(c) \in OtherAnswers
      /\ FunnelRoutes(c) \in OtherAnswers /\ PricingRoutes(c) \in OtherAnswers
  BY DEF Channels, MenuRoutes, FunnelRoutes, PricingRoutes
<1> QED
  BY <1>1, <1>2, <1>3, <1>4, <1>6, <1>7

\* Accounts are changed and money is given by the view alone.
LEMMA PurposeKnown ==
    ASSUME NEW h, NEW c
    PROVE  /\ Purpose(h, c) \in Answers
           /\ Purpose(h, c) = "change" => ChangesUser(c)
           /\ Purpose(h, c) = "write" => h = "view" /\ ViewWrites(c)
  BY ViewKnown, OthersKnown DEF Purpose, OtherAnswers, Answers
-----------------------------------------------------------------------------
\* The last of some positions.
LEMMA LatestDecision ==
    ASSUME NEW n \in Nat, NEW S, S \subseteq 1..n, S # {}
    PROVE  Max(S) \in S /\ \A y \in S : y <= Max(S)
<1> DEFINE T == {n - i : i \in S}
<1>0. \A i \in S : i \in Nat /\ n - i \in Nat
  OBVIOUS
<1>1. T \subseteq Nat /\ T # {}
  BY <1>0
<1>2. PICK least \in T : \A m \in T : least <= m
  BY <1>1, Least
<1>3. PICK x \in S : least = n - x
  BY <1>2
<1>4. \A y \in S : x >= y
  <2>1. ASSUME NEW y \in S PROVE n - x <= n - y
    BY <1>2, <1>3
  <2> QED
    BY <1>0, <2>1
<1>5. Max(S) \in S /\ \A y \in S : Max(S) >= y
  BY <1>4 DEF Max
<1> QED
  BY <1>0, <1>5

LEMMA LatestIs ==
    ASSUME NEW S, S \subseteq Nat, NEW x \in S, \A y \in S : y <= x
    PROVE  Max(S) = x
<1>0. \A y \in S : y \in Nat
  OBVIOUS
<1>1. \A y \in S : x >= y
  BY <1>0
<1>2. Max(S) \in S /\ \A y \in S : Max(S) >= y
  BY <1>1 DEF Max
<1> HIDE DEF Max
<1>3. Max(S) \in Nat /\ Max(S) >= x /\ Max(S) <= x
  BY <1>0, <1>2
<1> QED
  BY <1>0, <1>3

\* Another change leaves what the audit told before, and tells of itself.
LEMMA HistoryGrows ==
    ASSUME changed \in Seq(ChangeType), NEW e \in ChangeType, changed' = Append(changed, e), NEW p,
           NEW N \in Nat, N = Len(changed)
    PROVE  /\ \A n \in 0..N : RoleAfter(n, p)' = RoleAfter(n, p) /\ StatusAfter(n, p)' = StatusAfter(n, p)
           /\ RoleAfter(N + 1, p)' =
                  IF e.target = p /\ e.field = "role" THEN e.value ELSE RoleAfter(N, p)
           /\ StatusAfter(N + 1, p)' =
                  IF e.target = p /\ e.field = "status" THEN e.value ELSE StatusAfter(N, p)
<1> DEFINE Given(n, field) == {i \in 1..n : changed[i].target = p /\ changed[i].field = field}
<1>1. /\ N \in Nat /\ Len(changed') = N + 1 /\ changed'[N + 1] = e
      /\ \A i \in 1..N : changed'[i] = changed[i]
  OBVIOUS
<1>2. \A field : \A n \in 0..N : Given(n, field)' = Given(n, field)
  BY <1>1
<1>3. \A field : \A n \in 0..N : Given(n, field) # {} => Max(Given(n, field)) \in 1..N
  <2> SUFFICES ASSUME NEW n \in 0..N, NEW field, Given(n, field) # {}
               PROVE  Max(Given(n, field)) \in 1..N
    OBVIOUS
  <2> DEFINE S == Given(n, field)
  <2>1. S \subseteq 1..n /\ S # {} /\ n \in Nat
    BY <1>1
  <2> HIDE DEF S
  <2>2. Max(S) \in 1..n
    BY <2>1, LatestDecision
  <2> QED
    BY <1>1, <2>2 DEF S
<1>4. \A field : Given(N + 1, field)' =
                   Given(N, field) \cup (IF e.target = p /\ e.field = field THEN {N + 1} ELSE {})
  BY <1>1
<1>5. \A field : e.target = p /\ e.field = field => Max(Given(N + 1, field)') = N + 1
  <2> SUFFICES ASSUME NEW field, e.target = p, e.field = field PROVE Max(Given(N + 1, field)') = N + 1
    OBVIOUS
  <2> DEFINE S == Given(N, field) \cup {N + 1}
  <2>0. Given(N, field) \subseteq 1..N
    OBVIOUS
  <2> HIDE DEF Given
  <2>1. S \subseteq Nat /\ N + 1 \in S /\ \A y \in S : y <= N + 1
    BY <1>1, <2>0
  <2>2. Given(N + 1, field)' = S
    BY <1>4
  <2> HIDE DEF S
  <2> QED
    BY <2>1, <2>2, LatestIs
<1>6. \A n : /\ RoleAfter(n, p) = IF Given(n, "role") = {} THEN FirstRole[p] ELSE changed[Max(Given(n, "role"))].value
             /\ StatusAfter(n, p) = IF Given(n, "status") = {} THEN "active" ELSE changed[Max(Given(n, "status"))].value
  BY DEF RoleAfter, StatusAfter
<1>7. \A n : /\ RoleAfter(n, p)' = IF Given(n, "role")' = {} THEN FirstRole[p] ELSE changed'[Max(Given(n, "role")')].value
             /\ StatusAfter(n, p)' = IF Given(n, "status")' = {} THEN "active" ELSE changed'[Max(Given(n, "status")')].value
  BY DEF RoleAfter, StatusAfter
<1> HIDE DEF Given
<1>10. N + 1 \in Nat /\ N \in 0..N
  BY <1>1
<1>8. \A n \in 0..N : RoleAfter(n, p)' = RoleAfter(n, p) /\ StatusAfter(n, p)' = StatusAfter(n, p)
  BY <1>1, <1>2, <1>3, <1>6, <1>7
<1>9. /\ RoleAfter(N + 1, p)' = IF e.target = p /\ e.field = "role" THEN e.value ELSE RoleAfter(N, p)
      /\ StatusAfter(N + 1, p)' = IF e.target = p /\ e.field = "status" THEN e.value ELSE StatusAfter(N, p)
  <2>1. ASSUME NEW field, ~(e.target = p /\ e.field = field)
        PROVE  /\ Given(N + 1, field)' = Given(N, field)
               /\ Given(N, field) # {} => changed'[Max(Given(N, field))] = changed[Max(Given(N, field))]
    <3>1. Given(N + 1, field)' = Given(N, field)
      BY <1>4, <2>1
    <3> QED
      BY <1>1, <1>3, <1>10, <3>1
  <2>2. ASSUME NEW field, e.target = p, e.field = field
        PROVE  Given(N + 1, field)' # {} /\ changed'[Max(Given(N + 1, field)')] = e
    <3>1. Given(N + 1, field)' = Given(N, field) \cup {N + 1}
      BY <1>4, <2>2
    <3> QED
      BY <1>1, <1>5, <2>2, <3>1
  <2>3. RoleAfter(N + 1, p)' = IF e.target = p /\ e.field = "role" THEN e.value ELSE RoleAfter(N, p)
    <3>1. CASE e.target = p /\ e.field = "role"
      BY <1>7, <2>2, <3>1
    <3>2. CASE ~(e.target = p /\ e.field = "role")
      BY <1>6, <1>7, <2>1, <3>2
    <3> QED
      BY <3>1, <3>2
  <2>4. StatusAfter(N + 1, p)' = IF e.target = p /\ e.field = "status" THEN e.value ELSE StatusAfter(N, p)
    <3>1. CASE e.target = p /\ e.field = "status"
      BY <1>7, <2>2, <3>1
    <3>2. CASE ~(e.target = p /\ e.field = "status")
      BY <1>6, <1>7, <2>1, <3>2
    <3> QED
      BY <3>1, <3>2
  <2> QED
    BY <2>3, <2>4
<1> QED
  BY <1>8, <1>9
-----------------------------------------------------------------------------
Known == [at : Answers \cup Over \cup {"admitted"}, by : People \cup {Nobody}, role : Roles, call : CallsMade]

LEMMA NoCallKnown ==
    ASSUME NEW at \in Over
    PROVE  [NoCall EXCEPT !.at = at] \in Known /\ [NoCall EXCEPT !.at = at].at = at
  BY DEF NoCall, Known, CallsMade, Roles

\* A request that moves leaves the others to what they mean.
LEMMA RequestMoves ==
    ASSUME DeskInv, NEW r \in Requests, NEW d \in Known, desk' = [desk EXCEPT ![r] = d],
           \/ d.at \in Over
           \/ /\ d.by \in People /\ d.role \in Admitted(HandlerOf(d.call.path), d.call)
              /\ d.role = "super_admin" <=> FirstRole[d.by] = "super_admin"
              /\ d.at # "admitted" => d.at = Purpose(HandlerOf(d.call.path), d.call)
    PROVE  desk' \in [Requests -> Known] /\ \A s \in Requests : AdmissionMeant(s)'
<1>1. desk \in [Requests -> Known]
  BY DEF DeskInv, DeskShapes, Known
<1>2. desk' \in [Requests -> Known]
  BY <1>1
<1>3. ASSUME NEW s \in Requests PROVE AdmissionMeant(s)'
  <2>1. CASE s = r
    <3>1. desk'[s] = d
      BY <1>1, <2>1
    <3> QED
      BY <3>1 DEF AdmissionMeant
  <2>2. CASE s # r
    <3>1. desk'[s] = desk[s] /\ AdmissionMeant(s)
      BY <1>1, <2>2 DEF DeskInv
    <3> QED
      BY <3>1 DEF AdmissionMeant
  <2> QED
    BY <2>1, <2>2
<1> QED
  BY <1>2, <1>3

\* What the audit tells stays true while nothing is changed.
LEMMA HistoryStands ==
    ASSUME ChangesAreDue, UNCHANGED <<staff, changed>>
    PROVE  ChangesAreDue'
<1>1. \A n, p : RoleAfter(n, p)' = RoleAfter(n, p) /\ StatusAfter(n, p)' = StatusAfter(n, p)
  BY DEF RoleAfter, StatusAfter
<1> QED
  BY <1>1 DEF ChangesAreDue

\* A change is of an account that may be reached, by somebody who may.
LEMMA ChangeMeant ==
    ASSUME DeskInv, NEW r \in Requests, desk[r].at = "admitted",
           Purpose(HandlerOf(desk[r].call.path), desk[r].call) = "change",
           NEW m, m = Change(desk[r].call),
           Permitted(desk[r].by, desk[r].role, m), Reachable(desk[r].role, m.target)
    PROVE  /\ desk[r].by \in People /\ m.target \in People /\ m.field \in {"role", "status"}
           /\ m.field = "role" => m.value \in {"user", "admin", "editor"}
           /\ m.field = "status" => m.value \in {"active", "suspended", "deleted"}
           /\ desk[r].role = "super_admin" => FirstRole[desk[r].by] = "super_admin"
<1>1. ChangesUser(desk[r].call)
  BY PurposeKnown
<1>2. m.field \in {"role", "status"}
  BY <1>1 DEF ChangesUser, Change
<1>3. AdmissionMeant(r) /\ desk[r].at \notin Over
  BY DEF DeskInv, Over
<1> QED
  BY <1>2, <1>3 DEF AdmissionMeant, Permitted, Reachable

LEMMA ChangeStep ==
    ASSUME DeskInv, NEW r \in Requests, ChangeUser(r)
    PROVE  DeskInv'
<1> DEFINE d == desk[r]
           m == Change(d.call)
           e == [by |-> d.by, target |-> m.target, field |-> m.field, value |-> m.value]
<1>1. d.at = "admitted" /\ Purpose(HandlerOf(d.call.path), d.call) = "change"
  BY DEF ChangeUser
<1>2. CASE ~(Permitted(d.by, d.role, m) /\ Reachable(d.role, m.target))
  <2>1. desk' = [desk EXCEPT ![r] = [NoCall EXCEPT !.at = "forbidden"]] /\ UNCHANGED <<staff, changed>>
    BY <1>2 DEF ChangeUser
  <2>2. [NoCall EXCEPT !.at = "forbidden"] \in Known /\ [NoCall EXCEPT !.at = "forbidden"].at \in Over
    BY NoCallKnown DEF Over
  <2>3. desk' \in [Requests -> Known] /\ \A s \in Requests : AdmissionMeant(s)'
    BY <2>1, <2>2, RequestMoves
  <2> QED
    BY <2>1, <2>3, HistoryStands DEF DeskInv, DeskShapes, Known
<1>3. CASE Permitted(d.by, d.role, m) /\ Reachable(d.role, m.target)
  <2>1. /\ staff' = IF m.field = "role" THEN [staff EXCEPT ![m.target].role = m.value]
                    ELSE [staff EXCEPT ![m.target].status = m.value]
        /\ changed' = Append(changed, e)
        /\ desk' = [desk EXCEPT ![r] = [NoCall EXCEPT !.at = "change"]]
    BY <1>3 DEF ChangeUser
  <2>2. [NoCall EXCEPT !.at = "change"] \in Known /\ [NoCall EXCEPT !.at = "change"].at \in Over
    BY NoCallKnown DEF Over
  <2>3. desk' \in [Requests -> Known] /\ \A s \in Requests : AdmissionMeant(s)'
    BY <2>1, <2>2, RequestMoves
  <2>4. /\ d.by \in People /\ m.target \in People /\ m.field \in {"role", "status"}
        /\ m.field = "role" => m.value \in {"user", "admin", "editor"}
        /\ m.field = "status" => m.value \in {"active", "suspended", "deleted"}
        /\ d.role = "super_admin" => FirstRole[d.by] = "super_admin"
    BY <1>1, <1>3, ChangeMeant
  <2>5. /\ m.target # d.by
        /\ m.field = "role" => d.role = "super_admin"
        /\ staff[m.target].role # "super_admin" /\ staff[m.target].status # "deleted"
        /\ staff[m.target].role = "admin" => d.role = "super_admin"
    BY <1>3 DEF Permitted, Reachable
  <2>6. e \in ChangeType /\ e.by = d.by /\ e.target = m.target /\ e.field = m.field /\ e.value = m.value
    BY <2>4 DEF ChangeType, Roles
  <2> HIDE DEF d, m, e
  <2>7. staff \in [People -> [role : Roles, status : {"active", "suspended", "deleted"}]]
        /\ changed \in Seq(ChangeType)
    BY DEF DeskInv, DeskShapes
  <2>8. staff' \in [People -> [role : Roles, status : {"active", "suspended", "deleted"}]]
    BY <2>1, <2>4, <2>7 DEF Roles
  <2>9. changed' \in Seq(ChangeType)
    BY <2>1, <2>6, <2>7
  <2>10. \A p \in People :
            staff'[p] = [role |-> IF p = m.target /\ m.field = "role" THEN m.value ELSE staff[p].role,
                         status |-> IF p = m.target /\ m.field = "status" THEN m.value ELSE staff[p].status]
    BY <2>1, <2>4, <2>7
  <2>11. PICK N \in Nat : N = Len(changed)
    BY <2>7
  <2>12. /\ Len(changed') = N + 1 /\ changed'[N + 1] = e
         /\ \A i \in 1..N : changed'[i] = changed[i]
    BY <2>1, <2>7, <2>11
  <2>13. \A p : /\ \A n \in 0..N : RoleAfter(n, p)' = RoleAfter(n, p) /\ StatusAfter(n, p)' = StatusAfter(n, p)
                /\ RoleAfter(N + 1, p)' =
                       IF e.target = p /\ e.field = "role" THEN e.value ELSE RoleAfter(N, p)
                /\ StatusAfter(N + 1, p)' =
                       IF e.target = p /\ e.field = "status" THEN e.value ELSE StatusAfter(N, p)
    <3>1. changed \in Seq(ChangeType) /\ e \in ChangeType /\ changed' = Append(changed, e)
      BY <2>1, <2>6, <2>7
    <3> QED
      BY <2>11, <3>1, HistoryGrows
  <2>14. \A p \in People :
            /\ staff[p] = [role |-> RoleAfter(N, p), status |-> StatusAfter(N, p)]
            /\ staff[p].role = "super_admin" <=> FirstRole[p] = "super_admin"
            /\ FirstRole[p] = "super_admin" => staff[p].status = "active"
    BY <2>11 DEF DeskInv, ChangesAreDue
  <2>15. \A i \in 1..N :
            LET x == changed[i]
            IN  /\ x.by # x.target /\ StatusAfter(i - 1, x.target) # "deleted"
                /\ x.field = "role" \/ RoleAfter(i - 1, x.target) = "admin" => FirstRole[x.by] = "super_admin"
    BY <2>11 DEF DeskInv, ChangesAreDue
  <2>16. ASSUME NEW p \in People
         PROVE  /\ staff'[p] = [role |-> RoleAfter(N + 1, p)', status |-> StatusAfter(N + 1, p)']
                /\ staff'[p].role = "super_admin" <=> FirstRole[p] = "super_admin"
                /\ FirstRole[p] = "super_admin" => staff'[p].status = "active"
    <3>0. /\ staff'[p].role = IF p = m.target /\ m.field = "role" THEN m.value ELSE staff[p].role
          /\ staff'[p].status = IF p = m.target /\ m.field = "status" THEN m.value ELSE staff[p].status
      <4>1. staff'[p] = [role |-> IF p = m.target /\ m.field = "role" THEN m.value ELSE staff[p].role,
                         status |-> IF p = m.target /\ m.field = "status" THEN m.value ELSE staff[p].status]
        BY <2>10
      <4> QED
        BY <4>1
    <3>1. staff'[p].role = "super_admin" <=> staff[p].role = "super_admin"
      BY <2>4, <2>5, <3>0
    <3>2. staff[p].role = "super_admin" => staff'[p].status = staff[p].status
      BY <2>5, <3>0
    <3>3. staff[p].role = RoleAfter(N, p) /\ staff[p].status = StatusAfter(N, p)
      <4>1. staff[p] = [role |-> RoleAfter(N, p), status |-> StatusAfter(N, p)]
        BY <2>14
      <4> QED
        BY <4>1
    <3>4. staff'[p] = [role |-> RoleAfter(N + 1, p)', status |-> StatusAfter(N + 1, p)']
      BY <2>6, <2>10, <2>13, <3>3
    <3> QED
      BY <2>14, <3>1, <3>2, <3>4
  <2>17. ASSUME NEW i \in 1..(N + 1), NEW x, x = changed'[i]
         PROVE  /\ x.by # x.target /\ StatusAfter(i - 1, x.target)' # "deleted"
                /\ x.field = "role" \/ RoleAfter(i - 1, x.target)' = "admin" => FirstRole[x.by] = "super_admin"
    <3>1. i - 1 \in 0..N
      BY <2>11
    <3>2. /\ StatusAfter(i - 1, x.target)' = StatusAfter(i - 1, x.target)
          /\ RoleAfter(i - 1, x.target)' = RoleAfter(i - 1, x.target)
      BY <2>13, <3>1
    <3>3. CASE i \in 1..N
      BY <2>12, <2>15, <2>17, <3>2, <3>3
    <3>4. CASE i = N + 1
      <4>1. x = e /\ i - 1 = N
        BY <2>11, <2>12, <2>17, <3>4
      <4>2. /\ staff[m.target].role = RoleAfter(N, m.target)
            /\ staff[m.target].status = StatusAfter(N, m.target)
        <5>1. staff[m.target] = [role |-> RoleAfter(N, m.target), status |-> StatusAfter(N, m.target)]
          BY <2>4, <2>14
        <5> QED
          BY <5>1
      <4> QED
        BY <2>4, <2>5, <2>6, <3>2, <4>1, <4>2
    <3> QED
      BY <2>11, <3>3, <3>4
  <2>18. ChangesAreDue'
    BY <2>12, <2>16, <2>17 DEF ChangesAreDue
  <2> QED
    BY <2>3, <2>8, <2>9, <2>18 DEF DeskInv, DeskShapes, Known
<1> QED
  BY <1>2, <1>3

LEMMA AskStep ==
    ASSUME DeskInv, NEW r \in Requests, NEW p \in People, NEW c \in Asked, Ask(r, p, c)
    PROVE  DeskInv'
<1>1. UNCHANGED <<staff, changed>>
  BY DEF Ask
<1>2. ChangesAreDue'
  BY <1>1, HistoryStands DEF DeskInv
<1>3. desk' \in [Requests -> Known] /\ \A s \in Requests : AdmissionMeant(s)'
  <2>1. CASE staff[p].role \in Admitted(HandlerOf(c.path), c)
    <3> DEFINE d == [at |-> "admitted", by |-> p, role |-> staff[p].role, call |-> c]
    <3>1. desk' = [desk EXCEPT ![r] = d]
      BY <2>1 DEF Ask
    <3>2. d \in Known
      BY DEF Known, CallsMade, DeskInv, DeskShapes
    <3>3. d.at = "admitted" /\ d.by = p /\ d.role = staff[p].role /\ d.call = c
      OBVIOUS
    <3>4. staff[p].role = "super_admin" <=> FirstRole[p] = "super_admin"
      BY DEF DeskInv, ChangesAreDue
    <3> HIDE DEF d
    <3> QED
      BY <2>1, <3>1, <3>2, <3>3, <3>4, RequestMoves
  <2>2. CASE staff[p].role \notin Admitted(HandlerOf(c.path), c)
    <3>1. desk' = [desk EXCEPT ![r] = [NoCall EXCEPT !.at = "forbidden"]]
      BY <2>2 DEF Ask
    <3>2. [NoCall EXCEPT !.at = "forbidden"] \in Known /\ [NoCall EXCEPT !.at = "forbidden"].at \in Over
      BY NoCallKnown DEF Over
    <3> QED
      BY <3>1, <3>2, RequestMoves
  <2> QED
    BY <2>1, <2>2
<1> QED
  BY <1>1, <1>2, <1>3 DEF DeskInv, DeskShapes, Known

LEMMA AnswerStep ==
    ASSUME DeskInv, NEW r \in Requests, AnswerOther(r) \/ AskAgain(r)
    PROVE  DeskInv'
<1>1. UNCHANGED <<staff, changed>>
  BY DEF AnswerOther, AskAgain
<1>2. ChangesAreDue'
  BY <1>1, HistoryStands DEF DeskInv
<1>3. desk \in [Requests -> Known]
  BY DEF DeskInv, DeskShapes, Known
<1>4. desk' \in [Requests -> Known] /\ \A s \in Requests : AdmissionMeant(s)'
  <2>1. CASE AskAgain(r)
    <3>1. desk' = [desk EXCEPT ![r] = NoCall] /\ NoCall.at \in Over
      BY <2>1 DEF AskAgain, NoCall, Over
    <3>2. NoCall \in Known
      BY DEF NoCall, Known, CallsMade, Roles, Over
    <3> QED
      BY <3>1, <3>2, RequestMoves
  <2>2. CASE AnswerOther(r)
    <3> DEFINE purpose == Purpose(HandlerOf(desk[r].call.path), desk[r].call)
               d == [desk[r] EXCEPT !.at = purpose]
    <3>1. desk[r].at = "admitted" /\ purpose # "change" /\ desk' = [desk EXCEPT ![r] = d]
      BY <1>3, <2>2 DEF AnswerOther
    <3>2. purpose \in Answers
      BY PurposeKnown
    <3>3. desk[r] \in Known
      BY <1>3
    <3> HIDE DEF purpose
    <3>4. d \in Known /\ d.at = purpose /\ d.by = desk[r].by /\ d.role = desk[r].role /\ d.call = desk[r].call
      BY <3>2, <3>3 DEF Known
    <3>5. AdmissionMeant(r) /\ desk[r].at \notin Over
      BY <3>1 DEF DeskInv, Over
    <3> HIDE DEF d
    <3> QED
      BY <3>1, <3>4, <3>5, RequestMoves DEF AdmissionMeant, purpose
  <2> QED
    BY <2>1, <2>2
<1> QED
  BY <1>1, <1>2, <1>4 DEF DeskInv, DeskShapes, Known

LEMMA DeskStays ==
    ASSUME DeskInv, [DeskNext]_deskVars
    PROVE  DeskInv'
<1>1. CASE DeskNext
  BY <1>1, AskStep, ChangeStep, AnswerStep DEF DeskNext
<1>2. CASE UNCHANGED deskVars
  <2>1. ChangesAreDue' /\ staff' = staff /\ changed' = changed /\ desk' = desk
    BY <1>2, HistoryStands DEF deskVars, DeskInv
  <2> QED
    BY <2>1 DEF DeskInv, DeskShapes, AdmissionMeant
<1> QED
  BY <1>1, <1>2

LEMMA DeskStarts ==
    ASSUME FirstRole \in [People -> Roles], DeskInit
    PROVE  DeskInv
<1>1. Len(changed) = 0 /\ changed \in Seq(ChangeType)
  BY DEF DeskInit
<1>2. \A p : RoleAfter(0, p) = FirstRole[p] /\ StatusAfter(0, p) = "active"
  BY DEF RoleAfter, StatusAfter
<1>3. ChangesAreDue
  BY <1>1, <1>2 DEF DeskInit, ChangesAreDue
<1>4. DeskShapes
  BY <1>1 DEF DeskInit, DeskShapes, NoCall, CallsMade, Roles, Over
<1>5. \A r \in Requests : AdmissionMeant(r)
  BY DEF DeskInit, AdmissionMeant, NoCall, Over
<1> QED
  BY <1>3, <1>4, <1>5 DEF DeskInv

\* What a request was for, its asker's role allowed.
LEMMA AdmissionFits == DeskInv => DeskTypeOK /\ PurposesFit
<1> SUFFICES ASSUME DeskInv PROVE DeskTypeOK /\ PurposesFit
  OBVIOUS
<1>1. DeskTypeOK
  <2>1. \A i \in 1..Len(changed) : changed[i] \in ChangeType
    BY DEF DeskInv, DeskShapes
  <2>2. \A i \in 1..Len(changed) :
          /\ {changed[i].by, changed[i].target} \subseteq People
          /\ changed[i].field \in {"role", "status"}
    BY <2>1 DEF ChangeType
  <2> QED
    BY <2>2 DEF DeskInv, DeskShapes, DeskTypeOK
<1>2. ASSUME NEW r \in Requests, desk[r].at \in {"write", "elsewhere"}
      PROVE  LET d == desk[r]
             IN  /\ d.at = "write" => d.call.method # "GET" /\ d.role \in Admins
                 /\ d.role \notin Admins => HandlerOf(d.call.path) = "blog"
                 /\ HandlerOf(d.call.path) \in {"utm", "menu"} => FirstRole[d.by] = "super_admin"
                 /\ HandlerOf(d.call.path) = "apps" /\ d.call.method # "GET" => FirstRole[d.by] = "super_admin"
  <2> DEFINE d == desk[r]
             h == HandlerOf(d.call.path)
  <2>1. /\ d.role \in Admitted(h, d.call)
        /\ d.role = "super_admin" <=> FirstRole[d.by] = "super_admin"
        /\ d.at = Purpose(h, d.call)
    BY <1>2 DEF DeskInv, AdmissionMeant, Over
  <2> HIDE DEF d, h
  <2>2. d.at = "write" => h = "view" /\ ViewWrites(d.call)
    BY <2>1, PurposeKnown
  <2>3. d.at = "write" => d.call.method # "GET" /\ d.role \in Admins
    BY <2>1, <2>2 DEF ViewWrites, Admitted
  <2>4. /\ d.role \notin Admins => h = "blog"
        /\ h \in {"utm", "menu"} => d.role = "super_admin"
        /\ h = "apps" /\ d.call.method # "GET" => d.role = "super_admin"
    BY <2>1 DEF Admitted, Admins
  <2> QED
    BY <2>1, <2>3, <2>4 DEF d, h
<1> QED
  BY <1>1, <1>2 DEF PurposesFit

\* Whichever requests the administrators make, however many are under way and
\* in whatever order they are admitted and served: accounts change only as their
\* last audit tells, by those who may, and a route's purpose fits whoever was let
\* in (data/admin_users.go, transport/admin*).
THEOREM DeskStaysSafe ==
    ASSUME FirstRole \in [People -> Roles]
    PROVE  DeskSpec => []DeskSafe
<1>1. DeskInit => DeskInv
  BY DeskStarts
<1>2. DeskInv /\ [DeskNext]_deskVars => DeskInv'
  BY DeskStays
<1>3. DeskInv => DeskSafe
  BY AdmissionFits DEF DeskInv, DeskSafe
<1> QED
  BY <1>1, <1>2, <1>3, PTL DEF DeskSpec

\* Accounts, the audit and the requests under way keep their shape.
THEOREM DeskTyped ==
    ASSUME FirstRole \in [People -> Roles]
    PROVE  DeskSpec => []DeskTypeOK
<1>1. DeskInit => DeskInv
  BY DeskStarts
<1>2. DeskInv /\ [DeskNext]_deskVars => DeskInv'
  BY DeskStays
<1>3. DeskInv => DeskTypeOK
  BY AdmissionFits
<1> QED
  BY <1>1, <1>2, <1>3, PTL DEF DeskSpec
-----------------------------------------------------------------------------
(* The catalogs.                                                            *)

CreationPlan ==
    [at : {"ready", "template", "refused", "created", "first", "second", "unmappable", "stranded"},
     selector : Selectors, mode : Modes, template : Templates \cup {NoTemplate},
     version : TemplateVersions \cup {0}, given : SUBSET Inputs,
     steps : Seq(Compilation), mapping : Versions \cup {NoManifest}]

\* A template that was loaded has its version; no plan has more steps than its
\* mode asks for.
PlanMeant(plan) ==
    /\ Len(plan.steps) <= Len(Plans[plan.mode])
    /\ plan.at = "template" => plan.template \in Templates /\ plan.version \in TemplateVersions

\* Every document is of the manifest that wrote it, which proposed it.
Written ==
    /\ \A v \in Versions : catalogs[v] # Absent => catalogs[v].manifest \in Manifests
    /\ \A u \in Tuples : recipes[u] # Absent =>
          recipes[u].manifest \in Manifests /\ u \in Proposed(recipes[u].manifest)

\* What is frozen names a published catalog, which accepts its first step.
FrozenMeant(plan) ==
    plan.at = "created" /\ plan.selector = "b2b" =>
        /\ plan.mapping \in Versions
        /\ catalogs[plan.mapping].status = "published"
        /\ ValidateProduct(catalogs[plan.mapping].manifest, plan.steps[1], Plans[plan.mode][1])

CatalogShapes ==
    /\ catalogs \in [Versions -> Document] /\ recipes \in [Tuples -> Document]
    /\ enabled \in [Templates -> SUBSET TemplateVersions]
    /\ creating \in [Creating -> CreationPlan]

CatalogInv ==
    /\ CatalogShapes /\ Written
    /\ \A c \in Creating : PlanMeant(creating[c]) /\ FrozenMeant(creating[c])
    /\ CatalogSafe
-----------------------------------------------------------------------------
\* Every mode has one step or two.
LEMMA PlanLengths ==
    \A mode \in Modes : Plans[mode] \in Seq(Atoms) /\ Len(Plans[mode]) \in 1..2
<1> SUFFICES ASSUME NEW mode \in Modes
             PROVE  Plans[mode] \in Seq(Atoms) /\ Len(Plans[mode]) \in 1..2
  OBVIOUS
<1>1. mode \in {"freeform", "image_edit", "text_to_video", "image_to_video"}
  BY DEF Modes, Plans
<1>2. \/ Plans[mode] = <<"text_to_image">> \/ Plans[mode] = <<"image_edit">>
      \/ Plans[mode] = <<"text_to_image", "image_to_video">> \/ Plans[mode] = <<"image_to_video">>
  BY <1>1 DEF Plans
<1>3. \A a, b \in Atoms : /\ <<a>> \in Seq(Atoms) /\ Len(<<a>>) = 1
                          /\ <<a, b>> \in Seq(Atoms) /\ Len(<<a, b>>) = 2
  OBVIOUS
<1>4. "text_to_image" \in Atoms /\ "image_edit" \in Atoms /\ "image_to_video" \in Atoms
  BY DEF Atoms
<1> HIDE DEF Atoms
<1>5. CASE \E a \in Atoms : Plans[mode] = <<a>>
  BY <1>3, <1>5
<1>6. CASE \E a, b \in Atoms : Plans[mode] = <<a, b>>
  BY <1>3, <1>6
<1> QED
  BY <1>2, <1>4, <1>5, <1>6

\* Of finitely many published catalogs one is the latest.
LEMMA LatestPublished ==
    ASSUME CatalogAssumption, CatalogShapes, Written, Published # {}
    PROVE  Latest \in Published
<1> DEFINE time(v) == TimeOf[catalogs[v].manifest]
           Before(v, w) == time(v) < time(w) \/ (time(v) = time(w) /\ v <= w)
<1>1. \A v \in Published : v \in Nat /\ time(v) \in Nat
  BY DEF CatalogAssumption, CatalogShapes, Written, Published, Absent
<1>2. IsFiniteSet(Published)
  BY FS_Subset DEF CatalogAssumption, Published
<1> HIDE DEF time
<1> DEFINE Headless == {S \in SUBSET Published : S # {} /\ \A v \in S : \E w \in S : ~Before(w, v)}
           sizes == {Cardinality(S) : S \in Headless}
<1>3. Headless = {}
  <2> SUFFICES ASSUME Headless # {} PROVE FALSE
    OBVIOUS
  <2>1. sizes \subseteq Nat /\ sizes # {}
    <3>1. \A S \in Headless : IsFiniteSet(S)
      BY <1>2, FS_Subset
    <3> QED
      BY <3>1, FS_CardinalityType
  <2>2. PICK n \in sizes : \A m \in sizes : n <= m
    <3> HIDE DEF sizes
    <3> QED
      BY <2>1, Least
  <2>3. PICK S \in Headless : Cardinality(S) = n
    OBVIOUS
  <2>4. IsFiniteSet(S) /\ S # {} /\ S \subseteq Published
    BY <1>2, FS_Subset
  <2>5. PICK x \in S : TRUE
    BY <2>4
  <2> DEFINE rest == S \ {x}
  <2>6. Cardinality(rest) = n - 1 /\ n \in Nat
    BY <2>1, <2>3, <2>4, FS_RemoveElement
  <2>7. rest \notin Headless
    <3>1. Cardinality(rest) \notin sizes
      <4> HIDE DEF sizes
      <4> QED
        BY <2>1, <2>2, <2>6
    <3> QED
      BY <3>1
  <2>8. CASE rest = {}
    <3>1. S = {x}
      BY <2>8
    <3>2. Before(x, x)
      BY <1>1, <2>4
    <3> QED
      BY <3>1, <3>2
  <2>9. CASE rest # {}
    <3>1. PICK y \in rest : \A w \in rest : Before(w, y)
      BY <2>4, <2>7, <2>9
    <3>2. /\ x \in Published /\ y \in Published /\ x \in S /\ y \in S
          /\ \A w \in S : w = x \/ w \in rest
      BY <2>4
    <3>3. CASE Before(x, y)
      BY <3>1, <3>2, <3>3
    <3>4. CASE Before(y, x)
      <4>1. \A w \in rest : Before(w, x)
        BY <1>1, <2>4, <3>1, <3>2, <3>4
      <4>2. Before(x, x)
        BY <1>1, <3>2
      <4> QED
        BY <3>2, <4>1, <4>2
    <3>5. Before(x, y) \/ Before(y, x)
      <4>1. x \in Nat /\ y \in Nat /\ time(x) \in Nat /\ time(y) \in Nat
        BY <1>1, <3>2
      <4>2. CASE time(x) < time(y)
        BY <4>2
      <4>3. CASE time(y) < time(x)
        BY <4>3
      <4>4. CASE time(x) = time(y)
        <5>1. x <= y \/ y <= x
          BY <4>1
        <5> QED
          BY <4>4, <5>1
      <4>5. time(x) < time(y) \/ time(y) < time(x) \/ time(x) = time(y)
        <5>1. \A i, j \in Nat : i < j \/ j < i \/ i = j
          OBVIOUS
        <5> QED
          BY <4>1, <5>1
      <4> QED
        BY <4>2, <4>3, <4>4, <4>5
    <3> QED
      BY <3>3, <3>4, <3>5
  <2> QED
    BY <2>8, <2>9
<1>4. PICK v \in Published : \A w \in Published : Before(w, v)
  BY <1>3
<1> QED
  BY <1>4 DEF Latest, time

\* What every step keeps of the requests when it leaves the plans alone and
\* takes back no publication.
LEMMA PlansKept ==
    ASSUME CatalogInv, creating' = creating,
           \A v \in Versions : catalogs[v].status = "published" => catalogs'[v] = catalogs[v]
    PROVE  /\ \A c \in Creating : PlanMeant(creating[c])' /\ FrozenMeant(creating[c])'
           /\ FrozenMappable'
<1>1. ASSUME NEW c \in Creating PROVE PlanMeant(creating[c])' /\ FrozenMeant(creating[c])'
  <2>1. PlanMeant(creating[c]) /\ FrozenMeant(creating[c])
    BY DEF CatalogInv
  <2>2. PlanMeant(creating[c])'
    BY <2>1 DEF PlanMeant
  <2>3. FrozenMeant(creating[c])'
    BY <2>1 DEF FrozenMeant
  <2> QED
    BY <2>2, <2>3
<1> QED
  BY <1>1 DEF CatalogInv, CatalogSafe, FrozenMappable

\* An import as a draft writes only what is absent or its own draft.
LEMMA DraftImported ==
    ASSUME CatalogAssumption, CatalogInv, NEW m \in Manifests, ImportDraft(m)
    PROVE  CatalogInv'
<1> DEFINE v == VersionOf[m]
<1>1. /\ v \in Versions /\ catalogs[v] \in {Absent, Draft(m)}
      /\ catalogs' = [catalogs EXCEPT ![v] = Draft(m)]
      /\ recipes' = [u \in Tuples |-> IF u \in Proposed(m) THEN Draft(m) ELSE recipes[u]]
      /\ \A u \in Proposed(m) : u \in Tuples /\ recipes[u] \in {Absent, Draft(m)}
      /\ enabled' = enabled /\ creating' = creating
  BY DEF ImportDraft, Replaceable, CatalogAssumption, Proposed
<1>2. /\ Draft(m) \in Document /\ Draft(m).status = "draft" /\ Draft(m).manifest = m
      /\ Absent.status = "none" /\ Absent.manifest \notin Manifests
  BY DEF Draft, Document, Statuses, Absent, CatalogAssumption
<1>3. catalogs \in [Versions -> Document] /\ recipes \in [Tuples -> Document] /\ Written /\ CatalogShapes
  BY DEF CatalogInv, CatalogShapes
<1>4. CatalogShapes'
  BY <1>1, <1>2, <1>3 DEF CatalogShapes
<1>5. Written'
  <2>1. ASSUME NEW w \in Versions, catalogs'[w] # Absent' PROVE catalogs'[w].manifest \in Manifests
    BY <1>1, <1>2, <1>3, <2>1 DEF Written, Absent
  <2>2. ASSUME NEW u \in Tuples, recipes'[u] # Absent'
        PROVE  recipes'[u].manifest \in Manifests /\ u \in Proposed(recipes'[u].manifest)
    BY <1>1, <1>2, <1>3, <2>2 DEF Written, Absent
  <2> QED
    BY <2>1, <2>2 DEF Written, Proposed
<1>6. \A w \in Versions : catalogs[w].status = "published" => catalogs'[w] = catalogs[w]
  BY <1>1, <1>2, <1>3
<1>7. PublishedWhole'
  <2> SUFFICES ASSUME NEW n \in Manifests
               PROVE  LET whole == [status |-> "published", manifest |-> n]
                      IN  /\ catalogs'[VersionOf[n]] = whole =>
                                StoredBy(n)' = Proposed(n) /\ \A u \in Proposed(n) : recipes'[u] = whole
                          /\ (\E u \in Tuples : recipes'[u] = whole) => catalogs'[VersionOf[n]] = whole
    BY DEF PublishedWhole, Proposed
  <2> DEFINE whole == [status |-> "published", manifest |-> n]
  <2>1. /\ catalogs[VersionOf[n]] = whole =>
              StoredBy(n) = Proposed(n) /\ \A u \in Proposed(n) : recipes[u] = whole
        /\ (\E u \in Tuples : recipes[u] = whole) => catalogs[VersionOf[n]] = whole
        /\ VersionOf[n] \in Versions /\ Proposed(n) \subseteq Tuples
    BY DEF CatalogInv, CatalogSafe, PublishedWhole, CatalogAssumption, Proposed
  <2>2. whole.status = "published" /\ whole.manifest = n /\ Draft(m) # whole /\ Absent # whole
    BY <1>2
  <2>3. ASSUME catalogs'[VersionOf[n]] = whole
        PROVE  StoredBy(n)' = Proposed(n) /\ \A u \in Proposed(n) : recipes'[u] = whole
    <3>1. VersionOf[n] # v /\ catalogs[VersionOf[n]] = whole
      BY <1>1, <1>3, <2>1, <2>2, <2>3
    <3>2. n # m
      BY <3>1
    <3>3. \A u \in Proposed(n) : u \notin Proposed(m) /\ recipes[u] = whole
      BY <1>1, <2>1, <2>2, <3>1
    <3>4. \A u \in Tuples : recipes'[u].manifest = n <=> recipes[u].manifest = n
      BY <1>1, <1>2, <3>2
    <3>5. StoredBy(n)' = StoredBy(n)
      BY <3>4 DEF StoredBy
    <3>6. \A u \in Proposed(n) : recipes'[u] = whole
      BY <1>1, <2>1, <3>3
    <3> QED
      BY <2>1, <3>1, <3>5, <3>6
  <2>4. ASSUME NEW u \in Tuples, recipes'[u] = whole PROVE catalogs'[VersionOf[n]] = whole
    <3>1. recipes[u] = whole
      BY <1>1, <2>2, <2>4
    <3>2. catalogs[VersionOf[n]] = whole
      BY <2>1, <3>1
    <3> QED
      BY <1>1, <1>3, <1>6, <2>1, <2>2, <3>2
  <2> HIDE DEF whole
  <2> QED
    BY <2>3, <2>4 DEF whole
<1> QED
  BY <1>1, <1>4, <1>5, <1>6, <1>7, PlansKept DEF CatalogInv, CatalogSafe

\* A publication takes its catalog and every recipe of it at once.
LEMMA Publication ==
    ASSUME CatalogAssumption, CatalogInv, NEW m \in Manifests, Publish(m)
    PROVE  CatalogInv'
<1> DEFINE v == VersionOf[m]
           mine == [status |-> "published", manifest |-> m]
<1>1. /\ v \in Versions /\ catalogs[v] = Draft(m)
      /\ catalogs' = [catalogs EXCEPT ![v].status = "published"]
      /\ recipes' = [u \in Tuples |-> IF u \in Proposed(m) THEN [recipes[u] EXCEPT !.status = "published"]
                                      ELSE recipes[u]]
      /\ \A u \in Proposed(m) : u \in Tuples /\ recipes[u].manifest = m
      /\ enabled' = enabled /\ creating' = creating
  BY DEF Publish, Publishable, CatalogAssumption, Proposed
<1>2. /\ Draft(m) \in Document /\ Draft(m).status = "draft" /\ Draft(m).manifest = m
      /\ [Draft(m) EXCEPT !.status = "published"] = mine
      /\ mine \in Document /\ mine.status = "published" /\ mine.manifest = m
      /\ Absent.status = "none" /\ Absent.manifest \notin Manifests
  BY DEF Draft, Document, Statuses, Absent, CatalogAssumption
<1>3. catalogs \in [Versions -> Document] /\ recipes \in [Tuples -> Document] /\ Written /\ CatalogShapes
  BY DEF CatalogInv, CatalogShapes
<1>4. /\ catalogs' = [catalogs EXCEPT ![v] = mine]
      /\ recipes' = [u \in Tuples |-> IF u \in Proposed(m) THEN mine ELSE recipes[u]]
  <2>1. catalogs' = [catalogs EXCEPT ![v] = mine]
    BY <1>1, <1>2, <1>3
  <2>2. ASSUME NEW u \in Proposed(m) PROVE [recipes[u] EXCEPT !.status = "published"] = mine
    BY <1>1, <1>3, <2>2 DEF Document
  <2> QED
    BY <1>1, <2>1, <2>2
<1> HIDE DEF mine
<1>5. CatalogShapes'
  BY <1>1, <1>2, <1>3, <1>4 DEF CatalogShapes
<1>6. Written'
  <2>1. ASSUME NEW w \in Versions, catalogs'[w] # Absent' PROVE catalogs'[w].manifest \in Manifests
    BY <1>1, <1>2, <1>3, <1>4, <2>1 DEF Written, Absent
  <2>2. ASSUME NEW u \in Tuples, recipes'[u] # Absent'
        PROVE  recipes'[u].manifest \in Manifests /\ u \in Proposed(recipes'[u].manifest)
    BY <1>1, <1>2, <1>3, <1>4, <2>2 DEF Written, Absent
  <2> QED
    BY <2>1, <2>2 DEF Written, Proposed
<1>7. \A w \in Versions : catalogs[w].status = "published" => catalogs'[w] = catalogs[w]
  BY <1>1, <1>2, <1>3, <1>4
<1>8. PublishedWhole'
  <2> SUFFICES ASSUME NEW n \in Manifests
               PROVE  LET whole == [status |-> "published", manifest |-> n]
                      IN  /\ catalogs'[VersionOf[n]] = whole =>
                                StoredBy(n)' = Proposed(n) /\ \A u \in Proposed(n) : recipes'[u] = whole
                          /\ (\E u \in Tuples : recipes'[u] = whole) => catalogs'[VersionOf[n]] = whole
    BY DEF PublishedWhole, Proposed
  <2> DEFINE whole == [status |-> "published", manifest |-> n]
  <2>1. /\ catalogs[VersionOf[n]] = whole =>
              StoredBy(n) = Proposed(n) /\ \A u \in Proposed(n) : recipes[u] = whole
        /\ (\E u \in Tuples : recipes[u] = whole) => catalogs[VersionOf[n]] = whole
        /\ VersionOf[n] \in Versions /\ Proposed(n) \subseteq Tuples
    BY DEF CatalogInv, CatalogSafe, PublishedWhole, CatalogAssumption, Proposed
  <2>2. whole.status = "published" /\ whole.manifest = n
    OBVIOUS
  <2>3. CASE n = m
    <3>1. whole = mine
      BY <2>3 DEF mine
    <3>2. catalogs'[VersionOf[n]] = whole /\ \A u \in Proposed(n) : recipes'[u] = whole
      BY <1>1, <1>3, <1>4, <2>1, <2>3, <3>1
    <3>3. \A u \in Tuples : recipes'[u].manifest = n <=> u \in Proposed(n)
      BY <1>2, <1>3, <1>4, <2>3 DEF Written
    <3>4. StoredBy(n)' = Proposed(n)
      BY <2>1, <3>3 DEF StoredBy
    <3> QED
      BY <3>2, <3>4
  <2>4. CASE n # m
    <3>1. mine # whole
      BY <1>2, <2>2, <2>4
    <3>2. \A u \in Tuples : recipes'[u].manifest = n <=> recipes[u].manifest = n
      BY <1>1, <1>2, <1>4, <2>4
    <3>3. StoredBy(n)' = StoredBy(n)
      BY <3>2 DEF StoredBy
    <3>4. \A u \in Tuples : recipes[u] = whole <=> recipes'[u] = whole
      BY <1>1, <1>2, <1>4, <2>2, <2>4, <3>1
    <3>5. catalogs[VersionOf[n]] = whole <=> catalogs'[VersionOf[n]] = whole
      BY <1>1, <1>2, <1>3, <1>4, <2>1, <2>2, <2>4, <3>1
    <3> HIDE DEF whole
    <3>6. \A u \in Proposed(n) : recipes[u] = whole <=> recipes'[u] = whole
      BY <2>1, <3>4
    <3> QED
      BY <2>1, <3>3, <3>4, <3>5, <3>6 DEF whole
  <2> QED
    BY <2>3, <2>4
<1> QED
  BY <1>1, <1>5, <1>6, <1>7, <1>8, PlansKept DEF CatalogInv, CatalogSafe

\* A request that moves on with a plan that means what it should.
LEMMA Moved ==
    ASSUME CatalogInv, NEW c \in Creating, NEW plan, NewRequest(c, plan), Stored,
           plan \in CreationPlan, PlanMeant(plan), FrozenMeant(plan), plan.at # "unmappable"
    PROVE  CatalogInv'
<1>1. /\ creating' = [creating EXCEPT ![c] = plan]
      /\ catalogs' = catalogs /\ recipes' = recipes /\ enabled' = enabled
  BY DEF NewRequest, Stored
<1>2. CatalogShapes'
  BY <1>1 DEF CatalogInv, CatalogShapes
<1>3. Written' /\ PublishedWhole'
  BY <1>1 DEF CatalogInv, CatalogSafe, Written, PublishedWhole, StoredBy, Proposed
<1>4. ASSUME NEW d \in Creating
      PROVE  (PlanMeant(creating[d]) /\ FrozenMeant(creating[d]))' /\ creating'[d].at # "unmappable"
  <2>1. CASE d = c
    <3>1. creating'[d] = plan
      BY <1>1, <2>1 DEF CatalogInv, CatalogShapes
    <3> QED
      BY <1>1, <3>1 DEF PlanMeant, FrozenMeant
  <2>2. CASE d # c
    <3>1. creating'[d] = creating[d]
      BY <1>1, <2>2 DEF CatalogInv, CatalogShapes
    <3> QED
      BY <1>1, <3>1 DEF CatalogInv, CatalogSafe, FrozenMappable, PlanMeant, FrozenMeant
  <2> QED
    BY <2>1, <2>2
<1> QED
  BY <1>2, <1>3, <1>4 DEF CatalogInv, CatalogSafe, FrozenMappable

\* The plan of a request that has not begun, or that was refused.
LEMMA FirstPlan ==
    /\ NoPlan \in CreationPlan /\ Len(NoPlan.steps) = 0 /\ NoPlan.at = "ready"
    /\ NoPlan.selector = "local" /\ NoPlan.mode \in Modes
<1>1. /\ "local" \in Selectors /\ "freeform" \in Modes
      /\ <<>> \in Seq(Compilation) /\ {} \in SUBSET Inputs
  BY DEF Selectors, Modes, Plans
<1> QED
  BY <1>1 DEF NoPlan, CreationPlan

LEMMA Refusal ==
    ASSUME CatalogInv, NEW c \in Creating, Refused(c), Stored
    PROVE  CatalogInv'
<1> DEFINE plan == [NoPlan EXCEPT !.at = "refused"]
<1>1. plan \in CreationPlan /\ plan.at = "refused" /\ plan.steps = NoPlan.steps /\ plan.mode = NoPlan.mode
  BY FirstPlan DEF CreationPlan
<1>2. PlanMeant(plan) /\ FrozenMeant(plan) /\ plan.at # "unmappable"
  <2>1. Len(Plans[NoPlan.mode]) \in 1..2
    BY FirstPlan, PlanLengths
  <2> QED
    BY <1>1, <2>1, FirstPlan DEF PlanMeant, FrozenMeant
<1>3. NewRequest(c, plan)
  BY DEF Refused
<1> HIDE DEF plan
<1> QED
  BY <1>1, <1>2, <1>3, Moved

\* Loading a template.
LEMMA TemplateLoaded ==
    ASSUME CatalogInv, NEW c \in Creating, NEW selector \in Selectors, NEW mode \in Modes,
           NEW t \in Templates, NEW given \in SUBSET {"prompt", "aspect"},
           LoadTemplate(c, selector, mode, t, given)
    PROVE  CatalogInv'
<1>1. Stored
  BY DEF LoadTemplate
<1>2. ASSUME NEW v \in enabled[t],
             NewRequest(c, [NoPlan EXCEPT !.at = "template", !.selector = selector,
                            !.mode = mode, !.template = t, !.version = v, !.given = given])
      PROVE  CatalogInv'
  <2> DEFINE plan == [NoPlan EXCEPT !.at = "template", !.selector = selector,
                      !.mode = mode, !.template = t, !.version = v, !.given = given]
  <2>1. v \in TemplateVersions
    BY DEF CatalogInv, CatalogShapes
  <2>2. /\ plan \in CreationPlan
        /\ plan.at = "template" /\ plan.mode = mode /\ plan.template = t /\ plan.version = v
        /\ plan.steps = NoPlan.steps
    BY <2>1, FirstPlan DEF CreationPlan, Inputs
  <2>3. PlanMeant(plan) /\ FrozenMeant(plan) /\ plan.at # "unmappable"
    <3>1. Len(Plans[mode]) \in 1..2
      BY PlanLengths
    <3> QED
      BY <2>1, <2>2, <3>1, FirstPlan DEF PlanMeant, FrozenMeant
  <2>4. NewRequest(c, plan)
    BY <1>2
  <2> HIDE DEF plan
  <2> QED
    BY <1>1, <2>2, <2>3, <2>4, Moved
<1> QED
  BY <1>1, <1>2, Refusal DEF LoadTemplate

\* Compiling the next step.
LEMMA RecipeLoaded ==
    ASSUME CatalogAssumption, CatalogInv, NEW c \in Creating, LoadRecipe(c)
    PROVE  CatalogInv'
<1> DEFINE plan == creating[c]
           atom == Plans[plan.mode][Len(plan.steps) + 1]
           u == <<plan.template, plan.version, atom>>
           recipe == RecipesOf[recipes[u].manifest][u]
           product == Compiled(recipe, Overrides(c, atom), NeedsImage(plan.mode))
           next == [plan EXCEPT !.steps = Append(@, product)]
<1>1. /\ plan \in CreationPlan /\ plan.at = "template" /\ plan.selector = "b2b"
      /\ plan.template \in Templates /\ plan.version \in TemplateVersions
      /\ Len(plan.steps) < Len(Plans[plan.mode])
  BY DEF CatalogInv, CatalogShapes, PlanMeant, LoadRecipe
<1>2. Stored /\ (Refused(c) \/ (recipes[u].status = "published" /\ NewRequest(c, next)))
  BY DEF LoadRecipe
<1>3. ASSUME recipes[u].status = "published", NewRequest(c, next) PROVE CatalogInv'
  <2>1. /\ plan.mode \in Modes /\ plan.steps \in Seq(Compilation) /\ plan.given \in SUBSET Inputs
        /\ Plans[plan.mode] \in Seq(Atoms) /\ Len(Plans[plan.mode]) \in Nat
    <3>1. plan.mode \in Modes /\ plan.steps \in Seq(Compilation) /\ plan.given \in SUBSET Inputs
      BY <1>1 DEF CreationPlan
    <3>2. Len(Plans[plan.mode]) \in 1..2 => Len(Plans[plan.mode]) \in Nat
      OBVIOUS
    <3> QED
      BY <3>1, <3>2, PlanLengths
  <2>2. atom \in Atoms
    <3> DEFINE atoms == Plans[plan.mode]
    <3>1. Len(plan.steps) + 1 \in 1..Len(atoms)
      BY <1>1, <2>1
    <3> HIDE DEF atoms
    <3> QED
      BY <2>1, <3>1, ElementOfSeq DEF atoms
  <2>3. u \in Tuples
    BY <1>1, <2>2 DEF Tuples
  <2> HIDE DEF atom
  <2>4. recipe \in RecipeDocument
    <3>1. recipes[u] # Absent
      BY <1>3 DEF Absent
    <3>2. recipes[u].manifest \in Manifests /\ u \in DOMAIN RecipesOf[recipes[u].manifest]
      BY <2>3, <3>1 DEF CatalogInv, Written, Proposed
    <3> HIDE DEF u
    <3> QED
      BY <3>2 DEF CatalogAssumption
  <2>5. Overrides(c, atom) \subseteq Inputs
    BY <2>1 DEF Overrides, TextToVideoOverrides, ImageToVideoOverrides, Inputs
  <2>6. NeedsImage(plan.mode) \in BOOLEAN
    BY DEF NeedsImage
  <2>7. product \in Compilation
    <3> HIDE DEF recipe, plan
    <3> QED
      BY <2>4, <2>5, <2>6 DEF Compiled, Compilation, RecipeDocument
  <2> HIDE DEF product
  <2>8. Append(plan.steps, product) \in Seq(Compilation) /\ Len(Append(plan.steps, product)) = Len(plan.steps) + 1
    BY <2>1, <2>7
  <2>9. /\ next \in CreationPlan /\ next.at = "template" /\ next.mode = plan.mode
        /\ next.template = plan.template /\ next.version = plan.version
        /\ Len(next.steps) = Len(plan.steps) + 1
    BY <1>1, <2>8 DEF CreationPlan
  <2>10. PlanMeant(next) /\ FrozenMeant(next) /\ next.at # "unmappable"
    <3>1. Len(next.steps) <= Len(Plans[next.mode])
      BY <1>1, <2>1, <2>9
    <3> HIDE DEF next, plan
    <3> QED
      BY <1>1, <2>9, <3>1 DEF PlanMeant, FrozenMeant
  <2> HIDE DEF next
  <2> QED
    BY <1>2, <1>3, <2>9, <2>10, Moved
<1> QED
  BY <1>2, <1>3, Refusal

\* Freezing the plan against the latest catalog.
LEMMA PlanFrozen ==
    ASSUME CatalogAssumption, CatalogInv, NEW c \in Creating, CreateB2B(c)
    PROVE  CatalogInv'
<1> DEFINE plan == creating[c]
           next == [plan EXCEPT !.at = "created", !.mapping = Latest]
<1>1. /\ plan \in CreationPlan /\ plan.at = "template" /\ PlanMeant(plan)
      /\ Len(plan.steps) = Len(Plans[plan.mode]) /\ plan.selector = "b2b" /\ Stored
  BY DEF CatalogInv, CatalogShapes, CreateB2B
<1>2. ASSUME Published # {}, Admissible(plan, Latest), NewRequest(c, next) PROVE CatalogInv'
  <2>1. Latest \in Versions /\ catalogs[Latest].status = "published"
    BY <1>2, LatestPublished DEF CatalogInv, Published
  <2>2. ValidateProduct(catalogs[Latest].manifest, plan.steps[1], Plans[plan.mode][1])
    <3>1. plan.mode \in Modes /\ plan.steps \in Seq(Compilation)
      BY <1>1 DEF CreationPlan
    <3>2. 1 \in DOMAIN plan.steps
      BY <1>1, <3>1, PlanLengths
    <3> QED
      BY <1>2, <3>2 DEF Admissible
  <2>3. /\ next \in CreationPlan /\ next.at = "created" /\ next.mapping = Latest
        /\ next.steps = plan.steps /\ next.mode = plan.mode
    BY <1>1, <2>1 DEF CreationPlan
  <2>4. PlanMeant(next) /\ FrozenMeant(next) /\ next.at # "unmappable"
    <3> HIDE DEF next, plan
    <3> QED
      BY <1>1, <2>1, <2>2, <2>3 DEF PlanMeant, FrozenMeant
  <2> HIDE DEF next
  <2> QED
    BY <1>1, <1>2, <2>3, <2>4, Moved
<1> QED
  BY <1>1, <1>2, Refusal DEF CreateB2B

\* What was frozen is mapped, or stranded; the rest of the plan stays.
LEMMA PlanAdvanced ==
    ASSUME CatalogInv, NEW c \in Creating,
           NEW at \in {"created", "first", "second", "stranded"}, NEW kept \in {creating[c].steps, <<>>},
           at = "created" => creating[c].selector # "b2b",
           NewRequest(c, [creating[c] EXCEPT !.at = at, !.steps = kept]), Stored
    PROVE  CatalogInv'
<1> DEFINE plan == creating[c]
           next == [plan EXCEPT !.at = at, !.steps = kept]
<1>1. plan \in CreationPlan /\ PlanMeant(plan)
  BY DEF CatalogInv, CatalogShapes
<1>2. plan.mode \in Modes /\ kept \in Seq(Compilation) /\ Len(kept) <= Len(Plans[plan.mode])
  <2>1. plan.mode \in Modes /\ plan.steps \in Seq(Compilation) /\ Len(plan.steps) <= Len(Plans[plan.mode])
    BY <1>1 DEF CreationPlan, PlanMeant
  <2>2. <<>> \in Seq(Compilation) /\ Len(<<>>) = 0
    OBVIOUS
  <2>3. Len(<<>>) <= Len(Plans[plan.mode])
    BY <2>1, <2>2, PlanLengths
  <2> HIDE DEF plan
  <2>4. CASE kept = <<>>
    BY <2>1, <2>2, <2>3, <2>4
  <2>5. CASE kept = plan.steps
    BY <2>1, <2>5
  <2> QED
    BY <2>4, <2>5 DEF plan
<1>3. /\ next \in CreationPlan /\ next.at = at /\ next.steps = kept
      /\ next.mode = plan.mode /\ next.selector = plan.selector
  BY <1>1, <1>2 DEF CreationPlan
<1>4. PlanMeant(next) /\ FrozenMeant(next) /\ next.at # "unmappable"
  <2>1. at # "template" /\ at # "unmappable"
    OBVIOUS
  <2> HIDE DEF next
  <2> QED
    BY <1>2, <1>3, <2>1 DEF PlanMeant, FrozenMeant
<1>5. NewRequest(c, next)
  OBVIOUS
<1> HIDE DEF next
<1> QED
  BY <1>3, <1>4, <1>5, Moved

LEMMA FrozenIsMappable ==
    ASSUME CatalogInv, NEW c \in Creating, SubmitFirst(c)
    PROVE  CatalogInv'
<1>1. /\ creating[c].at = "created" /\ creating[c].selector = "b2b" /\ Stored
      /\ FrozenMeant(creating[c]) /\ creating[c] \in CreationPlan
  BY DEF SubmitFirst, CatalogInv, CatalogShapes
<1>2. Mappable(creating[c], creating[c].steps[1])
  BY <1>1 DEF FrozenMeant, Mappable, ValidateProduct
<1>3. NewRequest(c, [creating[c] EXCEPT !.at = "first", !.steps = creating[c].steps])
  <2>1. NewRequest(c, [creating[c] EXCEPT !.at = "first"])
    BY <1>2 DEF SubmitFirst
  <2>2. [creating[c] EXCEPT !.at = "first"] = [creating[c] EXCEPT !.at = "first", !.steps = creating[c].steps]
    BY <1>1 DEF CreationPlan
  <2> QED
    BY <2>1, <2>2
<1> QED
  BY <1>1, <1>3, PlanAdvanced

LEMMA SecondActivated ==
    ASSUME CatalogInv, NEW c \in Creating, ActivateSecond(c)
    PROVE  CatalogInv'
<1>1. creating[c] \in CreationPlan /\ Stored
  BY DEF ActivateSecond, CatalogInv, CatalogShapes
<1>2. PICK at \in {"second", "stranded"} : NewRequest(c, [creating[c] EXCEPT !.at = at])
  BY DEF ActivateSecond
<1>3. [creating[c] EXCEPT !.at = at] = [creating[c] EXCEPT !.at = at, !.steps = creating[c].steps]
  BY <1>1 DEF CreationPlan
<1> QED
  BY <1>1, <1>2, <1>3, PlanAdvanced
-----------------------------------------------------------------------------
LEMMA CatalogBegins == ASSUME CatalogAssumption, CatalogInit PROVE CatalogInv
<1>1. /\ catalogs = [v \in Versions |-> Absent] /\ recipes = [u \in Tuples |-> Absent]
      /\ enabled = [t \in Templates |-> {}] /\ creating = [c \in Creating |-> NoPlan]
  BY DEF CatalogInit
<1>2. Absent \in Document /\ Absent.status = "none" /\ Absent.manifest = NoManifest
  BY DEF Absent, Document, Statuses
<1>3. CatalogShapes
  BY <1>1, <1>2, FirstPlan DEF CatalogShapes
<1>4. Written
  BY <1>1 DEF Written
<1>5. \A c \in Creating : PlanMeant(creating[c]) /\ FrozenMeant(creating[c]) /\ creating[c].at = "ready"
  <2>1. Len(Plans[NoPlan.mode]) \in 1..2
    BY FirstPlan, PlanLengths
  <2> QED
    BY <1>1, <2>1, FirstPlan DEF PlanMeant, FrozenMeant
<1>6. PublishedWhole
  BY <1>1, <1>2 DEF PublishedWhole, CatalogAssumption
<1> QED
  BY <1>3, <1>4, <1>5, <1>6 DEF CatalogInv, CatalogSafe, FrozenMappable

LEMMA CatalogSteps == ASSUME CatalogAssumption, CatalogInv, [CatalogNext]_catalogVars PROVE CatalogInv'
<1>1. CASE UNCHANGED catalogVars
  <2>1. catalogs' = catalogs /\ recipes' = recipes /\ enabled' = enabled /\ creating' = creating
    BY <1>1 DEF catalogVars
  <2>2. CatalogShapes' /\ Written' /\ PublishedWhole'
    BY <2>1 DEF CatalogInv, CatalogSafe, CatalogShapes, Written, PublishedWhole, StoredBy, Proposed
  <2> QED
    BY <2>1, <2>2, PlansKept DEF CatalogInv, CatalogSafe
<1>2. ASSUME NEW t \in Templates, NEW v \in TemplateVersions, EnableVersion(t, v) PROVE CatalogInv'
  <2>1. /\ catalogs' = catalogs /\ recipes' = recipes /\ creating' = creating
        /\ enabled' \in [Templates -> SUBSET TemplateVersions]
    BY <1>2 DEF EnableVersion, CatalogInv, CatalogShapes
  <2>2. CatalogShapes' /\ Written' /\ PublishedWhole'
    BY <2>1 DEF CatalogInv, CatalogSafe, CatalogShapes, Written, PublishedWhole, StoredBy, Proposed
  <2> QED
    BY <2>1, <2>2, PlansKept DEF CatalogInv, CatalogSafe
<1>3. ASSUME NEW c \in Creating, NEW selector \in Selectors, NEW t \in Templates,
             NEW given \in SUBSET {"prompt", "aspect"}, NEW mode \in Modes \cup {"freeform", "image_edit"},
             LoadTemplate(c, selector, mode, t, given)
      PROVE  CatalogInv'
  <2>1. mode \in Modes
    BY DEF Modes, Plans
  <2> QED
    BY <1>3, <2>1, TemplateLoaded
<1>4. ASSUME NEW c \in Creating, CreateLocal(c) PROVE CatalogInv'
  <2>1. creating[c].selector = "local" /\ Stored
    BY <1>4 DEF CreateLocal
  <2>2. Refused(c) \/ NewRequest(c, [creating[c] EXCEPT !.at = "created", !.steps = <<>>])
    BY <1>4 DEF CreateLocal
  <2> QED
    BY <2>1, <2>2, Refusal, PlanAdvanced
<1> QED
  BY <1>1, <1>2, <1>3, <1>4, DraftImported, Publication, RecipeLoaded, PlanFrozen, FrozenIsMappable, SecondActivated
     DEF CatalogNext, LoadFreeform, LoadImageEdit, LoadTemplateVideo

LEMMA CatalogInvariant == CatalogSpec => []CatalogInv
<1>1. CatalogInit => CatalogInv
  BY CatalogAssumption, CatalogBegins
<1>2. CatalogInv /\ [CatalogNext]_catalogVars => CatalogInv'
  BY CatalogAssumption, CatalogSteps
<1> QED
  BY <1>1, <1>2, PTL DEF CatalogSpec

THEOREM CatalogsStaySafe == CatalogSpec => []CatalogSafe
<1>1. CatalogInv => CatalogSafe
  BY DEF CatalogInv
<1> QED
  BY <1>1, CatalogInvariant, PTL

THEOREM CatalogTypesHold == CatalogSpec => []CatalogTypeOK
<1>1. CatalogInv => CatalogTypeOK
  <2> SUFFICES ASSUME CatalogInv, NEW c \in Creating
               PROVE  LET plan == creating[c]
                      IN  /\ plan.at \in {"ready", "template", "refused", "created", "first", "second",
                                          "unmappable", "stranded"}
                          /\ plan.selector \in Selectors /\ plan.mode \in Modes
                          /\ plan.template \in Templates \cup {NoTemplate}
                          /\ plan.given \subseteq Inputs
                          /\ Len(plan.steps) <= Len(Plans[plan.mode])
                          /\ \A k \in DOMAIN plan.steps : plan.steps[k] \in Compilation
                          /\ plan.mapping \in Versions \cup {NoManifest}
    BY DEF CatalogTypeOK, CatalogInv, CatalogShapes
  <2>1. creating[c] \in CreationPlan /\ PlanMeant(creating[c])
    BY DEF CatalogInv, CatalogShapes
  <2>2. \A k \in DOMAIN creating[c].steps : creating[c].steps[k] \in Compilation
    BY <2>1, ElementOfSeq DEF CreationPlan
  <2> QED
    BY <2>1, <2>2 DEF CreationPlan, PlanMeant
<1> QED
  BY <1>1, CatalogInvariant, PTL
-----------------------------------------------------------------------------
(* Retention.                                                               *)

EventStatuses == {"absent"} \cup ActiveStatuses \cup Terminal
RetainedEvent == [status : EventStatuses, created : Nat, updated : Nat]
CommandPlaces == {"idle", "count", "create", "find", "delete"}
RetentionCommand ==
    [mode : {"none", "preflight", "create", "purge"}, at : CommandPlaces,
     rule : 1..3, now : Nat, expired : BOOLEAN, found : SUBSET Events]

\* The worker's endpoint, whatever it has taken of the backlog.
WorkerShape ==
    /\ DOMAIN worker = {"started", "ready", "at", "next", "now", "snapshot"}
    /\ worker.started \in BOOLEAN /\ worker.ready \in BOOLEAN

RetentionShapes ==
    /\ outbox \in [Events -> RetainedEvent]
    /\ ttl \in {{}, Terminal} /\ day \in 0..MaxDay
    /\ command \in RetentionCommand /\ command.now <= day
    /\ WorkerShape

\* A preflight that has found nothing yet: nothing that is counted can expire
\* behind it, for an event that moves is dated no earlier than today.
CountedNothing ==
    command.at = "count" /\ ~command.expired =>
        \A i \in 1..3 : i < command.rule => Expired(Policy[i], command.now) = {}

RetentionInv == RetentionShapes /\ CountedNothing /\ RetentionSafe
-----------------------------------------------------------------------------
LEMMA PolicyNames ==
    /\ Terminal = {"delivered", "failed", "needs_attention"}
    /\ Len(Policy) = 3 /\ \A i \in 1..3 : Policy[i] \in Terminal
    /\ ActiveStatuses \cap Terminal = {} /\ "absent" \notin Terminal
BY DEF Terminal, Policy, ActiveStatuses

\* Events that move on or go make none expired of those that were not, as long
\* as the command is where it was.
LEMMA NothingExpires ==
    ASSUME RetentionAssumption, RetentionInv, outbox' \in [Events -> RetainedEvent], command' = command, day' = day,
           \A e \in Events : outbox'[e] = outbox[e] \/ outbox'[e].status = "absent" \/ outbox'[e].updated >= day
    PROVE  CountedNothing' /\ CreatedOverNothing'
<1>1. command.now <= day /\ command.now \in Nat /\ day \in Nat
  BY DEF RetentionInv, RetentionShapes, RetentionCommand, RetentionAssumption
<1>2. ASSUME NEW status \in Terminal, Expired(status, command.now) = {} PROVE Expired(status, command.now)' = {}
  <2> SUFFICES ASSUME NEW e \in Events, outbox'[e].status = status,
                      outbox'[e].updated <= command.now - Period[status]
               PROVE  FALSE
    BY DEF Expired, In
  <2>1. Period[status] \in Nat \ {0} /\ outbox'[e].updated \in Nat
    BY DEF RetentionAssumption, RetainedEvent
  <2>2. outbox'[e] = outbox[e]
    BY <1>1, <2>1, PolicyNames
  <2> QED
    BY <1>2, <2>2 DEF Expired, In
<1> QED
  BY <1>2, PolicyNames DEF RetentionInv, RetentionSafe, CountedNothing, CreatedOverNothing

\* A step that leaves the events and what was removed alone.
LEMMA EventsStay ==
    ASSUME RetentionInv, outbox' = outbox, removed' = removed, command' = command
    PROVE  CountedNothing' /\ RetentionSafe'
BY DEF RetentionInv, RetentionSafe, CountedNothing, CreatedOverNothing, NothingActiveRemoved, Expired, In

\* The command moves on: whatever it has come to, it says what it should.
LEMMA CommandMoves ==
    ASSUME RetentionInv, outbox' = outbox, removed' = removed,
           command'.at \notin {"count", "create"}
           \/ (command'.at = "count" /\ command'.rule = 1)
    PROVE  CountedNothing' /\ RetentionSafe'
<1>1. NothingActiveRemoved' /\ CreatedOverNothing'
  BY DEF RetentionInv, RetentionSafe, CreatedOverNothing, NothingActiveRemoved
<1>2. CountedNothing'
  BY DEF CountedNothing
<1> QED
  BY <1>1, <1>2 DEF RetentionSafe
-----------------------------------------------------------------------------
LEMMA EventMoves ==
    ASSUME RetentionAssumption, RetentionInv, NEW e \in Events, NEW status \in EventStatuses,
           NEW updated \in {day, day + 1}, MovesOn(e, status, updated)
    PROVE  RetentionInv'
<1>1. /\ outbox \in [Events -> RetainedEvent] /\ day \in Nat
      /\ outbox' = [outbox EXCEPT ![e] = [status |-> status, created |-> outbox[e].created, updated |-> updated]]
      /\ ttl' = ttl /\ day' = day /\ command' = command /\ removed' = removed /\ worker' = worker
  BY DEF MovesOn, RetentionInv, RetentionShapes, RetentionAssumption
<1>2. outbox' \in [Events -> RetainedEvent]
  BY <1>1 DEF RetainedEvent
<1>3. RetentionShapes'
  BY <1>1, <1>2 DEF RetentionInv, RetentionShapes, WorkerShape
<1>4. CountedNothing' /\ CreatedOverNothing'
  BY <1>1, <1>2, NothingExpires
<1> QED
  BY <1>1, <1>3, <1>4 DEF RetentionInv, RetentionSafe, NothingActiveRemoved

LEMMA EventEnters ==
    ASSUME RetentionAssumption, RetentionInv, NEW e \in Events, Enqueue(e)
    PROVE  RetentionInv'
<1>1. /\ outbox \in [Events -> RetainedEvent] /\ day \in Nat
      /\ outbox' = [outbox EXCEPT ![e] = [status |-> "pending", created |-> day, updated |-> day]]
      /\ ttl' = ttl /\ day' = day /\ command' = command /\ removed' = removed /\ worker' = worker
  BY DEF Enqueue, RetentionInv, RetentionShapes, RetentionAssumption
<1>2. outbox' \in [Events -> RetainedEvent]
  BY <1>1 DEF RetainedEvent, EventStatuses, ActiveStatuses
<1>3. RetentionShapes'
  BY <1>1, <1>2 DEF RetentionInv, RetentionShapes, WorkerShape
<1>4. CountedNothing' /\ CreatedOverNothing'
  BY <1>1, <1>2, NothingExpires
<1> QED
  BY <1>1, <1>3, <1>4 DEF RetentionInv, RetentionSafe, NothingActiveRemoved

\* What a TTL index lets go, and what the purge deletes, is of a terminal status.
LEMMA EventLeaves ==
    ASSUME RetentionAssumption, RetentionInv, NEW gone \in SUBSET Events,
           \A e \in gone : outbox[e].status \in Terminal,
           outbox' = [e \in Events |-> IF e \in gone THEN NoEvent ELSE outbox[e]],
           removed' = removed \cup {outbox[e].status : e \in gone},
           day' = day, ttl' = ttl, worker' = worker
    PROVE  /\ outbox' \in [Events -> RetainedEvent]
           /\ NothingActiveRemoved'
           /\ command' = command => RetentionInv'
<1>1. NoEvent \in RetainedEvent /\ NoEvent.status = "absent"
  BY DEF NoEvent, RetainedEvent, EventStatuses
<1>2. outbox' \in [Events -> RetainedEvent]
  BY <1>1 DEF RetentionInv, RetentionShapes
<1>3. NothingActiveRemoved'
  BY DEF RetentionInv, RetentionSafe, NothingActiveRemoved
<1>4. ASSUME command' = command PROVE RetentionInv'
  <2>1. CountedNothing' /\ CreatedOverNothing'
    BY <1>1, <1>2, <1>4, NothingExpires
  <2>2. RetentionShapes'
    BY <1>2, <1>4 DEF RetentionInv, RetentionShapes, WorkerShape
  <2> QED
    BY <1>3, <2>1, <2>2 DEF RetentionInv, RetentionSafe
<1> QED
  BY <1>2, <1>3, <1>4

LEMMA IndexExpires ==
    ASSUME RetentionAssumption, RetentionInv, NEW e \in Events, ExpireByIndex(e)
    PROVE  RetentionInv'
<1>1. outbox \in [Events -> RetainedEvent] /\ outbox[e].status \in Terminal
  BY DEF ExpireByIndex, RetentionInv, RetentionShapes
<1>2. /\ outbox' = [d \in Events |-> IF d \in {e} THEN NoEvent ELSE outbox[d]]
      /\ removed' = removed \cup {outbox[d].status : d \in {e}}
      /\ day' = day /\ ttl' = ttl /\ worker' = worker /\ command' = command
  BY <1>1 DEF ExpireByIndex
<1>3. {e} \in SUBSET Events /\ \A d \in {e} : outbox[d].status \in Terminal
  BY <1>1
<1> DEFINE gone == {e}
<1>4. /\ gone \in SUBSET Events /\ \A d \in gone : outbox[d].status \in Terminal
      /\ outbox' = [d \in Events |-> IF d \in gone THEN NoEvent ELSE outbox[d]]
      /\ removed' = removed \cup {outbox[d].status : d \in gone}
  BY <1>2, <1>3
<1> HIDE DEF gone
<1> QED
  BY <1>2, <1>4, EventLeaves

\* The next rule, or the end of the run.
LEMMA RuleAdvances ==
    ASSUME RetentionInv
    PROVE  NextRule \in RetentionCommand /\ NextRule.at \in {"find", "idle"} /\ NextRule.now <= command.now
<1>1. command \in RetentionCommand /\ command.rule \in 1..3 /\ command.now \in Nat
  BY DEF RetentionInv, RetentionShapes, RetentionCommand
<1>2. NoCommand \in RetentionCommand /\ NoCommand.at = "idle" /\ NoCommand.now = 0
  BY DEF NoCommand, RetentionCommand, CommandPlaces
<1>3. CASE command.rule < 3
  <2>1. NextRule = [command EXCEPT !.rule = command.rule + 1, !.at = "find"] /\ command.rule + 1 \in 1..3
    BY <1>1, <1>3, PolicyNames DEF NextRule
  <2>2. "find" \in CommandPlaces
    BY DEF CommandPlaces
  <2>3. NextRule \in RetentionCommand /\ NextRule.now = command.now /\ NextRule.at = "find"
    <3> DEFINE r == command.rule + 1
               at == "find"
               next == [command EXCEPT !.rule = r, !.at = at]
    <3>1. r \in 1..3 /\ at \in CommandPlaces
      BY <2>1, <2>2
    <3> HIDE DEF r, at
    <3>2. next \in RetentionCommand /\ next.now = command.now /\ next.at = at
      BY <1>1, <3>1 DEF RetentionCommand
    <3>3. NextRule = next /\ at = "find"
      BY <2>1 DEF r, at
    <3> HIDE DEF next
    <3> QED
      BY <3>2, <3>3
  <2> QED
    BY <1>1, <2>3
<1>4. CASE ~(command.rule < 3)
  BY <1>1, <1>2, <1>4, PolicyNames DEF NextRule
<1> QED
  BY <1>3, <1>4

LEMMA Deletes ==
    ASSUME RetentionAssumption, RetentionInv, DeleteBatch
    PROVE  RetentionInv'
<1> DEFINE gone == Deletable(command.found, Policy[command.rule])
<1>1. command \in RetentionCommand /\ command.rule \in 1..3 /\ command.now <= day /\ command.now \in Nat /\ day \in Nat
  BY DEF RetentionInv, RetentionShapes, RetentionCommand, RetentionAssumption
<1>2. gone \in SUBSET Events /\ \A e \in gone : outbox[e].status \in Terminal
  BY <1>1, PolicyNames DEF Deletable, In
<1>3. /\ outbox' = [e \in Events |-> IF e \in gone THEN NoEvent ELSE outbox[e]]
      /\ removed' = removed \cup {outbox[e].status : e \in gone}
      /\ command' = IF gone = {} THEN NextRule ELSE [command EXCEPT !.found = {}, !.at = "find"]
      /\ day' = day /\ ttl' = ttl /\ worker' = worker
  BY DEF DeleteBatch
<1> HIDE DEF gone
<1>4. command' \in RetentionCommand /\ command'.at \in {"find", "idle"} /\ command'.now <= command.now
  <2>1. CASE gone = {}
    BY <1>3, <2>1, RuleAdvances
  <2>2. CASE gone # {}
    <3>1. command' = [command EXCEPT !.found = {}, !.at = "find"] /\ "find" \in CommandPlaces /\ {} \in SUBSET Events
      BY <1>3, <2>2 DEF CommandPlaces
    <3>2. command' \in RetentionCommand /\ command'.now = command.now /\ command'.at = "find"
      <4> DEFINE at == "find"
                 next == [command EXCEPT !.found = {}, !.at = at]
      <4>1. at \in CommandPlaces
        BY <3>1
      <4> HIDE DEF at
      <4>2. next \in RetentionCommand /\ next.now = command.now /\ next.at = at
        BY <1>1, <4>1 DEF RetentionCommand
      <4>3. command' = next /\ at = "find"
        BY <3>1 DEF at
      <4> HIDE DEF next
      <4> QED
        BY <4>2, <4>3
    <3> QED
      BY <1>1, <3>2
  <2> QED
    BY <2>1, <2>2
<1>5. outbox' \in [Events -> RetainedEvent] /\ NothingActiveRemoved'
  BY <1>2, <1>3, EventLeaves
<1>6. command'.now <= day'
  <2>1. command'.now \in Nat
    BY <1>4 DEF RetentionCommand
  <2> QED
    BY <1>1, <1>3, <1>4, <2>1
<1>7. RetentionShapes'
  BY <1>3, <1>4, <1>5, <1>6 DEF RetentionInv, RetentionShapes, WorkerShape
<1>8. CountedNothing' /\ CreatedOverNothing'
  BY <1>4 DEF CountedNothing, CreatedOverNothing
<1> QED
  BY <1>5, <1>7, <1>8 DEF RetentionInv, RetentionSafe

\* A count that found nothing adds its status to those that have nothing.
LEMMA Counts ==
    ASSUME RetentionAssumption, RetentionInv, CountStatus
    PROVE  RetentionInv'
<1> DEFINE expired == command.expired \/ Expired(Policy[command.rule], command.now) # {}
           more == [command EXCEPT !.rule = command.rule + 1, !.expired = expired]
           last == [command EXCEPT !.rule = 1, !.expired = expired, !.at = AfterCounts(expired)]
<1>1. /\ command \in RetentionCommand /\ command.rule \in 1..3 /\ command.now <= day /\ command.at = "count"
      /\ expired \in BOOLEAN
  BY DEF RetentionInv, RetentionShapes, RetentionCommand, CountStatus
<1>2. /\ outbox' = outbox /\ ttl' = ttl /\ day' = day /\ removed' = removed /\ worker' = worker
      /\ command' = IF command.rule < 3 THEN more ELSE last
  BY PolicyNames DEF CountStatus
<1>3. AfterCounts(expired) \in {"idle", "create", "find"} /\ (AfterCounts(expired) = "create" => ~expired)
  BY DEF AfterCounts
<1>4. NothingActiveRemoved'
  BY <1>2 DEF RetentionInv, RetentionSafe, NothingActiveRemoved
<1>5. ~expired => \A i \in 1..3 : i <= command.rule => Expired(Policy[i], command.now) = {}
  <2> SUFFICES ASSUME ~expired, NEW i \in 1..3, i <= command.rule PROVE Expired(Policy[i], command.now) = {}
    OBVIOUS
  <2>1. CASE i = command.rule
    BY <2>1
  <2>2. CASE i < command.rule
    BY <1>1, <2>2 DEF RetentionInv, CountedNothing
  <2> QED
    BY <1>1, <2>1, <2>2
<1> HIDE DEF expired
<1>6. CASE command.rule < 3
  <2>1. /\ command' \in RetentionCommand /\ command'.now = command.now /\ command'.at = "count"
        /\ command'.rule = command.rule + 1 /\ command'.expired = expired
    <3>1. command.rule + 1 \in 1..3 /\ command' = more
      BY <1>1, <1>2, <1>6
    <3>2. more \in RetentionCommand
      <4> DEFINE r == command.rule + 1
      <4>1. r \in 1..3
        BY <3>1
      <4> HIDE DEF r
      <4>2. [command EXCEPT !.rule = r, !.expired = expired] \in RetentionCommand
        BY <1>1, <4>1 DEF RetentionCommand
      <4> QED
        BY <4>2 DEF r
    <3>3. more.now = command.now /\ more.at = "count" /\ more.rule = command.rule + 1 /\ more.expired = expired
      BY <1>1 DEF RetentionCommand
    <3> HIDE DEF more
    <3> QED
      BY <3>1, <3>2, <3>3
  <2>2. RetentionShapes'
    BY <1>1, <1>2, <2>1 DEF RetentionInv, RetentionShapes, WorkerShape
  <2>3. CountedNothing'
    <3> SUFFICES ASSUME ~expired, NEW i \in 1..3, i < command.rule + 1
                 PROVE  Expired(Policy[i], command.now)' = {}
      BY <2>1 DEF CountedNothing
    <3>1. Expired(Policy[i], command.now) = {}
      BY <1>1, <1>5
    <3> QED
      BY <1>2, <2>1, <3>1 DEF Expired, In
  <2>4. CreatedOverNothing'
    BY <2>1 DEF CreatedOverNothing
  <2> QED
    BY <1>4, <2>2, <2>3, <2>4 DEF RetentionInv, RetentionSafe
<1>7. CASE ~(command.rule < 3)
  <2>1. /\ command' \in RetentionCommand /\ command'.now = command.now /\ command'.at = AfterCounts(expired)
    <3> HIDE DEF last
    <3>1. command' = last
      BY <1>2, <1>7
    <3>2. /\ last \in RetentionCommand /\ last.now = command.now /\ last.at = AfterCounts(expired)
      <4>1. 1 \in 1..3 /\ AfterCounts(expired) \in CommandPlaces
        BY <1>3 DEF CommandPlaces
      <4> DEFINE at == AfterCounts(expired)
                 r == 1
                 next == [command EXCEPT !.rule = r, !.expired = expired, !.at = at]
      <4>2. at \in CommandPlaces /\ r \in 1..3
        BY <4>1
      <4> HIDE DEF at, r
      <4>3. next \in RetentionCommand /\ next.now = command.now /\ next.at = at
        BY <1>1, <4>2 DEF RetentionCommand
      <4>4. last = next /\ at = AfterCounts(expired)
        BY DEF at, r, last
      <4> HIDE DEF next
      <4> QED
        BY <4>3, <4>4
    <3> QED
      BY <3>1, <3>2
  <2>2. RetentionShapes'
    BY <1>1, <1>2, <2>1 DEF RetentionInv, RetentionShapes, WorkerShape
  <2>3. CountedNothing'
    BY <1>3, <2>1 DEF CountedNothing
  <2>4. CreatedOverNothing'
    <3> SUFFICES ASSUME ~expired, NEW status \in Terminal PROVE Expired(status, command.now)' = {}
      BY <1>3, <2>1 DEF CreatedOverNothing
    <3>1. PICK i \in 1..3 : status = Policy[i]
      BY DEF Terminal
    <3>2. Expired(status, command.now) = {}
      BY <1>1, <1>5, <1>7, <3>1
    <3> QED
      BY <1>2, <2>1, <3>2 DEF Expired, In
  <2> QED
    BY <1>4, <2>2, <2>3, <2>4 DEF RetentionInv, RetentionSafe
<1> QED
  BY <1>6, <1>7

\* The other steps of the command.
LEMMA CommandSteps ==
    ASSUME RetentionAssumption, RetentionInv,
           \/ \E mode \in {"preflight", "create", "purge"}, confirmed \in BOOLEAN : RunCommand(mode, confirmed)
           \/ CreateIndexes \/ FindBatch \/ CommandFails
    PROVE  RetentionInv'
<1>0. command \in RetentionCommand /\ command.now <= day /\ command.now \in Nat /\ day \in Nat
  BY DEF RetentionInv, RetentionShapes, RetentionCommand, RetentionAssumption
<1>00. NoCommand \in RetentionCommand /\ NoCommand.at = "idle" /\ NoCommand.now = 0 /\ NoCommand.rule = 1
  BY DEF RetentionCommand, CommandPlaces, NoCommand
<1>1. /\ command \in RetentionCommand /\ command.now <= day /\ command.now \in Nat /\ day \in Nat
      /\ NoCommand \in RetentionCommand /\ NoCommand.at = "idle" /\ NoCommand.now = 0 /\ NoCommand.rule = 1
  BY <1>0, <1>00
<1>2. /\ outbox' = outbox /\ removed' = removed /\ day' = day /\ worker' = worker /\ ttl' \in {ttl, Terminal}
  BY DEF RunCommand, CreateIndexes, FindBatch, CommandFails
<1>3. /\ command' \in RetentionCommand /\ command'.now <= day
      /\ command'.at \notin {"count", "create"} \/ (command'.at = "count" /\ command'.rule = 1)
  <2>1. ASSUME NEW mode \in {"preflight", "create", "purge"}, NEW confirmed \in BOOLEAN, RunCommand(mode, confirmed)
        PROVE  <1>3!:
    <3>1. command' = [NoCommand EXCEPT !.mode = mode, !.at = "count", !.now = day]
      BY <2>1 DEF RunCommand
    <3>2. command' = [mode |-> mode, at |-> "count", rule |-> 1, now |-> day, expired |-> FALSE, found |-> {}]
      BY <3>1 DEF NoCommand
    <3> QED
      BY <1>1, <3>2 DEF RetentionCommand, CommandPlaces
  <2>2. CASE CreateIndexes \/ CommandFails
    BY <1>1, <2>2 DEF CreateIndexes, CommandFails
  <2>3. CASE FindBatch
    <3>1. CASE command' = NextRule
      <4>1. NextRule.now \in Nat
        BY RuleAdvances DEF RetentionCommand
      <4> QED
        BY <1>1, <3>1, <4>1, RuleAdvances
    <3>2. CASE command' # NextRule
      <4>1. PICK expired \in SUBSET Expired(Policy[command.rule], command.now) :
                command' = [command EXCEPT !.found = expired, !.at = "delete"]
        BY <2>3, <3>2 DEF FindBatch
      <4>2. expired \in SUBSET Events
        BY DEF Expired, In
      <4>3. "delete" \in CommandPlaces
        BY DEF CommandPlaces
      <4>4. command' \in RetentionCommand /\ command'.now = command.now /\ command'.at = "delete"
        <5> DEFINE at == "delete"
                   next == [command EXCEPT !.found = expired, !.at = at]
        <5>1. at \in CommandPlaces
          BY <4>3
        <5> HIDE DEF at
        <5>2. next \in RetentionCommand /\ next.now = command.now /\ next.at = at
          BY <1>1, <4>2, <5>1 DEF RetentionCommand
        <5>3. command' = next /\ at = "delete"
          BY <4>1 DEF at
        <5> HIDE DEF next
        <5> QED
          BY <5>2, <5>3
      <4> QED
        BY <1>1, <4>4
    <3> QED
      BY <3>1, <3>2
  <2> QED
    BY <2>1, <2>2, <2>3
<1>4. RetentionShapes'
  BY <1>2, <1>3 DEF RetentionInv, RetentionShapes, WorkerShape
<1>5. CountedNothing' /\ RetentionSafe'
  BY <1>2, <1>3, CommandMoves
<1> QED
  BY <1>4, <1>5 DEF RetentionInv
-----------------------------------------------------------------------------
LEMMA WorkerMoves ==
    ASSUME WorkerShape,
           \/ StartEndpoint \/ EndpointFails \/ ObserveCycle \/ Aggregate \/ OldestActive \/ OldestAttention
           \/ ObserveBacklog \/ ObserveBacklogFailure \/ Exit
    PROVE  WorkerShape'
<1>1. CASE StartEndpoint
  BY <1>1 DEF StartEndpoint, WorkerShape, Resting
<1>2. CASE EndpointFails
  BY <1>2 DEF EndpointFails, WorkerShape
<1>3. CASE ObserveCycle
  BY <1>3 DEF ObserveCycle, WorkerShape, Sampling, BecomesReady
<1>4. CASE Aggregate
  BY <1>4 DEF Aggregate, WorkerShape
<1>5. CASE OldestActive
  BY <1>5 DEF OldestActive, WorkerShape
<1>6. CASE OldestAttention
  BY <1>6 DEF OldestAttention, WorkerShape
<1>7. CASE ObserveBacklog \/ ObserveBacklogFailure
  BY <1>7 DEF ObserveBacklog, ObserveBacklogFailure, WorkerShape
<1>8. CASE Exit
  BY <1>8 DEF Exit, WorkerShape, Resting
<1> QED
  BY <1>1, <1>2, <1>3, <1>4, <1>5, <1>6, <1>7, <1>8

LEMMA RetentionBegins == ASSUME RetentionAssumption, RetentionInit PROVE RetentionInv
<1>1. /\ outbox \in [Events -> RetainedEvent]
  <2>1. NoEvent \in RetainedEvent
    BY DEF NoEvent, RetainedEvent, EventStatuses
  <2>2. \A s \in Terminal : [status |-> s, created |-> 0, updated |-> 0] \in RetainedEvent
    BY DEF RetainedEvent, EventStatuses
  <2> QED
    BY <2>1, <2>2 DEF RetentionInit
<1>2. NoCommand \in RetentionCommand /\ NoCommand.at = "idle" /\ NoCommand.now = 0
  BY DEF NoCommand, RetentionCommand, CommandPlaces
<1>3. WorkerShape
  BY DEF RetentionInit, WorkerShape, Resting
<1>4. RetentionShapes
  BY <1>1, <1>2, <1>3 DEF RetentionInit, RetentionShapes, RetentionAssumption
<1>5. CountedNothing /\ RetentionSafe
  BY <1>2 DEF RetentionInit, CountedNothing, RetentionSafe, CreatedOverNothing, NothingActiveRemoved
<1> QED
  BY <1>4, <1>5 DEF RetentionInv

LEMMA RetentionSteps ==
    ASSUME RetentionAssumption, RetentionInv, [RetentionNext]_retentionVars
    PROVE  RetentionInv'
<1>1. CASE UNCHANGED retentionVars
  <2>1. RetentionShapes'
    BY <1>1 DEF retentionVars, RetentionInv, RetentionShapes, WorkerShape
  <2>2. CountedNothing' /\ RetentionSafe'
    BY <1>1, EventsStay DEF retentionVars
  <2> QED
    BY <2>1, <2>2 DEF RetentionInv
<1>2. ASSUME NEW e \in Events, Claim(e) \/ RenewLease(e) \/ Finish(e) \/ Requeue(e) \/ RedriveAttention(e)
      PROVE  RetentionInv'
  <2>1. outbox[e].status \in EventStatuses
    BY DEF RetentionInv, RetentionShapes, RetainedEvent
  <2>2. \E status \in EventStatuses, updated \in {day, day + 1} : MovesOn(e, status, updated)
    <3>1. {"pending", "dispatching", "reconciling"} \cup Terminal \subseteq EventStatuses
      BY DEF EventStatuses, ActiveStatuses
    <3> QED
      BY <1>2, <2>1, <3>1 DEF Claim, RenewLease, Finish, Requeue, RedriveAttention
  <2> QED
    BY <2>2, EventMoves
<1>3. CASE Tick
  <2>1. /\ outbox' = outbox /\ removed' = removed /\ command' = command /\ ttl' = ttl /\ worker' = worker
        /\ day' = day + 1 /\ day \in 0..MaxDay /\ day < MaxDay /\ command.now <= day /\ command.now \in Nat
    BY <1>3 DEF Tick, RetentionInv, RetentionShapes, RetentionCommand
  <2>2. day' \in 0..MaxDay /\ command'.now <= day'
    BY <2>1 DEF RetentionAssumption
  <2>3. RetentionShapes'
    BY <2>1, <2>2 DEF RetentionInv, RetentionShapes, WorkerShape
  <2> QED
    BY <2>1, <2>3, EventsStay DEF RetentionInv
<1>4. ASSUME \/ StartEndpoint \/ EndpointFails \/ ObserveCycle \/ Aggregate \/ OldestActive \/ OldestAttention
             \/ ObserveBacklog \/ ObserveBacklogFailure \/ Exit
      PROVE  RetentionInv'
  <2>1. outbox' = outbox /\ removed' = removed /\ command' = command /\ ttl' = ttl /\ day' = day
    BY <1>4 DEF StartEndpoint, EndpointFails, ObserveCycle, Aggregate, OldestActive, OldestAttention,
                ObserveBacklog, ObserveBacklogFailure, Exit
  <2>2. WorkerShape'
    BY <1>4, WorkerMoves DEF RetentionInv, RetentionShapes
  <2>3. RetentionShapes'
    BY <2>1, <2>2 DEF RetentionInv, RetentionShapes
  <2> QED
    BY <2>1, <2>3, EventsStay DEF RetentionInv
<1> QED
  BY <1>1, <1>2, <1>3, <1>4, EventEnters, IndexExpires, Counts, Deletes, CommandSteps DEF RetentionNext

LEMMA RetentionInvariant == RetentionSpec => []RetentionInv
<1>1. RetentionInit => RetentionInv
  BY RetentionBegins, RetentionAssumption
<1>2. RetentionInv /\ [RetentionNext]_retentionVars => RetentionInv'
  BY RetentionSteps, RetentionAssumption
<1> QED
  BY <1>1, <1>2, PTL DEF RetentionSpec

\* RetentionSafe: no event on its way is removed, by the purge or by an index,
\* and the indexes are installed over nothing expired.
THEOREM RetentionStaysSafe == RetentionSpec => []RetentionSafe
<1>1. RetentionInv => RetentionSafe
  BY DEF RetentionInv
<1> QED
  BY <1>1, RetentionInvariant, PTL

\* RetentionTypeOK: the events, the command and the worker keep their shape.
THEOREM RetentionTyped == RetentionSpec => []RetentionTypeOK
<1>1. RetentionInv => RetentionTypeOK
  <2> SUFFICES ASSUME RetentionInv PROVE RetentionTypeOK
    OBVIOUS
  <2>1. command.at \in {"idle", "count", "create", "find", "delete"} /\ command.found \subseteq Events
    BY DEF RetentionInv, RetentionShapes, RetentionCommand, CommandPlaces
  <2>2. \A e \in Events : outbox[e].status \in {"absent"} \cup ActiveStatuses \cup Terminal
    BY DEF RetentionInv, RetentionShapes, RetainedEvent, EventStatuses
  <2> QED
    BY <2>1, <2>2 DEF RetentionInv, RetentionShapes, WorkerShape, RetentionTypeOK
<1> QED
  BY <1>1, RetentionInvariant, PTL
-----------------------------------------------------------------------------
(* The copies of a result.                                                  *)

CopyStages ==
    {"idle", "copying", "dispatching", "flushing", "draining", "completing", "releasing", "verifying",
     "committed", "aborting", "stopping", "returned"}
CopyResults == {"none", "retry", "permanent", "published"}
StreamCopy ==
    [pc : CopyStages, key : Range(StepKeys) \cup {None}, body : Seq(Nat), written : Nat, taken : Nat, sent : Nat,
     queue : Seq(Nat), busy : [Workers -> Nat], dead : SUBSET Workers, stored : SUBSET Nat,
     failed : BOOLEAN, cancelled : BOOLEAN, lost : BOOLEAN, result : CopyResults]

\* Where nothing of a claim may be under way.
AtRest == {"idle", "completing", "releasing", "verifying", "committed", "returned"}

\* Nothing is in a worker's hands, and none is left to take what still waits.
Quiet(stream) ==
    \A w \in Workers : stream.busy[w] = 0 /\ (stream.queue = << >> \/ w \in stream.dead)

\* A stream at rest is quiet; a committed one was read back as it was written.
StreamMeant(stream, store) ==
    /\ stream.written <= MaxResultBytes /\ stream.written <= Len(stream.body)
    /\ stream.pc \notin {"idle", "returned"} => stream.key \in Range(StepKeys)
    /\ stream.pc \in {"flushing", "draining"} \cup (AtRest \ {"idle", "returned"}) => stream.written >= 1
    /\ stream.pc \in AtRest => Quiet(stream)
    /\ stream.pc = "committed" => store[stream.key] = {SubSeq(stream.body, 1, stream.written)}

\* An object that is there stays as it is.
ObjectsStay(before, after) == \A k \in Range(StepKeys) : before[k] # {} => after[k] = before[k]

\* What the audit has still to see of what was there when it began.
AuditMeant ==
    /\ audit.before \subseteq Held
    /\ audit.pc = "idle" => audit.cursor = 0
    /\ audit.pc \in {"page", "next"} =>
          \A k \in audit.before : k \in audit.scanned \/ k \in audit.page \/ Position(k) > audit.cursor
    /\ audit.pc = "last" => audit.before \subseteq audit.scanned \cup audit.page
    /\ audit.pc = "next" => audit.page \subseteq audit.scanned

AuditShape ==
    [pc : {"idle", "page", "last", "next", "complete"}, cursor : Nat, page : SUBSET Range(StepKeys),
     orphans : SUBSET Range(StepKeys), scanned : SUBSET Range(StepKeys), before : SUBSET Range(StepKeys)]

\* What is published is of this step.
AssetMeant == asset # None => asset.key \in Range(StepKeys)

StreamsShape ==
    /\ copy \in [Claims -> StreamCopy]
    /\ object = [k \in Range(StepKeys) |-> object[k]]
    /\ audit \in AuditShape

StreamsInv ==
    /\ StreamsShape /\ AssetMeant
    /\ \A c \in Claims : StreamMeant(copy[c], object)
    /\ AuditMeant
    /\ StreamsSafe
-----------------------------------------------------------------------------
\* What an audit has seen, it has seen, whatever is added to the store.
LEMMA AuditKept ==
    ASSUME StreamsInv, ObjectsStay(object, object'), audit' = audit
    PROVE  AuditMeant' /\ AuditWhole'
<1>1. Held \subseteq Held'
  BY DEF Held, ObjectsStay
<1>2. AuditMeant /\ AuditWhole
  BY DEF StreamsInv, StreamsSafe
<1> QED
  BY <1>1, <1>2 DEF AuditMeant, AuditWhole, Position

\* A stream that moves to where it is meant to, over a store that only gains.
LEMMA StreamMoves ==
    ASSUME StreamsInv, NEW c \in Claims, NEW next, Moves(c, next), next \in StreamCopy,
           object' = [k \in Range(StepKeys) |-> object'[k]], ObjectsStay(object, object'),
           StreamMeant(next, object'), asset' = asset, audit' = audit
    PROVE  StreamsInv'
<1>1. copy \in [Claims -> StreamCopy] /\ copy' = [copy EXCEPT ![c] = next]
  BY DEF StreamsInv, StreamsShape, Moves
<1>2. copy' \in [Claims -> StreamCopy] /\ copy'[c] = next /\ \A d \in Claims \ {c} : copy'[d] = copy[d]
  BY <1>1
<1>3. \A d \in Claims : StreamMeant(copy'[d], object')
  <2>1. ASSUME NEW d \in Claims \ {c} PROVE StreamMeant(copy[d], object')
    <3>1. StreamMeant(copy[d], object)
      BY DEF StreamsInv
    <3>2. copy[d].pc = "committed" => object'[copy[d].key] = object[copy[d].key]
      BY <3>1 DEF StreamMeant, ObjectsStay, AtRest
    <3> QED
      BY <3>1, <3>2 DEF StreamMeant
  <2> QED
    BY <1>2, <2>1
<1>4. StreamsShape' /\ AssetMeant'
  BY <1>2 DEF StreamsInv, StreamsShape, AssetMeant
<1>5. PublishedProven'
  BY DEF StreamsInv, StreamsSafe, AssetMeant, PublishedProven, ObjectsStay
<1>6. NoPartRaces'
  BY <1>3 DEF NoPartRaces, StreamMeant, AtRest, Quiet
<1> QED
  BY <1>3, <1>4, <1>5, <1>6, AuditKept DEF StreamsInv, StreamsSafe

\* The same, when the store does not change.
LEMMA StreamGoesOn ==
    ASSUME StreamsInv, NEW c \in Claims, NEW next, Moves(c, next), next \in StreamCopy,
           StreamMeant(next, object), UNCHANGED <<object, asset, audit>>
    PROVE  StreamsInv'
<1>1. object' = [k \in Range(StepKeys) |-> object'[k]] /\ ObjectsStay(object, object') /\ StreamMeant(next, object')
  BY DEF StreamsInv, StreamsShape, ObjectsStay
<1> QED
  BY <1>1, StreamMoves

\* Every stream is one, and is meant.
LEMMA StreamHere ==
    ASSUME StreamsInv, NEW c \in Claims
    PROVE  copy[c] \in StreamCopy /\ StreamMeant(copy[c], object)
BY DEF StreamsInv, StreamsShape

\* To give up, or to end, asks nothing of a stream but to be quiet when it ends.
LEMMA GivesUp ==
    ASSUME StreamsInv, NEW c \in Claims, NEW result \in CopyResults, copy[c].pc \notin {"idle", "returned"},
           Gives(c, result), UNCHANGED <<object, asset, audit>>
    PROVE  StreamsInv'
<1>1. PICK s : s = copy[c]
  OBVIOUS
<1>2. s \in StreamCopy /\ StreamMeant(s, object)
  BY <1>1, StreamHere
<1> DEFINE next == [s EXCEPT !.pc = "aborting", !.result = result]
<1>3. next \in StreamCopy
  BY <1>2 DEF StreamCopy, CopyStages
<1>4. StreamMeant(next, object)
  BY <1>1, <1>2 DEF StreamCopy, StreamMeant, AtRest
<1>5. Moves(c, next)
  BY <1>1 DEF Gives
<1> HIDE DEF next
<1> QED
  BY <1>3, <1>4, <1>5, StreamGoesOn

LEMMA ReturnsQuiet ==
    ASSUME StreamsInv, NEW c \in Claims, NEW result \in CopyResults, Quiet(copy[c]),
           Returns(c, result), UNCHANGED <<object, asset, audit>>
    PROVE  StreamsInv'
<1>1. PICK s : s = copy[c]
  OBVIOUS
<1>2. s \in StreamCopy /\ StreamMeant(s, object)
  BY <1>1, StreamHere
<1> DEFINE next == [s EXCEPT !.pc = "returned", !.result = result]
<1>3. next \in StreamCopy
  BY <1>2 DEF StreamCopy, CopyStages
<1>4. StreamMeant(next, object)
  BY <1>1, <1>2 DEF StreamCopy, StreamMeant, AtRest, Quiet
<1>5. Moves(c, next)
  BY <1>1 DEF Returns
<1> HIDE DEF next
<1> QED
  BY <1>3, <1>4, <1>5, StreamGoesOn

\* A stage follows another.
LEMMA StageFollows ==
    ASSUME StreamsInv, NEW c \in Claims, NEW pc \in CopyStages \ {"idle", "copying", "dispatching", "committed"},
           copy[c].pc \notin {"idle", "returned"},
           pc \in {"flushing", "draining"} \cup (AtRest \ {"returned"}) => copy[c].written >= 1,
           pc \in AtRest => Quiet(copy[c]),
           Goes(c, pc), UNCHANGED <<asset, audit>>,
           object' = [k \in Range(StepKeys) |-> object'[k]], ObjectsStay(object, object')
    PROVE  StreamsInv'
<1>1. PICK s : s = copy[c]
  OBVIOUS
<1>2. s \in StreamCopy /\ StreamMeant(s, object)
  BY <1>1, StreamHere
<1> DEFINE next == [s EXCEPT !.pc = pc]
<1>3. next \in StreamCopy
  BY <1>2 DEF StreamCopy
<1>4. StreamMeant(next, object')
  BY <1>1, <1>2 DEF StreamCopy, StreamMeant, AtRest, Quiet, CopyStages
<1>5. Moves(c, next)
  BY <1>1 DEF Goes
<1> HIDE DEF next
<1> QED
  BY <1>3, <1>4, <1>5, StreamMoves
\* The downloader's verdict, when it is to stream, names a key of the step.
LEMMA Fetched ==
    ASSUME NEW r \in Responses
    PROVE  /\ FetchFailure(r) \in CopyResults
           /\ FetchFailure(r) = "none" => ExtensionOf(r.type) \in Range(StepKeys)
<1>1. ExtensionOf(r.type) \in Range(StepKeys) \cup {NoExtension}
  BY StreamsAssumption
<1> QED
  BY <1>1 DEF FetchFailure, CopyResults

LEMMA NothingStarted == NotStarted \in StreamCopy /\ Quiet(NotStarted)
<1>1. "idle" \in CopyStages /\ "none" \in CopyResults /\ << >> \in Seq(Nat)
  BY DEF CopyStages, CopyResults
<1>2. [w \in Workers |-> 0] \in [Workers -> Nat]
  OBVIOUS
<1> DEFINE idleWorkers == [w \in Workers |-> 0]
<1>3. NotStarted =
        [pc |-> "idle", key |-> None, body |-> << >>, written |-> 0, taken |-> 0, sent |-> 0,
         queue |-> << >>, busy |-> idleWorkers, dead |-> {}, stored |-> {},
         failed |-> FALSE, cancelled |-> FALSE, lost |-> FALSE, result |-> "none"]
  BY DEF NotStarted
<1>4. Quiet(NotStarted)
  BY DEF NotStarted, Quiet
<1>5. idleWorkers \in [Workers -> Nat]
  OBVIOUS
<1> HIDE DEF idleWorkers
<1>6. NotStarted \in StreamCopy
  BY <1>1, <1>3, <1>5 DEF StreamCopy
<1> QED
  BY <1>4, <1>6

LEMMA Begins ==
    ASSUME StreamsInv, NEW c \in Claims, Begin(c)
    PROVE  StreamsInv'
<1>1. /\ copy[c].pc = "idle" /\ UNCHANGED <<object, asset, audit>>
      /\ StreamMeant(copy[c], object)
  BY StreamHere DEF Begin
<1>2. Quiet(copy[c])
  BY <1>1 DEF StreamMeant, AtRest
<1>3. PICK r \in Responses :
          \/ FetchFailure(r) = "none" /\ Moves(c, Opened(r))
          \/ Returns(c, "retry")
          \/ Returns(c, FetchFailure(r))
  BY DEF Begin
<1>4. FetchFailure(r) \in CopyResults /\ "retry" \in CopyResults
  BY Fetched DEF CopyResults
<1>5. CASE Returns(c, "retry") \/ Returns(c, FetchFailure(r))
  BY <1>1, <1>2, <1>4, <1>5, ReturnsQuiet
<1>6. CASE FetchFailure(r) = "none" /\ Moves(c, Opened(r))
  <2>1. PICK key \in Range(StepKeys) : key = ExtensionOf(r.type)
    BY <1>6, Fetched
  <2>2. PICK body \in Seq(Nat) : body = r.body
    BY StreamsAssumption
  <2>3. PICK n : n = MaxResultBytes /\ n \in Nat
    BY StreamsAssumption
  <2> DEFINE next == [NotStarted EXCEPT !.pc = "copying", !.body = body, !.key = key]
  <2>4. next \in StreamCopy
    <3>1. NotStarted \in StreamCopy
      BY NothingStarted
    <3> HIDE DEF NotStarted
    <3> QED
      BY <3>1 DEF StreamCopy, CopyStages
  <2>5. next.pc = "copying" /\ next.written = 0 /\ next.body = body /\ next.key = key
    BY DEF NotStarted
  <2>6. Moves(c, next)
    BY <1>6, <2>1, <2>2 DEF Opened
  <2> HIDE DEF next
  <2>7. Len(body) \in Nat
    OBVIOUS
  <2>8. StreamMeant(next, object)
    BY <2>3, <2>5, <2>7 DEF StreamMeant, AtRest
  <2> QED
    BY <1>1, <2>4, <2>6, <2>8, StreamGoesOn
<1> QED
  BY <1>3, <1>5, <1>6

LEMMA LeaseLost ==
    ASSUME StreamsInv, NEW c \in Claims, LoseLease(c)
    PROVE  StreamsInv'
<1>1. PICK s : s = copy[c]
  OBVIOUS
<1>2. s \in StreamCopy /\ StreamMeant(s, object)
  BY <1>1, StreamHere
<1> DEFINE next == [s EXCEPT !.lost = TRUE, !.cancelled = TRUE]
<1>3. next \in StreamCopy
  BY <1>2 DEF StreamCopy
<1>4. StreamMeant(next, object)
  BY <1>1, <1>2 DEF StreamCopy, StreamMeant, AtRest, Quiet
<1>5. Moves(c, next) /\ UNCHANGED <<object, asset, audit>>
  BY <1>1 DEF LoseLease
<1> HIDE DEF next
<1> QED
  BY <1>3, <1>4, <1>5, StreamGoesOn

LEMMA Writes ==
    ASSUME StreamsInv, NEW c \in Claims, Write(c)
    PROVE  StreamsInv'
<1>1. PICK s : s = copy[c]
  OBVIOUS
<1>2. s \in StreamCopy /\ StreamMeant(s, object)
  BY <1>1, StreamHere
<1>3. /\ s.pc = "copying" /\ s.written < Len(s.body) /\ UNCHANGED <<object, asset, audit>>
      /\ s.written \in Nat /\ s.taken \in Nat /\ Len(s.body) \in Nat /\ MaxResultBytes \in Nat
  BY <1>1, <1>2, StreamsAssumption DEF Write, StreamCopy
<1>4. "retry" \in CopyResults /\ "permanent" \in CopyResults
  BY DEF CopyResults
<1>5. CASE Gives(c, "retry") \/ Gives(c, "permanent")
  BY <1>1, <1>3, <1>4, <1>5, GivesUp
<1>6. CASE ~(Gives(c, "retry") \/ Gives(c, "permanent"))
  <2>1. /\ s.written + 1 <= MaxResultBytes
        /\ Moves(c, IF Buffered(c) = PartSize THEN [s EXCEPT !.written = s.written + 1, !.pc = "dispatching"]
                                              ELSE [s EXCEPT !.written = s.written + 1, !.taken = s.taken + 1])
    <3>1. ~s.failed
      BY <1>1, <1>6 DEF Write
    <3>2. ~(s.written + 1 > MaxResultBytes)
      BY <1>1, <1>6, <3>1 DEF Write
    <3>3. Moves(c, IF Buffered(c) = PartSize THEN [s EXCEPT !.written = s.written + 1, !.pc = "dispatching"]
                                             ELSE [s EXCEPT !.written = s.written + 1, !.taken = s.taken + 1])
      BY <1>1, <3>1, <3>2, Zenon DEF Write
    <3> QED
      BY <1>3, <3>2, <3>3
  <2>2. PICK written \in Nat, taken \in Nat : written = s.written + 1 /\ taken = s.taken + 1
    BY <1>3
  <2>3. written <= MaxResultBytes /\ written <= Len(s.body)
    BY <1>3, <2>1, <2>2
  <2> DEFINE full == [s EXCEPT !.written = written, !.pc = "dispatching"]
             more == [s EXCEPT !.written = written, !.taken = taken]
  <2>4. full \in StreamCopy /\ more \in StreamCopy
    BY <1>2, <2>2 DEF StreamCopy, CopyStages
  <2>5. StreamMeant(full, object) /\ StreamMeant(more, object)
    BY <1>2, <1>3, <2>2, <2>3 DEF StreamCopy, StreamMeant, AtRest
  <2>6. Moves(c, full) \/ Moves(c, more)
    BY <2>1, <2>2
  <2> HIDE DEF full, more
  <2> QED
    BY <1>3, <2>4, <2>5, <2>6, StreamGoesOn
<1> QED
  BY <1>5, <1>6

LEMMA PartHandedOver ==
    ASSUME StreamsInv, NEW c \in Claims, NEW pc \in {"copying", "draining"}, copy[c].pc \in {"dispatching", "flushing"},
           Dispatched(c, pc), pc = "draining" => copy[c].pc = "flushing", UNCHANGED <<object, asset, audit>>
    PROVE  StreamsInv'
<1>1. PICK s : s = copy[c]
  OBVIOUS
<1>2. s \in StreamCopy /\ StreamMeant(s, object)
  BY <1>1, StreamHere
<1>3. CASE Gives(c, "retry")
  <2>1. "retry" \in CopyResults
    BY DEF CopyResults
  <2> QED
    BY <1>3, <2>1, GivesUp
<1>4. CASE ~Gives(c, "retry")
  <2>1. s.sent + 1 \in Nat /\ Append(s.queue, s.sent + 1) \in Seq(Nat)
    BY <1>2 DEF StreamCopy
  <2>2. PICK n \in Nat, queue \in Seq(Nat) : n = s.sent + 1 /\ queue = Append(s.queue, n)
    BY <2>1
  <2> DEFINE next == [s EXCEPT !.sent = n, !.queue = queue, !.taken = s.written, !.pc = pc]
  <2>3. Moves(c, next)
    BY <1>1, <1>4, <2>2 DEF Dispatched
  <2>4. next \in StreamCopy
    <3>1. pc \in CopyStages /\ s.written \in Nat
      BY <1>2 DEF CopyStages, StreamCopy
    <3> QED
      BY <1>2, <3>1 DEF StreamCopy
  <2>5. StreamMeant(next, object)
    BY <1>1, <1>2 DEF StreamCopy, StreamMeant, AtRest
  <2> HIDE DEF next
  <2> QED
    BY <2>3, <2>4, <2>5, StreamGoesOn
<1> QED
  BY <1>3, <1>4
\* A worker that takes a part, has it stored or fails: a stream at rest has
\* nobody who could.
LEMMA WorkerActs ==
    ASSUME StreamsInv, NEW c \in Claims, NEW w \in Workers,
           TakePart(c, w) \/ PartStored(c, w) \/ PartFails(c, w)
    PROVE  StreamsInv'
<1>1. PICK s : s = copy[c]
  OBVIOUS
<1>2. s \in StreamCopy /\ StreamMeant(s, object) /\ s.busy \in [Workers -> Nat] /\ s.queue \in Seq(Nat)
  BY <1>1, StreamHere DEF StreamCopy
<1>3. UNCHANGED <<object, asset, audit>> /\ s.pc \notin AtRest
  BY <1>1, <1>2 DEF TakePart, PartStored, PartFails, StreamMeant, Quiet
<1>4. ASSUME NEW busy \in [Workers -> Nat], NEW next \in StreamCopy, Moves(c, next), next.pc = s.pc, next.key = s.key,
             next.body = s.body, next.written = s.written
      PROVE  StreamsInv'
  <2>1. StreamMeant(next, object)
    BY <1>2, <1>3, <1>4 DEF StreamMeant, AtRest
  <2> QED
    BY <1>3, <1>4, <2>1, StreamGoesOn
<1>5. CASE TakePart(c, w)
  <2>1. s.queue # << >> /\ Moves(c, [Takes(c, w, Head(s.queue)) EXCEPT !.queue = Tail(s.queue)])
    BY <1>1, <1>5 DEF TakePart, Takes
  <2>2. PICK n \in Nat, queue \in Seq(Nat) : n = Head(s.queue) /\ queue = Tail(s.queue)
    <3>1. Head(s.queue) \in Nat /\ Tail(s.queue) \in Seq(Nat)
      BY <1>2, <2>1, HeadTailProperties
    <3> QED
      BY <3>1
  <2>3. PICK busy \in [Workers -> Nat] : busy = [s.busy EXCEPT ![w] = n]
    BY <1>2
  <2> DEFINE next == [[s EXCEPT !.busy = busy] EXCEPT !.queue = queue]
  <2>4. next \in StreamCopy
    BY <1>2 DEF StreamCopy
  <2>5. next.pc = s.pc /\ next.key = s.key /\ next.body = s.body /\ next.written = s.written
    BY <1>2 DEF StreamCopy
  <2>6. Moves(c, next)
    BY <1>1, <2>1, <2>2, <2>3 DEF Takes
  <2> HIDE DEF next
  <2> QED
    BY <1>2, <1>4, <2>4, <2>5, <2>6
<1>6. CASE PartStored(c, w)
  <2>1. Moves(c, [Takes(c, w, 0) EXCEPT !.stored = s.stored \cup {s.busy[w]}])
    BY <1>1, <1>6 DEF PartStored, Takes
  <2>2. PICK busy \in [Workers -> Nat] : busy = [s.busy EXCEPT ![w] = 0]
    BY <1>2
  <2>3. PICK stored \in SUBSET Nat : stored = s.stored \cup {s.busy[w]}
    BY <1>2 DEF StreamCopy
  <2> DEFINE next == [[s EXCEPT !.busy = busy] EXCEPT !.stored = stored]
  <2>4. next \in StreamCopy
    BY <1>2 DEF StreamCopy
  <2>5. next.pc = s.pc /\ next.key = s.key /\ next.body = s.body /\ next.written = s.written
    BY <1>2 DEF StreamCopy
  <2>6. Moves(c, next)
    BY <1>1, <2>1, <2>2, <2>3 DEF Takes
  <2> HIDE DEF next
  <2> QED
    BY <1>2, <1>4, <2>4, <2>5, <2>6
<1>7. CASE PartFails(c, w)
  <2>1. Moves(c, [Takes(c, w, 0) EXCEPT !.dead = s.dead \cup {w}, !.failed = TRUE, !.cancelled = TRUE])
    BY <1>1, <1>7 DEF PartFails, Takes
  <2>2. PICK busy \in [Workers -> Nat] : busy = [s.busy EXCEPT ![w] = 0]
    BY <1>2
  <2>3. PICK dead \in SUBSET Workers : dead = s.dead \cup {w}
    BY <1>2 DEF StreamCopy
  <2> DEFINE next == [[s EXCEPT !.busy = busy] EXCEPT !.dead = dead, !.failed = TRUE, !.cancelled = TRUE]
  <2>4. next \in StreamCopy
    BY <1>2 DEF StreamCopy
  <2>5. next.pc = s.pc /\ next.key = s.key /\ next.body = s.body /\ next.written = s.written
    BY <1>2 DEF StreamCopy
  <2>6. Moves(c, next)
    BY <1>1, <2>1, <2>2, <2>3 DEF Takes
  <2> HIDE DEF next
  <2> QED
    BY <1>2, <1>4, <2>4, <2>5, <2>6
<1> QED
  BY <1>5, <1>6, <1>7

\* The end of the body, or of its source.
LEMMA Ends ==
    ASSUME StreamsInv, NEW c \in Claims, EndOfBody(c) \/ ReadFails(c) \/ Flush(c) \/ Drain(c)
    PROVE  StreamsInv'
<1>1. /\ UNCHANGED <<object, asset, audit>> /\ "retry" \in CopyResults /\ "permanent" \in CopyResults
      /\ object' = [k \in Range(StepKeys) |-> object'[k]] /\ ObjectsStay(object, object')
  BY DEF EndOfBody, ReadFails, Flush, Drain, CopyResults, StreamsInv, StreamsShape, ObjectsStay
<1>2. copy[c].pc \in {"copying", "flushing", "draining"} /\ copy[c].written \in Nat
      /\ (copy[c].pc \in {"flushing", "draining"} => copy[c].written >= 1)
  BY StreamHere DEF EndOfBody, ReadFails, Flush, Drain, StreamCopy, StreamMeant
<1>3. CASE Gives(c, "retry") \/ Gives(c, "permanent")
  BY <1>1, <1>2, <1>3, GivesUp
<1>4. CASE EndOfBody(c) /\ Goes(c, "flushing") /\ copy[c].written >= 1
  <2>1. "flushing" \in CopyStages \ {"idle", "copying", "dispatching", "committed"} /\ "flushing" \notin AtRest
    BY DEF CopyStages, AtRest
  <2> QED
    BY <1>1, <1>2, <1>4, <2>1, StageFollows
<1>5. CASE Flush(c)
  <2>1. CASE Goes(c, "draining")
    <3>1. "draining" \in CopyStages \ {"idle", "copying", "dispatching", "committed"} /\ "draining" \notin AtRest
      BY DEF CopyStages, AtRest
    <3>2. copy[c].pc = "flushing"
      BY <1>5 DEF Flush
    <3> QED
      BY <1>1, <1>2, <2>1, <3>1, <3>2, StageFollows
  <2>2. CASE Dispatched(c, "draining")
    <3>1. copy[c].pc = "flushing"
      BY <1>5 DEF Flush
    <3> QED
      BY <1>1, <2>2, <3>1, PartHandedOver
  <2> QED
    BY <1>5, <2>1, <2>2 DEF Flush
<1>6. CASE Drain(c) /\ Goes(c, "completing")
  <2>1. "completing" \in CopyStages \ {"idle", "copying", "dispatching", "committed"}
    BY DEF CopyStages
  <2>2. Quiet(copy[c]) /\ copy[c].pc = "draining"
    BY <1>6 DEF Drain, Drained, Quiet
  <2> QED
    BY <1>1, <1>2, <1>6, <2>1, <2>2, StageFollows
<1> QED
  BY <1>2, <1>3, <1>4, <1>5, <1>6 DEF EndOfBody, ReadFails, Drain

\* The object appears under a free key, or not at all.
LEMMA Completes ==
    ASSUME StreamsInv, NEW c \in Claims, CompleteUpload(c) \/ Release(c)
    PROVE  StreamsInv'
<1>1. PICK s : s = copy[c]
  OBVIOUS
<1>2. s \in StreamCopy /\ StreamMeant(s, object) /\ s.pc \in {"completing", "releasing"}
  BY <1>1, StreamHere DEF CompleteUpload, Release
<1>3. s.key \in Range(StepKeys) /\ s.written >= 1 /\ Quiet(s) /\ UNCHANGED <<asset, audit>>
  BY <1>2 DEF StreamMeant, AtRest, CompleteUpload, Release
<1>4. object' = [k \in Range(StepKeys) |-> object'[k]] /\ ObjectsStay(object, object')
  <2>1. object = [k \in Range(StepKeys) |-> object[k]]
    BY DEF StreamsInv, StreamsShape
  <2>2. CASE object' = object
    BY <2>1, <2>2 DEF ObjectsStay
  <2>3. CASE object' # object
    <3>1. PICK bytes : object' = [object EXCEPT ![s.key] = {bytes}] /\ object[s.key] = {}
      BY <1>1, <2>3 DEF CompleteUpload, Release, KeyFree
    <3> QED
      BY <1>3, <2>1, <3>1 DEF ObjectsStay
  <2> QED
    BY <2>2, <2>3
<1>5. CASE Goes(c, "verifying") \/ Goes(c, "releasing")
  <2>1. {"verifying", "releasing"} \subseteq CopyStages \ {"idle", "copying", "dispatching", "committed"}
    BY DEF CopyStages
  <2>2. copy[c].pc \notin {"idle", "returned"} /\ Quiet(copy[c]) /\ copy[c].written >= 1
    BY <1>1, <1>2, <1>3
  <2> QED
    BY <1>3, <1>4, <1>5, <2>1, <2>2, StageFollows
<1>6. CASE Gives(c, "retry")
  <2> DEFINE next == [s EXCEPT !.pc = "aborting", !.result = "retry"]
  <2>1. next \in StreamCopy
    BY <1>2 DEF StreamCopy, CopyStages, CopyResults
  <2>2. StreamMeant(next, object')
    BY <1>2 DEF StreamCopy, StreamMeant, AtRest
  <2>3. Moves(c, next)
    BY <1>1, <1>6 DEF Gives
  <2> HIDE DEF next
  <2> QED
    BY <1>3, <1>4, <2>1, <2>2, <2>3, StreamMoves
<1> QED
  BY <1>5, <1>6 DEF CompleteUpload, Release

\* A committed stream has been read back.
LEMMA Verifies ==
    ASSUME StreamsInv, NEW c \in Claims, Verify(c)
    PROVE  StreamsInv'
<1>1. PICK s : s = copy[c]
  OBVIOUS
<1>2. s \in StreamCopy /\ StreamMeant(s, object) /\ s.pc = "verifying" /\ UNCHANGED <<object, asset, audit>>
  BY <1>1, StreamHere DEF Verify
<1>3. Quiet(s) /\ "retry" \in CopyResults
  BY <1>2 DEF StreamMeant, AtRest, CopyResults
<1>4. CASE Returns(c, "retry")
  BY <1>1, <1>2, <1>3, <1>4, ReturnsQuiet
<1>5. CASE Proven(c) /\ Goes(c, "committed")
  <2> DEFINE next == [s EXCEPT !.pc = "committed"]
  <2>1. next \in StreamCopy
    BY <1>2 DEF StreamCopy, CopyStages
  <2>2. StreamMeant(next, object)
    BY <1>1, <1>2, <1>5 DEF StreamCopy, StreamMeant, AtRest, Quiet, Proven
  <2>3. Moves(c, next)
    BY <1>1, <1>5 DEF Goes
  <2> HIDE DEF next
  <2> QED
    BY <1>2, <2>1, <2>2, <2>3, StreamGoesOn
<1> QED
  BY <1>4, <1>5 DEF Verify

LEMMA Stops ==
    ASSUME StreamsInv, NEW c \in Claims, StopWorkers(c) \/ Abort(c)
    PROVE  StreamsInv'
<1>1. PICK s : s = copy[c]
  OBVIOUS
<1>2. s \in StreamCopy /\ StreamMeant(s, object) /\ UNCHANGED <<object, asset, audit>>
  BY <1>1, StreamHere DEF StopWorkers, Abort
<1>3. CASE StopWorkers(c)
  <2> DEFINE next == [s EXCEPT !.cancelled = TRUE, !.pc = "stopping"]
  <2>1. next \in StreamCopy
    BY <1>2 DEF StreamCopy, CopyStages
  <2>2. StreamMeant(next, object)
    BY <1>1, <1>2, <1>3 DEF StreamCopy, StreamMeant, AtRest, StopWorkers
  <2>3. Moves(c, next)
    BY <1>1, <1>3 DEF StopWorkers
  <2> HIDE DEF next
  <2> QED
    BY <1>2, <2>1, <2>2, <2>3, StreamGoesOn
<1>4. CASE Abort(c)
  <2>1. "returned" \in CopyStages \ {"idle", "copying", "dispatching", "committed"}
    BY DEF CopyStages
  <2>2. Quiet(copy[c]) /\ copy[c].pc = "stopping" /\ Goes(c, "returned")
    BY <1>4 DEF Abort, Drained, Quiet
  <2>3. object' = [k \in Range(StepKeys) |-> object'[k]] /\ ObjectsStay(object, object')
    BY <1>2 DEF StreamsInv, StreamsShape, ObjectsStay
  <2>4. "returned" \notin {"flushing", "draining"} \cup (AtRest \ {"returned"})
    BY DEF AtRest
  <2> QED
    BY <1>2, <2>1, <2>2, <2>3, <2>4, StageFollows
<1> QED
  BY <1>3, <1>4
\* What is published has just been proven.
LEMMA Publishes ==
    ASSUME StreamsInv, NEW c \in Claims, PublishAsset(c)
    PROVE  StreamsInv'
<1>1. PICK s : s = copy[c]
  OBVIOUS
<1>2. s \in StreamCopy /\ StreamMeant(s, object) /\ s.pc = "committed" /\ UNCHANGED <<object, audit>>
  BY <1>1, StreamHere DEF PublishAsset
<1>3. Quiet(s) /\ s.written >= 1 /\ s.key \in Range(StepKeys) /\ {"retry", "published"} \subseteq CopyResults
  BY <1>2 DEF StreamMeant, AtRest, CopyResults
<1>4. CASE asset' = asset
  <2>1. Returns(c, "retry") \/ Returns(c, "published")
    BY DEF PublishAsset
  <2> QED
    BY <1>1, <1>2, <1>3, <1>4, <2>1, ReturnsQuiet
<1>5. CASE asset' # asset
  <2> DEFINE bytes == SubSeq(s.body, 1, s.written)
  <2>1. asset' = [key |-> s.key, length |-> s.written, hash |-> bytes] /\ Returns(c, "published")
    BY <1>1, <1>5 DEF PublishAsset
  <2>2. object[s.key] = {bytes} /\ s.written \in 1..MaxResultBytes /\ Len(bytes) = s.written
    <3>1. s.written \in Nat /\ MaxResultBytes \in Nat /\ s.body \in Seq(Nat) /\ s.written <= Len(s.body)
      BY <1>2, StreamsAssumption DEF StreamCopy, StreamMeant
    <3>2. Len(bytes) = s.written
      BY <1>3, <3>1
    <3> QED
      BY <1>2, <1>3, <3>1, <3>2 DEF StreamMeant
  <2> HIDE DEF bytes
  <2>3. PublishedProven' /\ AssetMeant'
    BY <1>2, <1>3, <2>1, <2>2 DEF PublishedProven, AssetMeant
  <2> DEFINE next == [s EXCEPT !.pc = "returned", !.result = "published"]
  <2>4. next \in StreamCopy
    BY <1>2 DEF StreamCopy, CopyStages, CopyResults
  <2>5. StreamMeant(next, object)
    BY <1>2, <1>3 DEF StreamCopy, StreamMeant, AtRest, Quiet
  <2>6. copy' = [copy EXCEPT ![c] = next] /\ copy \in [Claims -> StreamCopy]
    BY <1>1, <2>1 DEF Returns, Moves, StreamsInv, StreamsShape
  <2> HIDE DEF next
  <2>7. copy' \in [Claims -> StreamCopy] /\ \A d \in Claims : StreamMeant(copy'[d], object')
    BY <1>2, <2>4, <2>5, <2>6, StreamHere
  <2>8. NoPartRaces'
    BY <2>7 DEF NoPartRaces, StreamMeant, AtRest, Quiet
  <2>9. AuditMeant' /\ AuditWhole'
    BY <1>2, AuditKept DEF ObjectsStay
  <2> QED
    BY <1>2, <2>3, <2>7, <2>8, <2>9 DEF StreamsInv, StreamsShape, StreamsSafe
<1> QED
  BY <1>4, <1>5

\* Nothing of this moves.
LEMMA StreamsRest ==
    ASSUME StreamsInv, UNCHANGED <<copy, object, asset, audit>>
    PROVE  StreamsInv'
<1>1. AuditMeant' /\ AuditWhole'
  BY AuditKept DEF ObjectsStay
<1> QED
  BY <1>1 DEF StreamsInv, StreamsShape, StreamsSafe, AssetMeant, PublishedProven, NoPartRaces
-----------------------------------------------------------------------------
\* A key has one place in the order of keys, and there are finitely many.
LEMMA Positions ==
    /\ Len(StepKeys) \in Nat /\ IsFiniteSet(Range(StepKeys))
    /\ \A k \in Range(StepKeys) : Position(k) \in 1..Len(StepKeys) /\ StepKeys[Position(k)] = k
<1>1. StepKeys \in Seq(Range(StepKeys)) /\ Len(StepKeys) \in Nat /\ DOMAIN StepKeys = 1..Len(StepKeys)
  BY StreamsAssumption
<1>2. \A k \in Range(StepKeys) : Position(k) \in DOMAIN StepKeys /\ StepKeys[Position(k)] = k
  <2> SUFFICES ASSUME NEW k \in Range(StepKeys) PROVE Position(k) \in DOMAIN StepKeys /\ StepKeys[Position(k)] = k
    OBVIOUS
  <2>1. PICK i \in DOMAIN StepKeys : StepKeys[i] = k
    BY DEF Range
  <2> QED
    BY <2>1 DEF Position
<1>3. IsFiniteSet(Range(StepKeys))
  <2>1. StepKeys \in Surjection(1..Len(StepKeys), Range(StepKeys))
    BY <1>1 DEF Surjection, Range
  <2>2. IsFiniteSet(1..Len(StepKeys))
    BY <1>1, FS_Interval
  <2> QED
    BY <2>1, <2>2, FS_Surjection
<1> QED
  BY <1>1, <1>2, <1>3

\* Of some numbers none of which exceeds a bound one is the greatest.
LEMMA Greatest ==
    ASSUME NEW S \in SUBSET Nat, S # {}, NEW bound \in Nat, \A n \in S : n <= bound
    PROVE  Max(S) \in S /\ \A n \in S : n <= Max(S)
<1> DEFINE upper == {b \in Nat : \A n \in S : n <= b}
<1>1. upper # {} /\ upper \subseteq Nat
  OBVIOUS
<1>2. PICK least \in upper : \A b \in upper : least <= b
  <2> HIDE DEF upper
  <2> QED
    BY <1>1, Least
<1>3. least \in S
  <2> SUFFICES ASSUME least \notin S PROVE FALSE
    OBVIOUS
  <2>1. \A n \in S : n \in Nat /\ n < least
    BY <1>2
  <2>2. PICK m \in S : TRUE
    OBVIOUS
  <2>3. least \in Nat /\ least >= 1 /\ least - 1 \in Nat
    BY <1>2, <2>1, <2>2
  <2>4. \A n \in S : n <= least - 1
    BY <2>1, <2>3
  <2>5. least - 1 \in upper
    BY <2>3, <2>4
  <2> QED
    BY <1>2, <2>3, <2>5
<1>4. \A n \in S : least >= n
  BY <1>2
<1>5. \E x \in S : \A y \in S : x >= y
  BY <1>3, <1>4
<1> HIDE DEF upper
<1>6. Max(S) \in S /\ \A y \in S : Max(S) >= y
  BY <1>5 DEF Max
<1> QED
  BY <1>6

\* A page that is not the last holds every key up to its greatest.
LEMMA PageWhole ==
    ASSUME NEW rest \in SUBSET Range(StepKeys), NEW page,
           page = {k \in rest : Cardinality({j \in rest : Position(j) <= Position(k)}) <= PageLimit},
           rest # page
    PROVE  /\ Max({Position(k) : k \in page}) \in Nat
           /\ \A k \in rest \ page : Position(k) > Max({Position(j) : j \in page})
<1> DEFINE UpTo(k) == {j \in rest : Position(j) <= Position(k)}
           places == {Position(k) : k \in page}
<1>1. \A k \in rest : Position(k) \in Nat /\ Position(k) <= Len(StepKeys) /\ StepKeys[Position(k)] = k
  BY Positions
<1>2. IsFiniteSet(rest) /\ PageLimit \in Nat /\ PageLimit >= 1
  BY Positions, FS_Subset, StreamsAssumption
<1>3. \A k \in rest : IsFiniteSet(UpTo(k)) /\ Cardinality(UpTo(k)) \in Nat
  BY <1>2, FS_Subset, FS_CardinalityType
<1>4. page # {}
  <2> DEFINE all == {Position(k) : k \in rest}
  <2>1. all \subseteq Nat /\ all # {}
    BY <1>1
  <2>2. PICK n \in all : \A m \in all : n <= m
    <3> HIDE DEF all
    <3> QED
      BY <2>1, Least
  <2>3. PICK first \in rest : Position(first) = n
    OBVIOUS
  <2>4. UpTo(first) = {first}
    <3> SUFFICES ASSUME NEW j \in rest, Position(j) <= Position(first) PROVE j = first
      BY <1>1
    <3>1. Position(j) \in Nat /\ Position(first) \in Nat /\ Position(j) \in all
      BY <1>1
    <3>2. Position(first) <= Position(j)
      BY <2>2, <2>3, <3>1
    <3>3. Position(j) = Position(first)
      BY <3>1, <3>2
    <3> QED
      BY <1>1, <3>3
  <2>5. Cardinality(UpTo(first)) = 1
    BY <2>4, FS_Singleton
  <2> QED
    BY <1>2, <2>5
<1>5. places \subseteq Nat /\ places # {} /\ \A n \in places : n <= Len(StepKeys)
  <2>1. page \subseteq rest
    OBVIOUS
  <2>2. \A k \in page : Position(k) \in Nat /\ Position(k) <= Len(StepKeys)
    BY <1>1, <2>1
  <2>3. places # {}
    BY <1>4
  <2> QED
    BY <2>2, <2>3
<1>6. Max(places) \in places /\ \A n \in places : n <= Max(places)
  <2> HIDE DEF places
  <2> QED
    BY <1>5, Greatest, Positions
<1>7. PICK top \in page : Position(top) = Max(places)
  BY <1>6
<1>8. ASSUME NEW k \in rest \ page, ~(Position(k) > Max(places)) PROVE FALSE
  <2>1. Position(k) <= Position(top) /\ k \in rest /\ top \in rest
    BY <1>1, <1>7, <1>8
  <2>2. UpTo(k) \subseteq UpTo(top)
    BY <1>1, <2>1
  <2>3. Cardinality(UpTo(k)) <= Cardinality(UpTo(top))
    BY <1>3, <2>1, <2>2, FS_Subset
  <2>4. Cardinality(UpTo(top)) <= PageLimit
    OBVIOUS
  <2>5. Cardinality(UpTo(k)) \in Nat /\ Cardinality(UpTo(top)) \in Nat
    BY <1>3, <2>1
  <2>6. Cardinality(UpTo(k)) <= PageLimit
    <3> HIDE DEF UpTo
    <3> QED
      BY <1>2, <2>3, <2>4, <2>5
  <2> QED
    BY <1>8, <2>1, <2>6
<1> QED
  BY <1>5, <1>6, <1>8

LEMMA AuditPages ==
    ASSUME StreamsInv, AuditPage
    PROVE  StreamsInv'
<1> DEFINE rest == After(audit.cursor)
           page == {k \in rest : Cardinality({j \in rest : Position(j) <= Position(k)}) <= PageLimit}
           end == Max({Position(k) : k \in page})
<1>1. /\ audit \in AuditShape /\ AuditMeant /\ audit.pc \in {"idle", "next"}
      /\ UNCHANGED <<copy, upload, object, asset, event>>
  BY DEF StreamsInv, StreamsShape, AuditPage
<1>2. rest \subseteq Held /\ Held \subseteq Range(StepKeys) /\ page \subseteq rest
  BY DEF After, Held
<1>3. PICK pc \in {"last", "page"}, cursor \in {audit.cursor, end}, before \in {Held, audit.before} :
         /\ audit' = [audit EXCEPT !.pc = pc, !.page = page, !.cursor = cursor, !.before = before]
         /\ pc = (IF rest = page THEN "last" ELSE "page")
         /\ cursor = (IF rest = page THEN audit.cursor ELSE end)
         /\ before = (IF audit.pc = "idle" THEN Held ELSE audit.before)
  BY DEF AuditPage
<1>4. /\ rest # page => end \in Nat /\ \A k \in rest \ page : Position(k) > end
  <2>1. rest \in SUBSET Range(StepKeys)
    BY <1>2
  <2> HIDE DEF rest
  <2> QED
    BY <2>1, PageWhole
<1>5. \A k \in before : k \in audit.scanned \/ k \in rest
  <2>1. CASE audit.pc = "idle"
    <3>1. audit.cursor = 0 /\ before = Held
      BY <1>1, <1>3, <2>1 DEF AuditMeant
    <3>2. \A k \in Held : Position(k) > 0
      BY <1>2, Positions
    <3> QED
      BY <3>1, <3>2 DEF After
  <2>2. CASE audit.pc = "next"
    <3>1. before = audit.before /\ before \subseteq Held
      BY <1>1, <1>3, <2>2 DEF AuditMeant
    <3> QED
      BY <1>1, <2>2, <3>1 DEF AuditMeant, After
  <2> QED
    BY <1>1, <2>1, <2>2
<1>6. before \subseteq Held /\ cursor \in Nat
  BY <1>1, <1>3, <1>4 DEF AuditMeant, AuditShape
<1>7. pc = "last" => rest = page
  BY <1>3
<1>8. pc = "page" => rest # page /\ cursor = end
  BY <1>3
<1> HIDE DEF rest, page, end
<1>9. audit' \in AuditShape
  BY <1>1, <1>2, <1>3, <1>6 DEF AuditShape
<1>10. /\ audit'.pc = pc /\ audit'.page = page /\ audit'.cursor = cursor /\ audit'.before = before
       /\ audit'.scanned = audit.scanned
  BY <1>1, <1>3 DEF AuditShape
<1>11. AuditMeant'
  <2>1. Held' = Held
    BY <1>1 DEF Held
  <2>2. pc = "page" => \A k \in before : k \in audit.scanned \/ k \in page \/ Position(k) > cursor
    BY <1>4, <1>5, <1>8
  <2>3. pc = "last" => before \subseteq audit.scanned \cup page
    BY <1>5, <1>7
  <2> QED
    BY <1>6, <1>10, <2>1, <2>2, <2>3 DEF AuditMeant, Position
<1>12. AuditWhole'
  BY <1>10 DEF AuditWhole
<1> QED
  BY <1>1, <1>9, <1>11, <1>12 DEF StreamsInv, StreamsShape, StreamsSafe, AssetMeant, PublishedProven, NoPartRaces

LEMMA AuditCompares ==
    ASSUME StreamsInv, AuditCompare
    PROVE  StreamsInv'
<1>1. /\ audit \in AuditShape /\ AuditMeant /\ audit.pc \in {"page", "last"}
      /\ UNCHANGED <<copy, upload, object, asset, event>>
  BY DEF StreamsInv, StreamsShape, AuditCompare
<1>2. PICK pc \in {"complete", "next"}, scanned \in {audit.scanned \cup audit.page},
              orphans \in {audit.orphans \cup (audit.page \ PublishedAmong(audit.page))} :
         /\ audit' = [audit EXCEPT !.pc = pc, !.scanned = scanned, !.orphans = orphans]
         /\ pc = (IF audit.pc = "last" THEN "complete" ELSE "next")
  BY DEF AuditCompare
<1>3. scanned \in SUBSET Range(StepKeys) /\ orphans \in SUBSET Range(StepKeys)
  BY <1>1, <1>2 DEF AuditShape, PublishedAmong
<1>4. audit' \in AuditShape
  BY <1>1, <1>2, <1>3 DEF AuditShape
<1>5. /\ audit'.pc = pc /\ audit'.page = audit.page /\ audit'.cursor = audit.cursor /\ audit'.before = audit.before
      /\ audit'.scanned = scanned
  BY <1>1, <1>2 DEF AuditShape
<1>6. Held' = Held
  BY <1>1 DEF Held
<1>7. AuditMeant' /\ AuditWhole'
  BY <1>1, <1>2, <1>5, <1>6 DEF AuditMeant, AuditWhole, Position
<1> QED
  BY <1>1, <1>4, <1>7 DEF StreamsInv, StreamsShape, StreamsSafe, AssetMeant, PublishedProven, NoPartRaces
-----------------------------------------------------------------------------
LEMMA StreamsBegin == StreamsInit => StreamsInv
<1> SUFFICES ASSUME StreamsInit PROVE StreamsInv
  OBVIOUS
<1>1. copy \in [Claims -> StreamCopy] /\ \A c \in Claims : copy[c] = NotStarted
  BY NothingStarted DEF StreamsInit
<1>2. StreamMeant(NotStarted, object)
  <2>1. NotStarted.pc = "idle" /\ NotStarted.written = 0 /\ NotStarted.body = << >>
    BY DEF NotStarted
  <2>2. Len(NotStarted.body) = 0 /\ MaxResultBytes \in Nat
    BY <2>1, StreamsAssumption
  <2> QED
    BY <2>1, <2>2, NothingStarted DEF StreamMeant, AtRest
<1>3. audit \in AuditShape /\ AuditMeant /\ AuditWhole
  BY DEF StreamsInit, AuditShape, AuditMeant, AuditWhole
<1>4. object = [k \in Range(StepKeys) |-> object[k]] /\ asset = None
  BY DEF StreamsInit
<1>5. PublishedProven /\ AssetMeant
  BY <1>4 DEF PublishedProven, AssetMeant
<1>6. NoPartRaces
  BY <1>1, NothingStarted DEF NoPartRaces, Quiet
<1> QED
  BY <1>1, <1>2, <1>3, <1>4, <1>5, <1>6 DEF StreamsInv, StreamsShape, StreamsSafe

LEMMA StreamsSteps == StreamsInv /\ [StreamsNext]_streamVars => StreamsInv'
<1> SUFFICES ASSUME StreamsInv, [StreamsNext]_streamVars PROVE StreamsInv'
  OBVIOUS
<1>1. CASE UNCHANGED streamVars
  BY <1>1, StreamsRest DEF streamVars
<1>2. ASSUME NEW c \in Claims, Dispatch(c) PROVE StreamsInv'
  BY <1>2, PartHandedOver DEF Dispatch
<1>3. ASSUME NEW c \in Claims, Settle(c) PROVE StreamsInv'
  BY <1>3, StreamsRest DEF Settle
<1> QED
  BY <1>1, <1>2, <1>3, Begins, LeaseLost, Writes, WorkerActs, Ends, Completes, Verifies, Stops, Publishes,
     AuditPages, AuditCompares
     DEF StreamsNext

LEMMA StreamsInvariant == StreamsSpec => []StreamsInv
<1> QED
  BY StreamsBegin, StreamsSteps, PTL DEF StreamsSpec

\* StreamsSafe: a published object is there as it was proven, nothing of a
\* stream runs where it was committed or given up, and a complete audit has
\* seen all that was there when it began.
THEOREM StreamsStaySafe == StreamsSpec => []StreamsSafe
<1>1. StreamsInv => StreamsSafe
  BY DEF StreamsInv
<1> QED
  BY <1>1, StreamsInvariant, PTL

\* StoresSafe: whatever is stored keeps its meaning, in every interleaving of
\* the three components.
THEOREM StoresStaySafe == StoresSpec => []StoresSafe
<1> QED
  BY StreamsStaySafe, RetentionStaysSafe, JobsStayUnique, PTL DEF StoresSpec, StoresSafe
-----------------------------------------------------------------------------
(* Applications.                                                             *)

AppFields == DOMAIN NoApp
EditFields == DOMAIN NoEdit

\* A document of the collection, or what a request read of one.
AppTyped(app) ==
    /\ DOMAIN app = AppFields
    /\ app.clientId \in Identifiers \cup {NoId} /\ app.packageName \in Identifiers \cup {NoId}
    /\ app.applicationId \in Identifiers \cup {NoId}
    /\ app.claims \subseteq Identifiers /\ app.builds \subseteq AppRequests
    /\ app.page \in PageVersions \cup {NoId}

ConfigTyped(config) ==
    /\ DOMAIN config = {"review", "policy", "enabled"}
    /\ config.review \in ReviewModes \cup {"none"}

EditPlaces == {"ready", "read", "checked", "configured", "ok", "notFound", "conflict", "invalid", "error"}

\* What a request under way carries: the document and the patch it was given.
EditTyped(e) ==
    /\ DOMAIN e = EditFields /\ e.at \in EditPlaces /\ AppTyped(e.saw) /\ ConfigTyped(e.config)
    /\ e.kind \in AppKinds \cup {"create"} => e.app \in Apps
    /\ e.kind = "update" => e.patch \in Editable
    /\ e.kind \in {"package", "review"} => e.patch \in AppValues[e.kind]

\* An editor's application stays registered; a creation has its application for
\* itself, and nobody finds it before it is written.
EditPlaced(r) ==
    /\ edits[r].kind \in AppKinds => apps[edits[r].app].platform # "none"
    /\ edits[r].kind = "create" =>
        /\ apps[edits[r].app] = NoApp /\ edits[r].saw.page = NoId /\ edits[r].saw.platform # "none"
        /\ \A q \in AppRequests \ {r} : edits[q].kind = "create" => edits[q].app # edits[r].app

AppsInv ==
    /\ DOMAIN apps = Apps /\ DOMAIN platformConfigs = PlatformKeys /\ DOMAIN edits = AppRequests
    /\ \A a \in Apps : AppTyped(apps[a]) /\ (apps[a] = NoApp \/ apps[a].platform # "none")
    /\ \A k \in PlatformKeys : ConfigTyped(platformConfigs[k])
    /\ \A r \in AppRequests : EditTyped(edits[r]) /\ EditPlaced(r)
    /\ ClaimsDisjoint
-----------------------------------------------------------------------------
LEMMA EmptyApp ==
    AppTyped(NoApp) /\ NoApp.platform = "none" /\ NoApp.page = NoId /\ NoApp.claims = {} /\ ConfigTyped(NoConfig)
BY DEF AppTyped, AppFields, NoApp, ConfigTyped, NoConfig

LEMMA IdleEdit ==
    EditTyped(NoEdit) /\ NoEdit.kind = "none"
<1>1. NoEdit.saw = NoApp /\ NoEdit.config = NoConfig /\ NoEdit.at = "ready" /\ NoEdit.kind = "none"
  BY DEF NoEdit
<1> QED
  BY <1>1, EmptyApp DEF EditTyped, EditFields, EditPlaces, AppKinds

LEMMA AppsBegin == AppsInit => AppsInv
<1> SUFFICES ASSUME AppsInit PROVE AppsInv
  OBVIOUS
<1>1. apps \in [Apps -> {NoApp} \cup {ValidateCreate(p, NoId, b, NoId) : p \in Platforms, b \in Bundles}]
  BY DEF AppsInit
<1>2. ASSUME NEW a \in Apps
      PROVE  AppTyped(apps[a]) /\ apps[a].claims = {} /\ (apps[a] = NoApp \/ apps[a].platform # "none")
  <2>1. CASE apps[a] = NoApp
    BY <2>1, EmptyApp
  <2>2. CASE \E p \in Platforms, b \in Bundles : apps[a] = ValidateCreate(p, NoId, b, NoId)
    BY <2>2 DEF ValidateCreate, NoApp, AppTyped, AppFields, Platforms
  <2> QED
    BY <1>1, <2>1, <2>2
<1>3. DOMAIN apps = Apps /\ DOMAIN platformConfigs = PlatformKeys /\ DOMAIN edits = AppRequests
  BY <1>1 DEF AppsInit
<1>4. \A r \in AppRequests : edits[r] = NoEdit
  BY DEF AppsInit
<1>5. \A k \in PlatformKeys : platformConfigs[k] = NoConfig
  BY DEF AppsInit
<1>6. \A r \in AppRequests : EditTyped(edits[r]) /\ EditPlaced(r)
  BY <1>4, IdleEdit DEF EditPlaced, AppKinds
<1> QED
  BY <1>2, <1>3, <1>5, <1>6, EmptyApp DEF AppsInv, ClaimsDisjoint

\* A request is answered: it forgets what it read.
LEMMA Answered ==
    ASSUME AppsInv, NEW r \in AppRequests, NEW result \in EditPlaces, Answer(r, result)
    PROVE  /\ DOMAIN edits' = AppRequests /\ EditTyped(edits'[r]) /\ edits'[r].kind = "none"
           /\ \A q \in AppRequests \ {r} : edits'[q] = edits[q]
<1>1. edits'[r] = [NoEdit EXCEPT !.at = result]
  BY DEF Answer, AppsInv
<1>2. EditTyped([NoEdit EXCEPT !.at = result]) /\ [NoEdit EXCEPT !.at = result].kind = "none"
  BY IdleEdit DEF EditTyped, EditFields, NoEdit
<1> QED
  BY <1>1, <1>2 DEF Answer, AppsInv

\* A document is written with fields that fit: the others stay.
LEMMA StoredFits ==
    ASSUME AppsInv, NEW a \in Apps, NEW fields, NEW from, StoreApp(a, fields, from)
    PROVE  /\ DOMAIN apps' = Apps /\ \A b \in Apps \ {a} : apps'[b] = apps[b]
           /\ DOMAIN apps'[a] = AppFields
           /\ \A f \in AppFields : apps'[a][f] = IF f \in fields THEN from[f] ELSE apps[a][f]
BY DEF StoreApp, AppsInv, AppFields

\* Requests and documents move so that everything still fits.
LEMMA AppsMove ==
    ASSUME AppsInv, NEW r \in AppRequests, NEW a \in Apps,
           DOMAIN edits' = AppRequests, EditTyped(edits'[r]), edits'[r].kind # "create",
           \A q \in AppRequests \ {r} : edits'[q] = edits[q],
           DOMAIN apps' = Apps, \A b \in Apps \ {a} : apps'[b] = apps[b],
           AppTyped(apps'[a]),
           \A b \in Apps \ {a} : apps[b].claims \cap apps'[a].claims = {},
           edits'[r].kind \notin AppKinds \/ edits'[r].app = a,
           apps'[a].platform # "none",
           apps[a].platform # "none" \/ (edits[r].kind = "create" /\ edits[r].app = a),
           DOMAIN platformConfigs' = PlatformKeys,
           \A k \in PlatformKeys : ConfigTyped(platformConfigs'[k])
    PROVE  AppsInv'
<1>1. ASSUME NEW q \in AppRequests PROVE EditPlaced(q)'
  <2>1. CASE q = r
    BY <2>1 DEF EditPlaced
  <2>2. CASE q # r
    <3>1. edits'[q] = edits[q] /\ EditPlaced(q) /\ EditPlaced(r) /\ EditTyped(edits[q])
      BY <2>2 DEF AppsInv
    <3>2. ASSUME edits[q].kind = "create" PROVE apps'[edits[q].app] = NoApp
      <4>1. CASE edits[q].app = a
        BY <2>2, <3>1, <3>2, <4>1, EmptyApp DEF EditPlaced
      <4>2. CASE edits[q].app # a
        BY <3>1, <3>2, <4>2 DEF EditPlaced, EditTyped
      <4> QED
        BY <4>1, <4>2
    <3>3. ASSUME edits[q].kind \in AppKinds PROVE apps'[edits[q].app].platform # "none"
      BY <3>1, <3>3 DEF EditPlaced, EditTyped
    <3> QED
      BY <3>1, <3>2, <3>3 DEF EditPlaced
  <2> QED
    BY <2>1, <2>2
<1>2. \A q \in AppRequests : EditTyped(edits'[q])
  BY DEF AppsInv
<1>3. ClaimsDisjoint'
  BY DEF AppsInv, ClaimsDisjoint
<1>4. \A b \in Apps : AppTyped(apps'[b])
  BY DEF AppsInv
<1> QED
  BY <1>1, <1>2, <1>3, <1>4 DEF AppsInv, EditTyped, AppTyped, ConfigTyped

\* Only requests and platform configurations move.
LEMMA EditMoves ==
    ASSUME AppsInv, NEW r \in AppRequests, UNCHANGED apps,
           DOMAIN edits' = AppRequests, EditTyped(edits'[r]), EditPlaced(r)',
           \A q \in AppRequests \ {r} : edits'[q] = edits[q],
           DOMAIN platformConfigs' = PlatformKeys,
           \A k \in PlatformKeys : ConfigTyped(platformConfigs'[k])
    PROVE  AppsInv'
<1>1. ASSUME NEW q \in AppRequests PROVE EditPlaced(q)'
  <2>1. CASE q # r
    BY <2>1 DEF EditPlaced, AppsInv
  <2> QED
    BY <2>1
<1>2. \A q \in AppRequests : EditTyped(edits'[q])
  BY DEF AppsInv
<1> QED
  BY <1>1, <1>2 DEF AppsInv, EditTyped, AppTyped, ConfigTyped, ClaimsDisjoint

\* A request is answered and nothing else moves but platform configurations.
LEMMA AnswerMoves ==
    ASSUME AppsInv, NEW r \in AppRequests, NEW result \in EditPlaces, Answer(r, result), UNCHANGED apps,
           DOMAIN platformConfigs' = PlatformKeys,
           \A k \in PlatformKeys : ConfigTyped(platformConfigs'[k])
    PROVE  AppsInv'
<1>1. EditPlaced(r)'
  BY Answered DEF EditPlaced, AppKinds
<1> QED
  BY <1>1, Answered, EditMoves

\* A request goes on to another place of its program.
LEMMA Went ==
    ASSUME AppsInv, NEW r \in AppRequests, NEW at \in EditPlaces, Goto(r, at)
    PROVE  /\ DOMAIN edits' = AppRequests /\ EditTyped(edits'[r])
           /\ edits'[r].kind = edits[r].kind /\ edits'[r].app = edits[r].app /\ edits'[r].saw = edits[r].saw
           /\ \A q \in AppRequests \ {r} : edits'[q] = edits[q]
<1>1. EditTyped(edits[r]) /\ edits' = [edits EXCEPT ![r].at = at] /\ DOMAIN edits = AppRequests
  BY DEF AppsInv, Goto
<1>2. edits'[r] = [edits[r] EXCEPT !.at = at]
  BY <1>1
<1> QED
  BY <1>1, <1>2 DEF EditTyped, EditFields, NoEdit

LEMMA GoingMoves ==
    ASSUME AppsInv, NEW r \in AppRequests, NEW at \in EditPlaces, Goto(r, at), UNCHANGED apps,
           DOMAIN platformConfigs' = PlatformKeys,
           \A k \in PlatformKeys : ConfigTyped(platformConfigs'[k])
    PROVE  AppsInv'
<1>1. EditPlaced(r) /\ EditPlaced(r)'
  BY Went DEF EditPlaced, AppsInv
<1> QED
  BY <1>1, Went, EditMoves
-----------------------------------------------------------------------------
\* Requests that begin.
LEMMA EditBegins ==
    ASSUME AppsInv, NEW r \in AppRequests, NEW a \in Apps, NEW kind \in AppKinds, NEW patch,
           ReadApp(r, a, kind, patch),
           kind = "update" => patch \in Editable,
           kind \in {"package", "review"} => patch \in AppValues[kind]
    PROVE  AppsInv'
<1>1. UNCHANGED <<apps, platformConfigs>> /\ \A k \in PlatformKeys : ConfigTyped(platformConfigs'[k])
  BY DEF ReadApp, AppsInv
<1>2. CASE a \in Registered
  <2>1. EditTyped(edits[r]) /\ DOMAIN edits = AppRequests /\ AppTyped(apps[a])
    BY DEF AppsInv
  <2>2. /\ DOMAIN edits' = AppRequests /\ \A q \in AppRequests \ {r} : edits'[q] = edits[q]
        /\ edits'[r] = [edits[r] EXCEPT !.kind = kind, !.at = "read", !.app = a,
                                        !.saw = apps[a], !.patch = patch]
    BY <1>2, <2>1 DEF ReadApp
  <2>3. /\ DOMAIN edits'[r] = EditFields /\ edits'[r].kind = kind /\ edits'[r].at = "read" /\ edits'[r].app = a
        /\ edits'[r].saw = apps[a] /\ edits'[r].patch = patch /\ edits'[r].config = edits[r].config
    BY <2>1, <2>2 DEF EditTyped, EditFields, NoEdit
  <2>4. EditTyped(edits'[r])
    BY <2>1, <2>3 DEF EditTyped, EditPlaces
  <2>5. EditPlaced(r)'
    BY <1>1, <1>2, <2>3 DEF EditPlaced, AppKinds, AppsInv, Registered
  <2> QED
    BY <1>1, <2>2, <2>4, <2>5, EditMoves DEF AppsInv
<1>3. CASE a \notin Registered
  <2>1. Answer(r, "notFound")
    BY <1>3 DEF ReadApp
  <2> QED
    BY <1>1, <2>1, AnswerMoves DEF AppsInv, EditPlaces
<1> QED
  BY <1>2, <1>3

LEMMA CreationBegins ==
    ASSUME AppsInv, NEW r \in AppRequests, NEW a \in Apps,
           NEW p \in Platforms, NEW c \in Identifiers \cup {NoId}, NEW n \in Identifiers \cup {NoId}, NEW b,
           BeginCreate(r, a, ValidateCreate(p, c, b, n))
    PROVE  AppsInv'
<1>1. UNCHANGED <<apps, platformConfigs>> /\ \A k \in PlatformKeys : ConfigTyped(platformConfigs'[k])
  BY DEF BeginCreate, AppsInv
<1>2. PICK app : app = ValidateCreate(p, c, b, n)
  OBVIOUS
<1>3. AppTyped(app) /\ app.page = NoId /\ app.platform # "none"
  BY <1>2 DEF ValidateCreate, NoApp, AppTyped, AppFields, Platforms
<1>4. EditTyped(edits[r]) /\ DOMAIN edits = AppRequests
  BY DEF AppsInv
<1>5. /\ DOMAIN edits' = AppRequests /\ \A q \in AppRequests \ {r} : edits'[q] = edits[q]
      /\ edits'[r] = [edits[r] EXCEPT !.kind = "create", !.at = "read", !.app = a, !.saw = app]
      /\ a \notin Registered /\ \A q \in AppRequests : ~(edits[q].kind = "create" /\ edits[q].app = a)
  BY <1>2, <1>4 DEF BeginCreate
<1>6. /\ DOMAIN edits'[r] = EditFields /\ edits'[r].kind = "create" /\ edits'[r].at = "read" /\ edits'[r].app = a
      /\ edits'[r].saw = app /\ edits'[r].config = edits[r].config
  BY <1>4, <1>5 DEF EditTyped, EditFields, NoEdit
<1>7. EditTyped(edits'[r])
  BY <1>3, <1>4, <1>6 DEF EditTyped, EditPlaces
<1>8. EditPlaced(r)'
  BY <1>1, <1>3, <1>5, <1>6 DEF EditPlaced, Registered, AppKinds
<1> QED
  BY <1>1, <1>5, <1>7, <1>8, EditMoves DEF AppsInv

LEMMA ChecksFree ==
    ASSUME AppsInv, NEW r \in AppRequests, CheckFree(r)
    PROVE  AppsInv'
<1>1. UNCHANGED <<apps, platformConfigs>> /\ \A k \in PlatformKeys : ConfigTyped(platformConfigs'[k])
  BY DEF CheckFree, AppsInv
<1>2. Goto(r, "checked") \/ Answer(r, "conflict")
  BY DEF CheckFree
<1> QED
  BY <1>1, <1>2, GoingMoves, AnswerMoves DEF AppsInv, EditPlaces

-----------------------------------------------------------------------------
\* Platform configurations.
LEMMA ConfigWritten ==
    ASSUME AppsInv, NEW key, NEW config, ConfigTyped(config),
           platformConfigs' = [platformConfigs EXCEPT ![key] = config]
    PROVE  /\ DOMAIN platformConfigs' = PlatformKeys
           /\ \A k \in PlatformKeys : ConfigTyped(platformConfigs'[k])
BY DEF AppsInv

LEMMA PatchedFits ==
    ASSUME NEW config, ConfigTyped(config), NEW patch
    PROVE  ConfigTyped(Patched(config, patch))
BY DEF ConfigTyped, Patched

LEMMA PlatformsMove ==
    ASSUME AppsInv, NEW r \in AppRequests, DispatchPlatforms(r)
    PROVE  AppsInv'
<1>1. ASSUME NEW key \in PlatformKeys, NEW patch \in PolicyPatches, UpdatePlatformConfig(r, key, patch)
      PROVE  AppsInv'
  <2>1. PICK config : config = IF platformConfigs[key] = NoConfig
                               THEN [platformConfigs[key] EXCEPT !.enabled = TRUE] ELSE platformConfigs[key]
    OBVIOUS
  <2>2. ConfigTyped(platformConfigs[key])
    BY DEF AppsInv
  <2>3. ConfigTyped(config)
    BY <2>1, <2>2 DEF ConfigTyped
  <2>4. platformConfigs' = [platformConfigs EXCEPT ![key] = Patched(config, patch)]
    BY <1>1, <2>1 DEF UpdatePlatformConfig
  <2>5. Answer(r, "ok") /\ UNCHANGED apps
    BY <1>1 DEF UpdatePlatformConfig
  <2> QED
    BY <2>3, <2>4, <2>5, PatchedFits, ConfigWritten, AnswerMoves DEF EditPlaces
<1>2. ASSUME NEW key \in PlatformKeys, DeletePlatformConfig(r, key)
      PROVE  AppsInv'
  <2>1. platformConfigs' = [platformConfigs EXCEPT ![key] = NoConfig] /\ UNCHANGED apps
    BY <1>2 DEF DeletePlatformConfig
  <2>2. Answer(r, "notFound") \/ Answer(r, "ok")
    BY <1>2 DEF DeletePlatformConfig
  <2> QED
    BY <2>1, <2>2, EmptyApp, ConfigWritten, AnswerMoves DEF EditPlaces
<1>3. ASSUME NEW kind \in ConfigKinds, NEW from \in PlatformKeys, NEW to \in PlatformKeys, NEW patch,
             GetPlatformConfig(r, kind, from, to, patch)
      PROVE  AppsInv'
  <2>1. UNCHANGED <<apps, platformConfigs>> /\ \A k \in PlatformKeys : ConfigTyped(platformConfigs'[k])
        /\ DOMAIN platformConfigs' = PlatformKeys
    BY <1>3 DEF GetPlatformConfig, AppsInv
  <2>2. CASE Answer(r, "notFound")
    BY <2>1, <2>2, AnswerMoves DEF EditPlaces
  <2>3. CASE edits' = [edits EXCEPT ![r] = [@ EXCEPT !.kind = kind, !.at = "read", !.key = to,
                                                    !.config = platformConfigs[from], !.patch = patch]]
    <3>1. EditTyped(edits[r]) /\ DOMAIN edits = AppRequests /\ ConfigTyped(platformConfigs[from])
      BY DEF AppsInv
    <3>2. /\ DOMAIN edits' = AppRequests /\ \A q \in AppRequests \ {r} : edits'[q] = edits[q]
          /\ edits'[r] = [edits[r] EXCEPT !.kind = kind, !.at = "read", !.key = to,
                                          !.config = platformConfigs[from], !.patch = patch]
      BY <2>3, <3>1
    <3>3. /\ DOMAIN edits'[r] = EditFields /\ edits'[r].kind = kind /\ edits'[r].at = "read"
          /\ edits'[r].saw = edits[r].saw /\ edits'[r].config = platformConfigs[from]
      BY <3>1, <3>2 DEF EditTyped, EditFields, NoEdit
    <3>4. EditTyped(edits'[r]) /\ EditPlaced(r)'
      BY <3>1, <3>3 DEF EditTyped, EditPlaces, ConfigKinds, AppKinds, EditPlaced
    <3> QED
      BY <2>1, <3>2, <3>4, EditMoves
  <2> QED
    BY <1>3, <2>2, <2>3 DEF GetPlatformConfig
<1>4. ASSUME PatchPlatformConfig(r) PROVE AppsInv'
  <2>1. UNCHANGED apps /\ EditTyped(edits[r])
    BY <1>4 DEF PatchPlatformConfig, AppsInv
  <2>2. CASE UNCHANGED platformConfigs /\ Answer(r, "invalid")
    BY <2>1, <2>2, AnswerMoves DEF EditPlaces, AppsInv
  <2>3. CASE /\ platformConfigs' = [platformConfigs EXCEPT ![edits[r].key] =
                 [Patched(edits[r].config, edits[r].patch) EXCEPT !.review = platformConfigs[edits[r].key].review]]
             /\ Answer(r, "ok")
    <3>1. PICK config : config = Patched(edits[r].config, edits[r].patch)
      OBVIOUS
    <3>2. ConfigTyped(config)
      BY <2>1, <3>1, PatchedFits DEF EditTyped
    <3>3. PICK key, next : key = edits[r].key /\ next = [config EXCEPT !.review = platformConfigs[key].review]
      OBVIOUS
    <3>4. platformConfigs' = [platformConfigs EXCEPT ![key] = next]
      BY <2>3, <3>1, <3>3
    <3>5. key \in PlatformKeys => ConfigTyped(next)
      BY <3>2, <3>3 DEF AppsInv, ConfigTyped
    <3>6. /\ DOMAIN platformConfigs' = PlatformKeys
          /\ \A k \in PlatformKeys : ConfigTyped(platformConfigs'[k])
      BY <3>4, <3>5 DEF AppsInv
    <3> QED
      BY <2>1, <2>3, <3>6, AnswerMoves DEF EditPlaces
  <2> QED
    BY <1>4, <2>2, <2>3 DEF PatchPlatformConfig
<1>5. ASSUME ClonePlatformConfig(r) PROVE AppsInv'
  <2>1. PICK key, config : key = edits[r].key /\ config = edits[r].config
    OBVIOUS
  <2>2. /\ platformConfigs' = [platformConfigs EXCEPT ![key].policy = config.policy, ![key].enabled = config.enabled]
        /\ Answer(r, "ok") /\ UNCHANGED apps
    BY <1>5, <2>1 DEF ClonePlatformConfig
  <2>3. DOMAIN platformConfigs' = PlatformKeys
    BY <2>2 DEF AppsInv
  <2>4. ASSUME NEW k \in PlatformKeys PROVE ConfigTyped(platformConfigs'[k])
    <3>1. ConfigTyped(platformConfigs[k])
      BY DEF AppsInv
    <3>2. /\ DOMAIN platformConfigs'[k] = DOMAIN platformConfigs[k]
          /\ platformConfigs'[k].review = platformConfigs[k].review
      BY <2>2, <3>1 DEF AppsInv, ConfigTyped
    <3> QED
      BY <3>1, <3>2 DEF ConfigTyped
  <2> QED
    BY <2>2, <2>3, <2>4, AnswerMoves DEF EditPlaces
<1> QED
  BY <1>1, <1>2, <1>3, <1>4, <1>5 DEF DispatchPlatforms, ConfigKinds

-----------------------------------------------------------------------------
\* No page is taken down.
PagesStay == \A a \in Apps : apps'[a].page = NoId => apps[a].page = NoId

Names == {"clientId", "packageName", "applicationId"}

\* A document is written by an editor of it, with fields that fit.
LEMMA StoreMoves ==
    ASSUME AppsInv, NEW r \in AppRequests, NEW a, a = edits[r].app, edits[r].kind \in AppKinds,
           NEW fields, NEW from, StoreApp(a, fields, from), Answer(r, "ok"), UNCHANGED platformConfigs,
           "platform" \notin fields, "page" \notin fields,
           \A f \in Names : f \in fields => from[f] \in Identifiers \cup {NoId},
           "builds" \in fields => from.builds \subseteq AppRequests,
           "claims" \in fields => from.claims \subseteq Identifiers /\ IndexAdmits(a, from.claims)
    PROVE  AppsInv' /\ PagesStay
<1>1. a \in Apps /\ apps[a].platform # "none" /\ AppTyped(apps[a]) /\ DOMAIN apps = Apps
  BY DEF AppsInv, EditTyped, EditPlaced
<1>2. /\ DOMAIN apps' = Apps /\ \A b \in Apps \ {a} : apps'[b] = apps[b]
      /\ DOMAIN apps'[a] = AppFields
      /\ \A f \in AppFields : apps'[a][f] = IF f \in fields THEN from[f] ELSE apps[a][f]
  BY <1>1, StoredFits
<1>3. Names \cup {"platform", "page", "builds", "claims"} \subseteq AppFields
  BY DEF Names, AppFields, NoApp
<1>4. apps'[a].platform = apps[a].platform /\ apps'[a].page = apps[a].page
  BY <1>2, <1>3
<1>5. \A f \in Names : apps'[a][f] \in Identifiers \cup {NoId}
  BY <1>1, <1>2, <1>3 DEF AppTyped, Names
<1>6. apps'[a].claims \subseteq Identifiers /\ apps'[a].builds \subseteq AppRequests
  BY <1>1, <1>2, <1>3 DEF AppTyped
<1>7. AppTyped(apps'[a])
  BY <1>1, <1>2, <1>4, <1>5, <1>6 DEF AppTyped, Names
<1>8. \A b \in Apps \ {a} : apps[b].claims \cap apps'[a].claims = {}
  BY <1>1, <1>2, <1>3 DEF IndexAdmits, AppsInv, ClaimsDisjoint
<1>9. AppsInv'
  <2>1. /\ DOMAIN edits' = AppRequests /\ EditTyped(edits'[r]) /\ edits'[r].kind = "none"
        /\ \A q \in AppRequests \ {r} : edits'[q] = edits[q]
    BY Answered DEF EditPlaces
  <2>2. edits'[r].kind # "create" /\ edits'[r].kind \notin AppKinds
    BY <2>1 DEF AppKinds
  <2>3. DOMAIN platformConfigs' = PlatformKeys /\ \A k \in PlatformKeys : ConfigTyped(platformConfigs'[k])
    BY DEF AppsInv
  <2> QED
    BY <1>1, <1>2, <1>4, <1>7, <1>8, <2>1, <2>2, <2>3, AppsMove
<1> QED
  BY <1>2, <1>4, <1>9 DEF PagesStay

\* What claims are computed from has names that are names.
LEMMA ClaimsAreNames ==
    ASSUME NEW app, \A f \in Names : app[f] \in Identifiers \cup {NoId}
    PROVE  NativeIdentifiers(app) \subseteq Identifiers
BY DEF NativeIdentifiers, Names

LEMMA EffectiveFits ==
    ASSUME NEW e, EditTyped(e), e.kind \in {"update", "package"}
    PROVE  /\ DOMAIN Effective(e) = AppFields
           /\ \A f \in Names : Effective(e)[f] \in Identifiers \cup {NoId}
<1>1. DOMAIN e.saw = AppFields /\ \A f \in Names : e.saw[f] \in Identifiers \cup {NoId}
  BY DEF EditTyped, AppTyped, Names
<1>2. CASE e.kind = "update"
  <2>1. Effective(e) = ValidateUpdate(e.saw, e.patch)
    BY <1>2 DEF Effective
  <2>2. e.patch[1] \in UpdatableFields
        /\ (e.patch[1] \in {"clientId", "packageName"} => e.patch[2] \in Identifiers \cup {NoId})
    BY <1>2, AppsAssumption DEF EditTyped
  <2>3. CASE e.patch[1] = "nativeConfig"
    BY <1>1, <2>1, <2>3 DEF ValidateUpdate, ApplyNativeConfigUpdate, Names
  <2>4. CASE e.patch[1] # "nativeConfig"
    BY <1>1, <2>1, <2>2, <2>4 DEF ValidateUpdate, Common, Names, UpdatableFields
  <2> QED
    BY <2>3, <2>4
<1>3. CASE e.kind = "package"
  <2>1. Effective(e) = [e.saw EXCEPT !.packageName = e.patch[1], !.applicationId = e.patch[1],
                                     !.bundleId = e.patch[2]]
    BY <1>3 DEF Effective
  <2>2. e.patch[1] \in Identifiers \cup {NoId}
    BY <1>3, AppsAssumption DEF EditTyped
  <2> QED
    BY <1>1, <2>1, <2>2 DEF Names
<1> QED
  BY <1>2, <1>3

\* A conflict, a refusal, or an answer that writes nothing.
LEMMA RefusalMoves ==
    ASSUME AppsInv, NEW r \in AppRequests, NEW result \in EditPlaces, Answer(r, result),
           UNCHANGED <<apps, platformConfigs>>
    PROVE  AppsInv' /\ PagesStay
<1>1. DOMAIN platformConfigs' = PlatformKeys /\ \A k \in PlatformKeys : ConfigTyped(platformConfigs'[k])
  BY DEF AppsInv
<1> QED
  BY <1>1, AnswerMoves DEF PagesStay

LEMMA SaveMoves ==
    ASSUME AppsInv, NEW r \in AppRequests, edits[r].kind \in {"update", "package"},
           NEW fields, SaveApp(r, fields), "platform" \notin fields, "page" \notin fields, "builds" \notin fields
    PROVE  AppsInv' /\ PagesStay
<1>1. PICK app : app = Effective(edits[r])
  OBVIOUS
<1>2. EditTyped(edits[r])
  BY DEF AppsInv
<1>3. DOMAIN app = AppFields /\ \A f \in Names : app[f] \in Identifiers \cup {NoId}
  BY <1>1, <1>2, EffectiveFits
<1>4. PICK claims : claims = NativeIdentifiers(app)
  OBVIOUS
<1>5. claims \subseteq Identifiers
  BY <1>3, <1>4, ClaimsAreNames
<1>6. PICK from : from = [app EXCEPT !.claims = claims]
  OBVIOUS
<1>7. from.claims = claims /\ \A f \in Names : from[f] = app[f]
  BY <1>3, <1>6 DEF AppFields, NoApp, Names
<1>8. PICK refused : refused = IF edits[r].kind = "package" THEN "error" ELSE "conflict"
  OBVIOUS
<1>9. \/ /\ IndexAdmits(edits[r].app, claims)
         /\ StoreApp(edits[r].app, fields \cup {"claims"}, from) /\ Answer(r, "ok")
      \/ UNCHANGED apps /\ Answer(r, refused)
  BY <1>1, <1>4, <1>6, <1>8 DEF SaveApp
<1>10. UNCHANGED platformConfigs
  BY DEF SaveApp
<1>11. CASE UNCHANGED apps /\ Answer(r, refused)
  <2>1. refused \in EditPlaces
    BY <1>8 DEF EditPlaces
  <2> QED
    BY <1>10, <1>11, <2>1, RefusalMoves
<1>12. CASE /\ IndexAdmits(edits[r].app, claims)
            /\ StoreApp(edits[r].app, fields \cup {"claims"}, from) /\ Answer(r, "ok")
  <2>1. PICK all : all = fields \cup {"claims"}
    OBVIOUS
  <2>2. "platform" \notin all /\ "page" \notin all /\ "builds" \notin all
    BY <2>1
  <2>3. \A f \in Names : from[f] \in Identifiers \cup {NoId}
    BY <1>3, <1>7
  <2>4. from.claims \subseteq Identifiers /\ IndexAdmits(edits[r].app, from.claims)
    BY <1>5, <1>7, <1>12
  <2>5. edits[r].kind \in AppKinds
    BY DEF AppKinds
  <2>6. StoreApp(edits[r].app, all, from) /\ Answer(r, "ok")
    BY <1>12, <2>1
  <2> QED
    BY <1>10, <2>2, <2>3, <2>4, <2>5, <2>6, StoreMoves
<1> QED
  BY <1>9, <1>11, <1>12

\* The whitelist of updates: no platform, no page and no list of builds.
LEMMA UpdateMoves ==
    ASSUME AppsInv, NEW r \in AppRequests, Update(r) \/ UpdatePackageConfig(r)
    PROVE  AppsInv' /\ PagesStay
<1>1. CASE Update(r)
  <2>1. PICK fields : fields = WrittenFields(edits[r].patch)
    OBVIOUS
  <2>2. edits[r].kind = "update" /\ SaveApp(r, fields)
    BY <1>1, <2>1 DEF Update
  <2>3. edits[r].patch[1] \in UpdatableFields
    BY <2>2, AppsAssumption DEF AppsInv, EditTyped
  <2>4. "platform" \notin fields /\ "page" \notin fields /\ "builds" \notin fields
    BY <2>1, <2>3 DEF WrittenFields, UpdatableFields
  <2> QED
    BY <2>2, <2>4, SaveMoves
<1>2. CASE UpdatePackageConfig(r)
  <2>1. PICK fields : fields = {"packageName", "applicationId", "bundleId"}
    OBVIOUS
  <2>2. edits[r].kind = "package" /\ SaveApp(r, fields)
    BY <1>2, <2>1 DEF UpdatePackageConfig
  <2> QED
    BY <2>1, <2>2, SaveMoves
<1> QED
  BY <1>1, <1>2

LEMMA CreateMoves ==
    ASSUME AppsInv, NEW r \in AppRequests, Create(r)
    PROVE  AppsInv' /\ PagesStay
<1>1. PICK a, saw, claims : a = edits[r].app /\ saw = edits[r].saw /\ claims = NativeIdentifiers(saw)
  OBVIOUS
<1>2. /\ edits[r].kind = "create" /\ UNCHANGED platformConfigs
      /\ \/ IndexAdmits(a, claims) /\ apps' = [apps EXCEPT ![a] = [saw EXCEPT !.claims = claims]] /\ Answer(r, "ok")
         \/ UNCHANGED apps /\ Answer(r, "conflict")
  BY <1>1 DEF Create
<1>3. CASE UNCHANGED apps /\ Answer(r, "conflict")
  BY <1>2, <1>3, RefusalMoves DEF EditPlaces
<1>4. CASE IndexAdmits(a, claims) /\ apps' = [apps EXCEPT ![a] = [saw EXCEPT !.claims = claims]] /\ Answer(r, "ok")
  <2>1. a \in Apps /\ AppTyped(saw) /\ saw.platform # "none" /\ apps[a] = NoApp
    BY <1>1, <1>2 DEF AppsInv, EditTyped, EditPlaced
  <2>2. claims \subseteq Identifiers
    BY <1>1, <2>1, ClaimsAreNames DEF AppTyped, Names
  <2>3. PICK app : app = [saw EXCEPT !.claims = claims]
    OBVIOUS
  <2>4. AppTyped(app) /\ app.platform = saw.platform /\ app.claims = claims
    BY <2>1, <2>2, <2>3 DEF AppTyped, AppFields, NoApp
  <2>5. DOMAIN apps' = Apps /\ apps'[a] = app /\ \A b \in Apps \ {a} : apps'[b] = apps[b]
    BY <1>4, <2>1, <2>3 DEF AppsInv
  <2>6. \A b \in Apps \ {a} : apps[b].claims \cap apps'[a].claims = {}
    BY <1>4, <2>4, <2>5 DEF IndexAdmits
  <2>7. /\ DOMAIN edits' = AppRequests /\ EditTyped(edits'[r]) /\ edits'[r].kind = "none"
        /\ \A q \in AppRequests \ {r} : edits'[q] = edits[q]
    BY <1>4, Answered DEF EditPlaces
  <2>8. edits'[r].kind # "create" /\ edits'[r].kind \notin AppKinds
    BY <2>7 DEF AppKinds
  <2>9. DOMAIN platformConfigs' = PlatformKeys /\ \A k \in PlatformKeys : ConfigTyped(platformConfigs'[k])
    BY <1>2 DEF AppsInv
  <2>10. AppsInv'
    BY <1>1, <1>2, <2>1, <2>4, <2>5, <2>6, <2>7, <2>8, <2>9, AppsMove
  <2>11. PagesStay
    BY <2>1, <2>5, EmptyApp DEF PagesStay
  <2> QED
    BY <2>10, <2>11
<1> QED
  BY <1>2, <1>3, <1>4

LEMMA ReviewModeMoves ==
    ASSUME AppsInv, NEW r \in AppRequests, SetReviewMode(r) \/ SetStateRules(r)
    PROVE  AppsInv' /\ PagesStay
<1>1. EditTyped(edits[r])
  BY DEF AppsInv
<1>2. CASE SetReviewMode(r)
  <2>1. UNCHANGED apps /\ edits[r].kind = "review" /\ edits[r].patch[1] \in ReviewModes
    BY <1>1, <1>2, AppsAssumption DEF SetReviewMode, EditTyped
  <2>2. CASE UNCHANGED platformConfigs /\ Answer(r, "invalid")
    BY <2>1, <2>2, RefusalMoves DEF EditPlaces
  <2>3. CASE ~(UNCHANGED platformConfigs /\ Answer(r, "invalid"))
    <3>1. PICK mode, key : mode = edits[r].patch[1] /\ key = NativeRuntimeTarget(edits[r].saw)
      OBVIOUS
    <3>2. platformConfigs' = [platformConfigs EXCEPT ![key] =
                   [@ EXCEPT !.review = mode, !.enabled = TRUE,
                             !.policy = IF mode = "strict" THEN "safe" ELSE @]]
      BY <1>2, <2>3, <3>1 DEF SetReviewMode
    <3>3. ASSUME NEW k \in PlatformKeys PROVE ConfigTyped(platformConfigs'[k])
      <4>1. ConfigTyped(platformConfigs[k])
        BY DEF AppsInv
      <4>2. /\ DOMAIN platformConfigs'[k] = DOMAIN platformConfigs[k]
            /\ platformConfigs'[k].review \in {platformConfigs[k].review, mode}
        BY <3>2, <4>1 DEF AppsInv, ConfigTyped
      <4> QED
        BY <2>1, <3>1, <4>1, <4>2 DEF ConfigTyped
    <3>4. DOMAIN platformConfigs' = PlatformKeys
      BY <3>2 DEF AppsInv
    <3>5. Goto(r, "configured") \/ Answer(r, "ok")
      BY <1>2, <2>3 DEF SetReviewMode
    <3> QED
      BY <2>1, <3>3, <3>4, <3>5, GoingMoves, AnswerMoves DEF EditPlaces, PagesStay
  <2> QED
    BY <2>2, <2>3
<1>3. CASE SetStateRules(r)
  <2>1. PICK a, from : a = edits[r].app /\ from = [edits[r].saw EXCEPT !.rules = RulesFor(edits[r].patch[1])]
    OBVIOUS
  <2>2. /\ edits[r].kind \in AppKinds /\ UNCHANGED platformConfigs
        /\ StoreApp(a, {"rules", "legalUrl"}, from) /\ Answer(r, "ok")
    BY <1>3, <2>1 DEF SetStateRules, AppKinds
  <2>3. PICK fields : fields = {"rules", "legalUrl"}
    OBVIOUS
  <2>4. /\ "platform" \notin fields /\ "page" \notin fields /\ "builds" \notin fields
        /\ "claims" \notin fields /\ Names \cap fields = {}
    BY <2>3 DEF Names
  <2>5. a = edits[r].app /\ StoreApp(a, fields, from)
    BY <2>1, <2>2, <2>3
  <2> QED
    BY <2>2, <2>4, <2>5, StoreMoves
<1> QED
  BY <1>2, <1>3

LEMMA RecordMoves ==
    ASSUME AppsInv, NEW r \in AppRequests,
           CreateBuildRequest(r) \/ RegisterAPIDomain(r) \/ UpdateLegalPublishing(r)
    PROVE  AppsInv' /\ PagesStay
<1>1. EditTyped(edits[r])
  BY DEF AppsInv
<1>2. UNCHANGED platformConfigs /\ edits[r].kind \in AppKinds
  BY DEF CreateBuildRequest, RegisterAPIDomain, UpdateLegalPublishing, AppKinds
<1>3. CASE CreateBuildRequest(r)
  <2>1. PICK a, from : a = edits[r].app /\ from = [edits[r].saw EXCEPT !.builds = @ \cup {r}]
    OBVIOUS
  <2>2. PICK fields : fields = {"builds"}
    OBVIOUS
  <2>3. from.builds \subseteq AppRequests
    BY <1>1, <2>1 DEF EditTyped, AppTyped, AppFields, NoApp
  <2>4. \/ StoreApp(a, fields, from) /\ Answer(r, "ok")
        \/ UNCHANGED apps /\ Answer(r, "invalid")
    BY <1>3, <2>1, <2>2 DEF CreateBuildRequest
  <2>5. CASE StoreApp(a, fields, from) /\ Answer(r, "ok")
    <3>1. "platform" \notin fields /\ "page" \notin fields /\ "claims" \notin fields /\ Names \cap fields = {}
      BY <2>2 DEF Names
    <3> QED
      BY <1>2, <2>1, <2>3, <2>5, <3>1, StoreMoves
  <2>6. CASE UNCHANGED apps /\ Answer(r, "invalid")
    BY <1>2, <2>6, RefusalMoves DEF EditPlaces
  <2> QED
    BY <2>4, <2>5, <2>6
<1>4. CASE RegisterAPIDomain(r)
  <2>1. PICK a, from : a = edits[r].app /\ from = [edits[r].saw EXCEPT !.domain = "blocked"]
    OBVIOUS
  <2>2. PICK fields : fields = {"domain"}
    OBVIOUS
  <2>3. \/ StoreApp(a, fields, from) /\ Answer(r, "ok")
        \/ UNCHANGED apps /\ Answer(r, "invalid")
    BY <1>4, <2>1, <2>2 DEF RegisterAPIDomain
  <2>4. CASE StoreApp(a, fields, from) /\ Answer(r, "ok")
    <3>1. "platform" \notin fields /\ "page" \notin fields /\ "claims" \notin fields
          /\ "builds" \notin fields /\ Names \cap fields = {}
      BY <2>2 DEF Names
    <3> QED
      BY <1>2, <2>1, <2>4, <3>1, StoreMoves
  <2>5. CASE UNCHANGED apps /\ Answer(r, "invalid")
    BY <1>2, <2>5, RefusalMoves DEF EditPlaces
  <2> QED
    BY <2>3, <2>4, <2>5
<1>5. CASE UpdateLegalPublishing(r)
  <2>1. PICK a, from : a = edits[r].app /\ from = [edits[r].saw EXCEPT !.binding = edits[r].patch[1]]
    OBVIOUS
  <2>2. PICK fields : fields = {"binding"}
    OBVIOUS
  <2>3. \/ StoreApp(a, fields, from) /\ Answer(r, "ok")
        \/ UNCHANGED apps /\ (Answer(r, "ok") \/ Answer(r, "conflict"))
    BY <1>5, <2>1, <2>2 DEF UpdateLegalPublishing
  <2>4. CASE StoreApp(a, fields, from) /\ Answer(r, "ok")
    <3>1. "platform" \notin fields /\ "page" \notin fields /\ "claims" \notin fields
          /\ "builds" \notin fields /\ Names \cap fields = {}
      BY <2>2 DEF Names
    <3> QED
      BY <1>2, <2>1, <2>4, <3>1, StoreMoves
  <2>5. CASE UNCHANGED apps /\ (Answer(r, "ok") \/ Answer(r, "conflict"))
    BY <1>2, <2>5, RefusalMoves DEF EditPlaces
  <2> QED
    BY <2>3, <2>4, <2>5
<1> QED
  BY <1>3, <1>4, <1>5

\* A page, the state or a legal address is written over what is stored.
LEMMA Overwritten ==
    ASSUME AppsInv, NEW a \in Registered, NEW page \in PageVersions \cup {NoId},
           \/ apps' = [apps EXCEPT ![a].page = page, ![a].legalUrl = page]
           \/ page = apps[a].page /\ apps' = [apps EXCEPT ![a].status = "deprecated"]
    PROVE  /\ DOMAIN apps' = Apps /\ \A b \in Apps \ {a} : apps'[b] = apps[b]
           /\ AppTyped(apps'[a]) /\ apps'[a].page = page
           /\ apps[a].platform # "none" /\ apps'[a].platform # "none"
           /\ \A b \in Apps \ {a} : apps[b].claims \cap apps'[a].claims = {}
<1>1. a \in Apps /\ AppTyped(apps[a]) /\ apps[a].platform # "none" /\ DOMAIN apps = Apps
  BY DEF AppsInv, Registered
<1>2. /\ DOMAIN apps' = Apps /\ \A b \in Apps \ {a} : apps'[b] = apps[b]
      /\ \/ apps'[a] = [apps[a] EXCEPT !.page = page, !.legalUrl = page]
         \/ page = apps[a].page /\ apps'[a] = [apps[a] EXCEPT !.status = "deprecated"]
  BY <1>1
<1>3. PICK old : old = apps[a]
  OBVIOUS
<1>4. AppTyped(apps'[a]) /\ apps'[a].page = page /\ apps'[a].platform = old.platform /\ apps'[a].claims = old.claims
  BY <1>1, <1>2, <1>3 DEF AppTyped, AppFields, NoApp
<1> QED
  BY <1>1, <1>2, <1>3, <1>4 DEF AppsInv, ClaimsDisjoint

LEMMA OverwriteMoves ==
    ASSUME AppsInv, NEW r \in AppRequests, NEW a \in Registered, NEW page \in PageVersions \cup {NoId},
           \/ apps' = [apps EXCEPT ![a].page = page, ![a].legalUrl = page]
           \/ page = apps[a].page /\ apps' = [apps EXCEPT ![a].status = "deprecated"],
           Answer(r, "ok"), UNCHANGED platformConfigs
    PROVE  AppsInv'
<1>1. /\ DOMAIN apps' = Apps /\ \A b \in Apps \ {a} : apps'[b] = apps[b]
      /\ AppTyped(apps'[a]) /\ apps[a].platform # "none" /\ apps'[a].platform # "none"
      /\ \A b \in Apps \ {a} : apps[b].claims \cap apps'[a].claims = {}
  BY Overwritten
<1>2. /\ DOMAIN edits' = AppRequests /\ EditTyped(edits'[r]) /\ edits'[r].kind = "none"
      /\ \A q \in AppRequests \ {r} : edits'[q] = edits[q]
  BY Answered DEF EditPlaces
<1>3. edits'[r].kind # "create" /\ edits'[r].kind \notin AppKinds
  BY <1>2 DEF AppKinds
<1>4. DOMAIN platformConfigs' = PlatformKeys /\ \A k \in PlatformKeys : ConfigTyped(platformConfigs'[k])
  BY DEF AppsInv
<1> QED
  BY <1>1, <1>2, <1>3, <1>4, AppsMove DEF Registered

LEMMA DeleteMoves ==
    ASSUME AppsInv, NEW r \in AppRequests, NEW a \in Apps, Delete(r, a)
    PROVE  AppsInv' /\ PagesStay
<1>1. /\ a \in Registered /\ apps' = [apps EXCEPT ![a].status = "deprecated"]
      /\ Answer(r, "ok") /\ UNCHANGED platformConfigs
  BY DEF Delete
<1>2. PICK page : page = apps[a].page
  OBVIOUS
<1>3. page \in PageVersions \cup {NoId}
  BY <1>2 DEF AppsInv, AppTyped
<1>4. /\ \A b \in Apps \ {a} : apps'[b] = apps[b]
      /\ apps'[a].page = page
  BY <1>1, <1>2, <1>3, Overwritten
<1>5. AppsInv'
  BY <1>1, <1>2, <1>3, OverwriteMoves
<1> QED
  BY <1>2, <1>4, <1>5 DEF PagesStay

\* What PageTakenByReader says of a step.
PageTakenStep ==
    \A a \in Apps : apps[a].page # NoId /\ apps'[a].page = NoId =>
        \E r \in AppRequests : edits[r].kind = "disable" /\ edits[r].app = a /\ edits[r].saw.page = apps[a].page

LEMMA LegalActionMoves ==
    ASSUME AppsInv, NEW r \in AppRequests, LegalAction(r)
    PROVE  AppsInv' /\ PageTakenStep
<1>1. PICK a, version : a = edits[r].app /\ version = edits[r].saw.page
  OBVIOUS
<1>2. edits[r].kind = "disable" /\ UNCHANGED platformConfigs
  BY DEF LegalAction
<1>3. a \in Apps /\ apps[a].platform # "none"
  BY <1>1, <1>2 DEF AppsInv, EditTyped, EditPlaced, AppKinds
<1>4. \/ /\ apps[a].page = version
         /\ apps' = [apps EXCEPT ![a].page = NoId, ![a].legalUrl = NoId] /\ Answer(r, "ok")
      \/ UNCHANGED apps /\ (Answer(r, "notFound") \/ Answer(r, "conflict"))
  BY <1>1 DEF LegalAction, StillCurrent
<1>5. CASE UNCHANGED apps /\ (Answer(r, "notFound") \/ Answer(r, "conflict"))
  BY <1>2, <1>5, RefusalMoves DEF EditPlaces, PagesStay, PageTakenStep
<1>6. CASE /\ apps[a].page = version
           /\ apps' = [apps EXCEPT ![a].page = NoId, ![a].legalUrl = NoId] /\ Answer(r, "ok")
  <2>1. a \in Registered
    BY <1>3, EmptyApp DEF Registered
  <2>2. AppsInv'
    BY <1>2, <1>6, <2>1, OverwriteMoves
  <2>3. \A b \in Apps \ {a} : apps'[b] = apps[b]
    BY <1>6, <2>1, Overwritten
  <2> QED
    BY <1>1, <1>2, <1>6, <2>2, <2>3 DEF PageTakenStep
<1> QED
  BY <1>4, <1>5, <1>6

LEMMA PublishMoves ==
    ASSUME AppsInv, NEW a \in Apps, NEW v \in PageVersions, PublishPage(a, v)
    PROVE  AppsInv' /\ PagesStay
<1>1. a \in Registered /\ apps' = [apps EXCEPT ![a].page = v, ![a].legalUrl = v]
      /\ UNCHANGED <<platformConfigs, edits>>
  BY DEF PublishPage
<1>2. /\ DOMAIN apps' = Apps /\ \A b \in Apps \ {a} : apps'[b] = apps[b]
      /\ AppTyped(apps'[a]) /\ apps'[a].page = v /\ apps[a].platform # "none" /\ apps'[a].platform # "none"
      /\ \A b \in Apps \ {a} : apps[b].claims \cap apps'[a].claims = {}
  BY <1>1, Overwritten
<1>3. PagesStay
  BY <1>2, AppsAssumption DEF PagesStay
<1>4. \A b \in Apps : AppTyped(apps'[b]) /\ (apps'[b] = NoApp \/ apps'[b].platform # "none")
  BY <1>2 DEF AppsInv
<1>5. ASSUME NEW r \in AppRequests PROVE EditTyped(edits'[r]) /\ EditPlaced(r)'
  <2>1. EditTyped(edits[r]) /\ EditPlaced(r) /\ edits' = edits
    BY <1>1 DEF AppsInv
  <2>2. edits[r].kind = "create" => edits[r].app \in Apps \ {a}
    BY <1>2, <2>1, EmptyApp DEF EditPlaced, EditTyped
  <2>3. edits[r].kind \in AppKinds => edits[r].app \in Apps
    BY <2>1 DEF EditTyped
  <2> QED
    BY <1>2, <2>1, <2>2, <2>3 DEF EditPlaced
<1>6. ClaimsDisjoint'
  BY <1>2 DEF AppsInv, ClaimsDisjoint
<1>7. DOMAIN platformConfigs' = PlatformKeys /\ (\A k \in PlatformKeys : ConfigTyped(platformConfigs'[k]))
      /\ DOMAIN edits' = AppRequests
  BY <1>1 DEF AppsInv
<1> QED
  BY <1>2, <1>3, <1>4, <1>5, <1>6, <1>7 DEF AppsInv, EditTyped, AppTyped, ConfigTyped

LEMMA AppsStay ==
    ASSUME AppsInv, UNCHANGED appVars
    PROVE  AppsInv' /\ PagesStay
<1>1. \A r \in AppRequests : EditPlaced(r)'
  BY DEF appVars, AppsInv, EditPlaced
<1> QED
  BY <1>1 DEF appVars, AppsInv, EditTyped, AppTyped, ConfigTyped, ClaimsDisjoint, PagesStay

LEMMA DispatchMoves ==
    ASSUME AppsInv, NEW r \in AppRequests, NEW a \in Apps, DispatchApp(r, a)
    PROVE  AppsInv' /\ PagesStay
<1>1. ASSUME NEW kind \in AppKinds, NEW patch, ReadApp(r, a, kind, patch),
             kind = "update" => patch \in Editable,
             kind \in {"package", "review"} => patch \in AppValues[kind]
      PROVE  AppsInv' /\ PagesStay
  BY <1>1, EditBegins DEF ReadApp, PagesStay
<1>2. ASSUME NEW p \in Platforms, NEW c \in Identifiers \cup {NoId}, NEW n \in Identifiers \cup {NoId},
             NEW b, BeginCreate(r, a, ValidateCreate(p, c, b, n))
      PROVE  AppsInv' /\ PagesStay
  BY <1>2, CreationBegins DEF BeginCreate, PagesStay
<1>3. CASE Delete(r, a)
  BY <1>3, DeleteMoves
<1>4. CASE \E patch \in Editable : ReadApp(r, a, "update", patch)
  BY <1>1, <1>4 DEF AppKinds
<1>5. CASE \E kind \in AppKinds \ {"update"} : \E patch \in AppValues[kind] : ReadApp(r, a, kind, patch)
  BY <1>1, <1>5
<1> QED
  BY <1>2, <1>3, <1>4, <1>5 DEF DispatchApp

LEMMA AppsSteps ==
    AppsInv /\ [AppsNext]_appVars => AppsInv' /\ PageTakenStep
<1> SUFFICES ASSUME AppsInv, [AppsNext]_appVars PROVE AppsInv' /\ PageTakenStep
  OBVIOUS
<1>0. PagesStay => PageTakenStep
  BY DEF PagesStay, PageTakenStep
<1>1. CASE UNCHANGED appVars
  BY <1>0, <1>1, AppsStay
<1>2. ASSUME NEW r \in AppRequests, NEW a \in Apps, DispatchApp(r, a) PROVE AppsInv' /\ PageTakenStep
  BY <1>0, <1>2, DispatchMoves
<1>3. ASSUME NEW r \in AppRequests, DispatchPlatforms(r) \/ CheckFree(r) PROVE AppsInv' /\ PageTakenStep
  <2>1. UNCHANGED apps
    BY <1>3 DEF DispatchPlatforms, CheckFree, UpdatePlatformConfig, GetPlatformConfig, DeletePlatformConfig,
                PatchPlatformConfig, ClonePlatformConfig
  <2> QED
    BY <1>3, <2>1, PlatformsMove, ChecksFree DEF PageTakenStep
<1>4. ASSUME NEW r \in AppRequests, WriteApp(r) PROVE AppsInv' /\ PageTakenStep
  BY <1>0, <1>4, CreateMoves, UpdateMoves, ReviewModeMoves, RecordMoves, LegalActionMoves DEF WriteApp
<1>5. ASSUME NEW a \in Apps, NEW v \in PageVersions, PublishPage(a, v) PROVE AppsInv' /\ PageTakenStep
  BY <1>0, <1>5, PublishMoves
<1> QED
  BY <1>1, <1>2, <1>3, <1>4, <1>5 DEF AppsNext

\* The inductive invariant of the registry of applications.
LEMMA AppsInvariant == AppsSpec => []AppsInv
BY AppsBegin, AppsSteps, PTL DEF AppsSpec

LEMMA AppsInvTypes == AppsInv => AppsTypeOK
BY DEF AppsInv, AppsTypeOK, EditTyped, EditPlaces, AppTyped, ConfigTyped

\* Requests overlap as they like: no identifier is claimed twice, and a legal page
\* goes only with the request that read it.
THEOREM ApplicationsStaySafe == AppsSpec => []ClaimsDisjoint /\ PageTakenByReader /\ []AppsTypeOK
<1>1. AppsInv => ClaimsDisjoint
  BY DEF AppsInv
<1>2. PageTakenStep => [\A a \in Apps : apps[a].page # NoId /\ apps'[a].page = NoId =>
          \E r \in AppRequests : edits[r].kind = "disable" /\ edits[r].app = a /\ edits[r].saw.page = apps[a].page
      ]_appVars
  BY DEF PageTakenStep
<1>3. AppsInv /\ [AppsNext]_appVars => [\A a \in Apps : apps[a].page # NoId /\ apps'[a].page = NoId =>
          \E r \in AppRequests : edits[r].kind = "disable" /\ edits[r].app = a /\ edits[r].saw.page = apps[a].page
      ]_appVars
  BY <1>2, AppsSteps
<1>4. AppsSpec => PageTakenByReader
  BY <1>3, AppsInvariant, PTL DEF AppsSpec, PageTakenByReader
<1> QED
  BY <1>1, <1>4, AppsInvariant, AppsInvTypes, PTL
-----------------------------------------------------------------------------
(* Links and posts.                                                          *)

\* A stored link: its clicks are those counted, and it has a source and a slug.
LinkFits(link, clicks) ==
    /\ DOMAIN link = DOMAIN NoLink
    /\ link.source # "" /\ link.slug # NoSlug /\ link.clicks = clicks

SlugsApart ==
    \A l, m \in TrackingLinks : l # m /\ links[l] # NoLink => links[m].slug # links[l].slug

MarketingInv ==
    /\ DOMAIN links = TrackingLinks /\ DOMAIN clicked = TrackingLinks /\ DOMAIN posts = Posts
    /\ \A l \in TrackingLinks : links[l] # NoLink => LinkFits(links[l], clicked[l])
    /\ \A p \in Posts : DOMAIN posts[p] = DOMAIN NoPost
    /\ SlugsApart
    /\ PublishedDated
-----------------------------------------------------------------------------
\* Nothing exists in the beginning.
LEMMA MarketingBegins == MarketingInit => MarketingInv
BY DEF MarketingInit, MarketingInv, SlugsApart, PublishedDated, PostExists

\* A link's own parameters stand whatever else its address carries.
LEMMA OwnParameters ==
    ASSUME NEW link, Parses(link.target)
    PROVE  /\ link.source # "" => FullURL(link)["utm_source"] = link.source
           /\ link.medium # "" => FullURL(link)["utm_medium"] = link.medium
<1> DEFINE fields == [utm_source |-> link.source, utm_medium |-> link.medium]
           dedicated == [k \in {u \in UtmKeys : fields[u] # ""} |-> fields[k]]
           base == Dedicated(QueryOf[link.target], dedicated)
           added == {e \in link.extra : e.key \notin DOMAIN base \/ base[e.key] = ""}
           fillers == {e.key : e \in added}
<1>1. FullURL(link) = [k \in DOMAIN base \cup fillers |->
        IF k \in fillers THEN (CHOOSE e \in added : e.key = k).value ELSE base[k]]
  BY DEF FullURL
<1>2. fields["utm_source"] = link.source /\ fields["utm_medium"] = link.medium
  OBVIOUS
<1> HIDE DEF fields
<1>3. \A k \in UtmKeys : fields[k] # "" => k \in DOMAIN base /\ base[k] = fields[k]
  BY DEF Dedicated
<1>4. \A k \in DOMAIN base : base[k] # "" => k \notin fillers
  OBVIOUS
<1> HIDE DEF dedicated, base, added, fillers
<1>5. \A k \in DOMAIN base : base[k] # "" => FullURL(link)[k] = base[k]
  BY <1>1, <1>4
<1> QED
  BY <1>2, <1>3, <1>5 DEF UtmKeys

\* A link is written: its own slug, or one that nobody has.
LEMMA LinkWritten ==
    ASSUME MarketingInv, NEW l \in TrackingLinks, NEW link,
           links' = [links EXCEPT ![l] = link],
           DOMAIN clicked' = TrackingLinks, \A m \in TrackingLinks \ {l} : clicked'[m] = clicked[m],
           \/ link = NoLink
           \/ /\ LinkFits(link, clicked'[l])
              /\ TakesSlug(l, link.slug) \/ (links[l] # NoLink /\ link.slug = links[l].slug),
           posts' = posts, marketingAudits \subseteq marketingAudits'
    PROVE  MarketingInv'
<1>1. DOMAIN links' = TrackingLinks /\ links'[l] = link /\ \A m \in TrackingLinks \ {l} : links'[m] = links[m]
  BY DEF MarketingInv
<1>2. \A m \in TrackingLinks : links'[m] # NoLink => LinkFits(links'[m], clicked'[m])
  BY <1>1 DEF MarketingInv
<1>3. NoLink.slug = NoSlug
  BY DEF NoLink
<1>4. \A m \in TrackingLinks \ {l} : link # NoLink => links[m].slug # link.slug
  BY DEF MarketingInv, SlugsApart, TakesSlug, Free
<1>5. SlugsApart'
  <2> SUFFICES ASSUME NEW x \in TrackingLinks, NEW y \in TrackingLinks, x # y, links'[x] # NoLink
               PROVE  links'[y].slug # links'[x].slug
    BY DEF SlugsApart
  <2>1. CASE x = l
    BY <1>1, <1>4, <2>1
  <2>2. CASE x # l /\ y = l
    <3>1. links'[x] = links[x] /\ links[x].slug # NoSlug
      BY <1>1, <2>2 DEF MarketingInv, LinkFits
    <3> QED
      BY <1>1, <1>3, <1>4, <2>2, <3>1
  <2>3. CASE x # l /\ y # l
    BY <1>1, <2>3 DEF MarketingInv, SlugsApart
  <2> QED
    BY <2>1, <2>2, <2>3
<1>6. PublishedDated'
  BY DEF MarketingInv, PublishedDated, PostExists
<1>7. DOMAIN posts' = Posts /\ \A p \in Posts : DOMAIN posts'[p] = DOMAIN NoPost
  BY DEF MarketingInv
<1> QED
  BY <1>1, <1>2, <1>5, <1>6, <1>7 DEF MarketingInv

LEMMA LinkCreated ==
    ASSUME MarketingInv, NEW a, NEW l \in TrackingLinks, NEW form \in LinkForms, CreateLink(a, l, form)
    PROVE  MarketingInv'
<1>1. PICK extra : links' = [links EXCEPT ![l] = NewLink(form, extra)]
  BY DEF CreateLink
<1>2. PICK link : link = NewLink(form, extra)
  OBVIOUS
<1>3. form.slug # Unset /\ form.source # Unset /\ form.source # "" /\ TakesSlug(l, Normalized[form.slug])
  BY DEF CreateLink, NormalizeInput
<1>4. Normalized[form.slug] # NoSlug
  BY <1>3, MarketingAssumption
<1>5. clicked' = [clicked EXCEPT ![l] = 0] /\ posts' = posts /\ marketingAudits \subseteq marketingAudits'
  BY DEF CreateLink
<1>6. /\ DOMAIN link = DOMAIN NoLink /\ link.slug = Normalized[form.slug]
      /\ link.source = form.source /\ link.clicks = 0
  BY <1>2 DEF NewLink, NoLink
<1>7. LinkFits(link, clicked'[l])
  BY <1>3, <1>4, <1>5, <1>6 DEF LinkFits, MarketingInv
<1>8. DOMAIN clicked' = TrackingLinks /\ \A m \in TrackingLinks \ {l} : clicked'[m] = clicked[m]
  BY <1>5 DEF MarketingInv
<1> QED
  BY <1>1, <1>2, <1>3, <1>5, <1>6, <1>7, <1>8, LinkWritten

\* A save names its fields: neither clicks nor, unnamed, the slug among them.
LEMMA LinkUpdated ==
    ASSUME MarketingInv, NEW a, NEW l \in TrackingLinks, NEW form, UpdateLink(a, l, form),
           form.slug # Unset => Normalized[form.slug] # NoSlug
    PROVE  MarketingInv'
<1>1. PICK extra : links' = [links EXCEPT ![l] = SetFields(links[l], form, extra)]
  BY DEF UpdateLink
<1>2. PICK old, link : old = links[l] /\ link = SetFields(old, form, extra)
  OBVIOUS
<1>3. old # NoLink /\ LinkFits(old, clicked[l])
  BY <1>2 DEF UpdateLink, LinkExists, MarketingInv
<1>4. /\ form.source # ""
      /\ form.slug # Unset => TakesSlug(l, Normalized[form.slug])
      /\ UNCHANGED <<posts, clicked>> /\ marketingAudits \subseteq marketingAudits'
  BY DEF UpdateLink, NormalizeInput
<1>5. /\ DOMAIN link = DOMAIN NoLink
      /\ link.slug = IF form.slug = Unset THEN old.slug ELSE Normalized[form.slug]
      /\ link.source = IF form.source = Unset THEN old.source ELSE form.source
      /\ link.clicks = old.clicks
  BY <1>2, <1>3 DEF SetFields, LinkFits, NoLink, Or
<1>6. LinkFits(link, clicked[l])
  BY <1>3, <1>4, <1>5 DEF LinkFits
<1>7. TakesSlug(l, link.slug) \/ link.slug = old.slug
  BY <1>4, <1>5
<1>8. DOMAIN clicked' = TrackingLinks
  BY <1>4 DEF MarketingInv
<1> QED
  BY <1>1, <1>2, <1>3, <1>4, <1>6, <1>7, <1>8, LinkWritten

LEMMA LinkMoves ==
    ASSUME MarketingInv, NEW a, NEW l \in TrackingLinks,
           \/ \E form \in LinkForms : CreateLink(a, l, form) \/ UpdateLink(a, l, form)
           \/ Toggle(a, l) \/ DeleteLink(a, l) \/ Click(l)
    PROVE  MarketingInv'
<1>1. ASSUME NEW form \in LinkForms, UpdateLink(a, l, form) PROVE MarketingInv'
  BY <1>1, LinkUpdated, MarketingAssumption
<1>2. CASE Toggle(a, l)
  <2>1. PICK form : form = [slug |-> Unset, target |-> Unset, source |-> Unset, medium |-> Unset,
                            extra |-> Unset, overlong |-> FALSE, enabled |-> ~forms[a].enabled]
    OBVIOUS
  <2>2. UpdateLink(a, l, form) /\ form.slug = Unset
    BY <1>2, <2>1 DEF Toggle
  <2> QED
    BY <2>2, LinkUpdated
<1>3. CASE DeleteLink(a, l)
  <2>1. PICK link : link = NoLink
    OBVIOUS
  <2>2. /\ links' = [links EXCEPT ![l] = link] /\ UNCHANGED <<posts, clicked>>
        /\ marketingAudits \subseteq marketingAudits'
    BY <1>3, <2>1 DEF DeleteLink
  <2>3. DOMAIN clicked' = TrackingLinks /\ \A m \in TrackingLinks \ {l} : clicked'[m] = clicked[m]
    BY <2>2 DEF MarketingInv
  <2> QED
    BY <2>1, <2>2, <2>3, LinkWritten
<1>4. CASE Click(l)
  <2>1. PICK link, old : old = links[l] /\ link = [old EXCEPT !.clicks = @ + 1]
    OBVIOUS
  <2>2. /\ links' = [links EXCEPT ![l].clicks = @ + 1] /\ clicked' = [clicked EXCEPT ![l] = @ + 1]
        /\ UNCHANGED <<posts, marketingAudits>>
    BY <1>4 DEF Click
  <2>3. old # NoLink /\ LinkFits(old, clicked[l])
    BY <1>4, <2>1 DEF Click, LinkExists, MarketingInv
  <2>4. links' = [links EXCEPT ![l] = link]
    BY <2>1, <2>2
  <2>5. DOMAIN clicked' = TrackingLinks /\ clicked'[l] = clicked[l] + 1
        /\ \A m \in TrackingLinks \ {l} : clicked'[m] = clicked[m]
    BY <2>2 DEF MarketingInv
  <2>6. LinkFits(link, clicked'[l]) /\ link.slug = old.slug
    BY <2>1, <2>3, <2>5 DEF LinkFits, NoLink
  <2>7. posts' = posts /\ marketingAudits \subseteq marketingAudits'
    BY <2>2
  <2>8. links[l] # NoLink /\ link.slug = links[l].slug
    BY <2>1, <2>3, <2>6
  <2> QED
    BY <2>4, <2>5, <2>6, <2>7, <2>8, LinkWritten
<1> QED
  BY <1>1, <1>2, <1>3, <1>4, LinkCreated

\* A post is written, and what is published is dated by the fact that goes with it.
LEMMA PostWritten ==
    ASSUME MarketingInv, NEW a, NEW p \in Posts, NEW post, NEW action,
           posts' = [posts EXCEPT ![p] = post], DOMAIN post = DOMAIN NoPost,
           marketingAudits' = marketingAudits \cup {AuditFact(a, action, p)},
           \/ post.status # "published" \/ post.published = Now
           \/ posts[p] # NoPost /\ posts[p].status = "published" /\ post.published = posts[p].published,
           UNCHANGED <<links, clicked>>
    PROVE  MarketingInv'
<1>1. DOMAIN posts' = Posts /\ posts'[p] = post /\ \A q \in Posts \ {p} : posts'[q] = posts[q]
  BY DEF MarketingInv
<1>2. AuditFact(a, action, p).target = p /\ AuditFact(a, action, p).at = Now
  BY DEF AuditFact
<1>3. ASSUME NEW q \in Posts, posts'[q] # NoPost, posts'[q].status = "published"
      PROVE  \E w \in marketingAudits' : w.target = q /\ w.at = posts'[q].published
  <2>1. CASE q = p /\ post.published = Now
    BY <1>1, <1>2, <2>1
  <2>2. CASE posts[q] # NoPost /\ posts[q].status = "published" /\ posts'[q].published = posts[q].published
    BY <2>2 DEF MarketingInv, PublishedDated, PostExists
  <2> QED
    BY <1>1, <1>3, <2>1, <2>2
<1>4. PublishedDated'
  BY <1>3 DEF PublishedDated, PostExists
<1>5. SlugsApart'
  BY DEF MarketingInv, SlugsApart
<1>6. \A l \in TrackingLinks : links'[l] # NoLink => LinkFits(links'[l], clicked'[l])
  BY DEF MarketingInv
<1>7. \A q \in Posts : DOMAIN posts'[q] = DOMAIN NoPost
  BY <1>1 DEF MarketingInv
<1> QED
  BY <1>1, <1>4, <1>5, <1>6, <1>7 DEF MarketingInv

LEMMA PostMoves ==
    ASSUME MarketingInv, NEW a, NEW p \in Posts,
           \/ \E form \in PostForms : CreatePost(a, p, form) \/ UpdatePost(a, p, form)
           \/ PublishPost(a, p) \/ UnpublishPost(a, p) \/ DeletePost(a, p)
    PROVE  MarketingInv'
<1>1. ASSUME NEW form \in PostForms, CreatePost(a, p, form) PROVE MarketingInv'
  <2>1. PICK status : status = Or(form.status, "draft")
    OBVIOUS
  <2>2. PICK post : post = [slug |-> SlugFor(form), title |-> form.title, status |-> status,
                            published |-> Dated(NoPost, status)]
    OBVIOUS
  <2>3. /\ posts' = [posts EXCEPT ![p] = post] /\ UNCHANGED <<links, clicked>>
        /\ marketingAudits' = marketingAudits \cup {AuditFact(a, "blog_create", p)}
    BY <1>1, <2>1, <2>2 DEF CreatePost
  <2>4. DOMAIN post = DOMAIN NoPost /\ (post.status # "published" \/ post.published = Now)
    BY <2>2 DEF NoPost, Dated
  <2> QED
    BY <2>3, <2>4, PostWritten
<1>2. ASSUME NEW form \in PostForms, UpdatePost(a, p, form) PROVE MarketingInv'
  <2>1. PICK old, slug : old = posts[p] /\ slug = IF form.slug \in {Unset, ""} THEN posts[p].slug ELSE form.slug
    OBVIOUS
  <2>2. PICK post : post = [slug |-> slug, title |-> Or(form.title, old.title), status |-> Or(form.status, old.status),
                            published |-> Dated(old, form.status)]
    OBVIOUS
  <2>3. /\ posts' = [posts EXCEPT ![p] = post] /\ UNCHANGED <<links, clicked>> /\ old # NoPost
        /\ marketingAudits' = marketingAudits \cup {AuditFact(a, "blog_update", p)}
    BY <1>2, <2>1, <2>2 DEF UpdatePost, PostExists
  <2>4. DOMAIN post = DOMAIN NoPost
        /\ (post.status # "published" \/ post.published = Now
              \/ (old.status = "published" /\ post.published = old.published))
    BY <2>2 DEF NoPost, Dated, Or
  <2> QED
    BY <2>1, <2>3, <2>4, PostWritten
<1>3. ASSUME NEW status, NEW action, SetStatus(a, p, status, action) PROVE MarketingInv'
  <2>1. PICK old, date : old = posts[p] /\ date = IF status = "published" THEN Now ELSE old.published
    OBVIOUS
  <2>2. PICK post : post = [old EXCEPT !.status = status, !.published = date]
    OBVIOUS
  <2>3. DOMAIN old = DOMAIN NoPost
    BY <2>1 DEF MarketingInv
  <2>4. posts' = [posts EXCEPT ![p].status = status,
                               ![p].published = IF status = "published" THEN Now ELSE @]
        /\ UNCHANGED <<links, clicked>>
        /\ marketingAudits' = marketingAudits \cup {AuditFact(a, action, p)}
    BY <1>3 DEF SetStatus
  <2>5. posts' = [posts EXCEPT ![p] = post]
    BY <2>1, <2>2, <2>3, <2>4 DEF MarketingInv, NoPost
  <2>6. DOMAIN post = DOMAIN NoPost /\ (post.status # "published" \/ post.published = Now)
    BY <2>1, <2>2, <2>3 DEF NoPost
  <2> QED
    BY <2>4, <2>5, <2>6, PostWritten
<1>4. CASE DeletePost(a, p)
  <2>1. PICK post : post = NoPost
    OBVIOUS
  <2>2. /\ posts' = [posts EXCEPT ![p] = post] /\ UNCHANGED <<links, clicked>>
        /\ marketingAudits' = marketingAudits \cup {AuditFact(a, "blog_delete", p)}
    BY <1>4, <2>1 DEF DeletePost
  <2>3. DOMAIN post = DOMAIN NoPost /\ post.status # "published"
    BY <2>1 DEF NoPost
  <2> QED
    BY <2>2, <2>3, PostWritten
<1> QED
  BY <1>1, <1>2, <1>3, <1>4 DEF PublishPost, UnpublishPost

LEMMA MarketingStays ==
    ASSUME MarketingInv, UNCHANGED <<links, posts, clicked>>, marketingAudits' = marketingAudits
    PROVE  MarketingInv'
BY DEF MarketingInv, SlugsApart, PublishedDated, PostExists

LEMMA MarketingSteps ==
    MarketingInv /\ [MarketingNext]_marketingVars => MarketingInv'
<1> SUFFICES ASSUME MarketingInv, [MarketingNext]_marketingVars PROVE MarketingInv'
  OBVIOUS
<1>1. CASE UNCHANGED marketingVars
  BY <1>1, MarketingStays DEF marketingVars
<1>2. ASSUME NEW a, NEW l, ListLinks(a, l) PROVE MarketingInv'
  BY <1>2, MarketingStays DEF ListLinks
<1> QED
  BY <1>1, <1>2, LinkMoves, PostMoves DEF MarketingNext

\* The inductive invariant of links and posts.
LEMMA MarketingInvariant == MarketingSpec => []MarketingInv
BY MarketingBegins, MarketingSteps, PTL DEF MarketingSpec

LEMMA MarketingInvSafe == MarketingInv => MarketingSafe
<1> SUFFICES ASSUME MarketingInv PROVE MarketingSafe
  OBVIOUS
<1>1. ClicksCounted
  BY DEF MarketingInv, ClicksCounted, LinkFits, LinkExists
<1>2. LinksUnmistakable
  BY OwnParameters DEF MarketingInv, LinksUnmistakable, LinkFits, LinkExists, SlugsApart, Free
<1> QED
  BY <1>1, <1>2 DEF MarketingSafe, MarketingInv

\* MarketingSafe: stale forms take no click back, addresses name their own link,
\* and publications are dated.
THEOREM MarketingStaysSafe == MarketingSpec => []MarketingSafe
BY MarketingInvariant, MarketingInvSafe, PTL
-----------------------------------------------------------------------------
(* Prices and the menu.                                                      *)

SettingFacts(d) == {f \in configAudits : f.document = d}

\* Facts are as many as saves were committed, the last one dated just before.
AuditsDated ==
    /\ IsFiniteSet(configAudits) /\ IsFiniteSet(menuAudits)
    /\ \A f \in configAudits \cup menuAudits : f.at \in Nat /\ f.at < Saves

\* The membership in force is one that was valid when it was sent.
MembershipNormalized ==
    settings[<<"vip", "all">>].enabled =>
        \E overrides \in MemberOverrides :
            ValidVIPOverrides(overrides) /\ settings[<<"vip", "all">>].value = NormalizeVIPOverrides(overrides)

PricingInv ==
    /\ DOMAIN settings = Settings
    /\ \A d \in Settings : DOMAIN settings[d] = {"value", "enabled", "version"} /\ settings[d].version \in Nat
    /\ AuditsDated
    /\ VersionsAudited
    /\ MembershipNormalized
-----------------------------------------------------------------------------
LEMMA PricingBegins == PricingInit => PricingInv
<1> SUFFICES ASSUME PricingInit PROVE PricingInv
  OBVIOUS
<1>1. configAudits = {} /\ menuAudits = {} /\ IsFiniteSet(configAudits) /\ IsFiniteSet(menuAudits)
  BY FS_EmptySet DEF PricingInit
<1>2. \A d \in Settings : settings[d] = NoDocument
  BY DEF PricingInit
<1>3. VersionsAudited
  <2>1. \A d \in Settings : {f \in configAudits : f.document = d} = {} /\ settings[d].version = 0
    BY <1>1, <1>2 DEF NoDocument
  <2>2. Cardinality({}) = 0 /\ 1..0 = {}
    BY FS_EmptySet
  <2>3. ASSUME NEW d \in Settings, NEW facts, facts = {f \in configAudits : f.document = d}
        PROVE  Cardinality(facts) = settings[d].version /\ {f.version : f \in facts} = 1..settings[d].version
    <3>1. facts = {} /\ settings[d].version = 0
      BY <2>1, <2>3
    <3>2. {f.version : f \in facts} = {}
      BY <3>1
    <3> QED
      BY <2>2, <3>1, <3>2
  <2> QED
    BY <2>3 DEF VersionsAudited
<1>4. MembershipNormalized
  <2>1. <<"vip", "all">> \in Settings
    BY PricingAssumption DEF Settings, SettingKeys
  <2> QED
    BY <1>2, <2>1 DEF MembershipNormalized, NoDocument
<1> QED
  BY <1>1, <1>2, <1>3, <1>4 DEF PricingInit, PricingInv, AuditsDated, NoDocument

LEMMA SavesNatural ==
    ASSUME AuditsDated
    PROVE  /\ Saves \in Nat
           /\ \A f : f.at = Saves => f \notin configAudits \cup menuAudits
<1>1. Saves \in Nat
  BY FS_CardinalityType DEF AuditsDated, Saves
<1> QED
  BY <1>1 DEF AuditsDated

\* One fact more, and one save.
LEMMA FactAdded ==
    ASSUME AuditsDated, NEW fact, fact.at = Saves,
           \/ configAudits' = configAudits \cup {fact} /\ menuAudits' = menuAudits
           \/ menuAudits' = menuAudits \cup {fact} /\ configAudits' = configAudits
    PROVE  AuditsDated' /\ Saves' = Saves + 1
<1>1. Saves \in Nat /\ fact \notin configAudits /\ fact \notin menuAudits
  BY SavesNatural
<1>2. /\ IsFiniteSet(configAudits) /\ Cardinality(configAudits) \in Nat
      /\ IsFiniteSet(menuAudits) /\ Cardinality(menuAudits) \in Nat
  BY FS_CardinalityType DEF AuditsDated
<1>3. /\ IsFiniteSet(configAudits \cup {fact}) /\ Cardinality(configAudits \cup {fact}) = Cardinality(configAudits) + 1
      /\ IsFiniteSet(menuAudits \cup {fact}) /\ Cardinality(menuAudits \cup {fact}) = Cardinality(menuAudits) + 1
  BY <1>1, <1>2, FS_AddElement
<1>4. Saves' = Saves + 1 /\ IsFiniteSet(configAudits') /\ IsFiniteSet(menuAudits')
  <2>1. CASE configAudits' = configAudits \cup {fact} /\ menuAudits' = menuAudits
    <3>1. Saves' = Cardinality(configAudits \cup {fact}) + Cardinality(menuAudits)
      BY <2>1 DEF Saves
    <3> QED
      BY <1>2, <1>3, <2>1, <3>1 DEF Saves
  <2>2. CASE menuAudits' = menuAudits \cup {fact} /\ configAudits' = configAudits
    <3>1. Saves' = Cardinality(configAudits) + Cardinality(menuAudits \cup {fact})
      BY <2>2 DEF Saves
    <3> QED
      BY <1>2, <1>3, <2>2, <3>1 DEF Saves
  <2> QED
    BY <2>1, <2>2
<1>5. \A f \in configAudits' \cup menuAudits' : f \in configAudits \cup menuAudits \/ f = fact
  OBVIOUS
<1>6. \A f \in configAudits' \cup menuAudits' : f.at \in Nat /\ f.at < Saves'
  BY <1>1, <1>4, <1>5 DEF AuditsDated
<1> QED
  BY <1>4, <1>6 DEF AuditsDated

\* A document's next version is written with its fact.
LEMMA VersionWritten ==
    ASSUME PricingInv, NEW d \in Settings, NEW action, NEW next,
           DOMAIN next = {"value", "enabled", "version"}, next.version = settings[d].version + 1,
           settings' = [settings EXCEPT ![d] = next],
           configAudits' = configAudits \cup {SavedFact(d, next.version, action)},
           UNCHANGED <<menu, menuAudits>>, d = <<"vip", "all">> => MembershipNormalized'
    PROVE  PricingInv'
<1>1. PICK fact : fact = SavedFact(d, next.version, action)
  OBVIOUS
<1>2. fact.document = d /\ fact.version = next.version /\ fact.at = Saves
  BY <1>1 DEF SavedFact
<1>3. configAudits' = configAudits \cup {fact}
  BY <1>1
<1>4. AuditsDated'
  BY <1>2, <1>3, FactAdded DEF PricingInv
<1>5. DOMAIN settings' = Settings /\ settings'[d] = next /\ \A e \in Settings \ {d} : settings'[e] = settings[e]
  BY DEF PricingInv
<1>6. settings[d].version \in Nat
  BY DEF PricingInv
<1>7. ASSUME NEW e \in Settings
      PROVE  /\ Cardinality({f \in configAudits' : f.document = e}) = settings'[e].version
             /\ {f.version : f \in {f \in configAudits' : f.document = e}} = 1..settings'[e].version
  <2>1. /\ Cardinality(SettingFacts(e)) = settings[e].version
        /\ {f.version : f \in SettingFacts(e)} = 1..settings[e].version
    BY DEF PricingInv, VersionsAudited, SettingFacts
  <2>2. CASE e # d
    <3>1. {f \in configAudits' : f.document = e} = SettingFacts(e)
      BY <1>2, <1>3, <2>2 DEF SettingFacts
    <3> QED
      BY <1>5, <2>1, <2>2, <3>1
  <2>3. CASE e = d
    <3>1. {f \in configAudits' : f.document = e} = SettingFacts(d) \cup {fact}
      BY <1>2, <1>3, <2>3 DEF SettingFacts
    <3>2. IsFiniteSet(configAudits) /\ SettingFacts(d) \subseteq configAudits /\ fact \notin configAudits
      BY <1>2, SavesNatural DEF PricingInv, AuditsDated, SettingFacts
    <3>3. IsFiniteSet(SettingFacts(d)) /\ fact \notin SettingFacts(d)
      BY <3>2, FS_Subset
    <3>4. Cardinality(SettingFacts(d) \cup {fact}) = settings[d].version + 1
      BY <2>1, <2>3, <3>3, FS_AddElement
    <3>5. {f.version : f \in SettingFacts(d) \cup {fact}} = {f.version : f \in SettingFacts(d)} \cup {fact.version}
      OBVIOUS
    <3>6. {f.version : f \in SettingFacts(d) \cup {fact}} = 1..(settings[d].version + 1)
      BY <1>2, <1>6, <2>1, <2>3, <3>5
    <3> QED
      BY <1>5, <2>3, <3>1, <3>4, <3>6
  <2> QED
    BY <2>2, <2>3
<1>8. VersionsAudited'
  BY <1>7 DEF VersionsAudited
<1>9. MembershipNormalized'
  <2>1. <<"vip", "all">> \in Settings
    BY PricingAssumption DEF Settings, SettingKeys
  <2>2. d # <<"vip", "all">> => settings'[<<"vip", "all">>] = settings[<<"vip", "all">>]
    BY <1>5, <2>1
  <2> QED
    BY <2>2 DEF PricingInv, MembershipNormalized
<1>10. \A e \in Settings : DOMAIN settings'[e] = {"value", "enabled", "version"} /\ settings'[e].version \in Nat
  BY <1>5, <1>6 DEF PricingInv
<1> QED
  BY <1>4, <1>5, <1>8, <1>9, <1>10 DEF PricingInv

LEMMA DocumentSaved ==
    ASSUME PricingInv, NEW d \in Settings, NEW value, SaveDocument(d, value),
           d = <<"vip", "all">> =>
               \E overrides \in MemberOverrides :
                   ValidVIPOverrides(overrides) /\ value = NormalizeVIPOverrides(overrides)
    PROVE  PricingInv'
<1>1. PICK next : next = [value |-> value, enabled |-> TRUE, version |-> settings[d].version + 1]
  OBVIOUS
<1>2. /\ settings' = [settings EXCEPT ![d] = next] /\ UNCHANGED <<menu, menuAudits>>
      /\ configAudits' = configAudits \cup {SavedFact(d, settings'[d].version, "update")}
  BY <1>1 DEF SaveDocument, NextVersion, PricingInv
<1>3. settings'[d].version = next.version
  BY <1>2 DEF PricingInv
<1>4. configAudits' = configAudits \cup {SavedFact(d, next.version, "update")}
  BY <1>2, <1>3
<1>5. settings'[d].value = value
  BY <1>1, <1>2 DEF PricingInv
<1>6. d = <<"vip", "all">> => MembershipNormalized'
  BY <1>5 DEF MembershipNormalized, NormalizeVIPOverrides, ValidVIPOverrides
<1> QED
  BY <1>1, <1>2, <1>4, <1>6, VersionWritten

LEMMA DocumentDisabled ==
    ASSUME PricingInv, NEW a, NEW key \in SystemKeys, NEW env \in Environments, DeleteSystemConfig(a, key, env)
    PROVE  PricingInv'
<1>1. PICK d : d = <<key, env>>
  OBVIOUS
<1>2. d \in Settings
  BY <1>1 DEF Settings, SettingKeys
<1>3. /\ settings' = [settings EXCEPT ![d].enabled = FALSE, ![d].version = @ + 1] /\ UNCHANGED <<menu, menuAudits>>
      /\ configAudits' = configAudits \cup {SavedFact(d, settings'[d].version, "delete")}
  BY <1>1 DEF DeleteSystemConfig
<1>4. PICK old : old = settings[d]
  OBVIOUS
<1>5. PICK next : next = [old EXCEPT !.enabled = FALSE, !.version = @ + 1]
  OBVIOUS
<1>6. DOMAIN old = {"value", "enabled", "version"} /\ DOMAIN settings = Settings
  BY <1>2, <1>4 DEF PricingInv
<1>7. settings' = [settings EXCEPT ![d] = next]
  BY <1>2, <1>3, <1>4, <1>5, <1>6
<1>8. DOMAIN next = {"value", "enabled", "version"} /\ next.version = settings[d].version + 1
  BY <1>4, <1>5, <1>6
<1>9. configAudits' = configAudits \cup {SavedFact(d, next.version, "delete")}
  BY <1>2, <1>3, <1>6, <1>7
<1>10. d # <<"vip", "all">>
  BY <1>1 DEF SystemKeys
<1> QED
  BY <1>2, <1>3, <1>7, <1>8, <1>9, <1>10, VersionWritten

LEMMA MenuSaved ==
    ASSUME PricingInv, NEW a, NEW overrides, SaveMenu(a, overrides)
    PROVE  PricingInv'
<1>1. PICK fact : fact = [menu |-> overrides, at |-> Saves]
  OBVIOUS
<1>2. /\ menu' = overrides /\ menuAudits' = menuAudits \cup {fact} /\ UNCHANGED <<settings, configAudits>>
      /\ fact.at = Saves /\ fact.menu = overrides
  BY <1>1 DEF SaveMenu
<1>3. AuditsDated'
  BY <1>2, FactAdded DEF PricingInv
<1> QED
  BY <1>2, <1>3 DEF PricingInv, VersionsAudited, MembershipNormalized

LEMMA PricesStay ==
    ASSUME PricingInv, UNCHANGED <<settings, menu, configAudits, menuAudits>>
    PROVE  PricingInv'
BY DEF PricingInv, AuditsDated, VersionsAudited, MembershipNormalized, Saves

LEMMA PricingSteps ==
    PricingInv /\ [PricingNext]_pricingVars => PricingInv'
<1> SUFFICES ASSUME PricingInv, [PricingNext]_pricingVars PROVE PricingInv'
  OBVIOUS
<1>1. CASE UNCHANGED pricingVars
  BY <1>1, PricesStay DEF pricingVars
<1>2. ASSUME NEW a, NEW key \in SystemKeys, NEW env \in Environments,
             \/ \E value \in PackageOverrides : SaveSystemConfig(a, key, env, value)
             \/ DeleteSystemConfig(a, key, env)
      PROVE  PricingInv'
  <2>1. PICK d : d = <<key, env>>
    OBVIOUS
  <2>2. d \in Settings
    BY <2>1 DEF Settings, SettingKeys
  <2>3. d # <<"vip", "all">>
    BY <2>1 DEF SystemKeys
  <2> QED
    BY <1>2, <2>1, <2>2, <2>3, DocumentSaved, DocumentDisabled DEF SaveSystemConfig
<1>3. ASSUME NEW a, NEW overrides \in MemberOverrides, SaveVIP(a, overrides) PROVE PricingInv'
  <2>1. <<"vip", "all">> \in Settings
    BY PricingAssumption DEF Settings, SettingKeys
  <2> QED
    BY <1>3, <2>1, DocumentSaved DEF SaveVIP
<1>4. ASSUME NEW a, ShowVIP(a) PROVE PricingInv'
  BY <1>4, PricesStay DEF ShowVIP
<1> QED
  BY <1>1, <1>2, <1>3, <1>4, MenuSaved DEF PricingNext

\* The inductive invariant of prices and the menu.
LEMMA PricingInvariant == PricingSpec => []PricingInv
BY PricingBegins, PricingSteps, PTL DEF PricingSpec

\* An amount below zero was stored as a number that no amount can hold.
LEMMA AmountsKeptSane ==
    ASSUME NEW override, NEW field, NEW default, default \in Nat
    PROVE  Amount(override, field, default) >= 0 \/ Number(FieldOf(override, field)) > MaxInt64
BY DEF Amount, NonNegativeInt, ToInt64

LEMMA OverrideSane ==
    ASSUME NEW package, NEW override, NEW field \in AmountFields, DOMAIN package = DOMAIN Empty,
           package[field] \in Nat
    PROVE  \/ ApplyPackageOverride(package, override)[field] >= 0
           \/ Number(FieldOf(override, field)) > MaxInt64
<1>1. ApplyPackageOverride(package, override)[field] = Amount(override, field, package[field])
  BY DEF ApplyPackageOverride, Empty, AmountFields
<1> QED
  BY <1>1, AmountsKeptSane

\* Whatever is stored: this holds of the packages in every state.
LEMMA OffersAreSane == OffersSane
<1> DEFINE overrides == OverridesOf("coinPackages")
           builtin == DOMAIN StaticCoinPackages
           custom == {id \in DOMAIN overrides \ builtin : MarkedCustom(overrides[id])}
<1>1. Packages = [id \in builtin \cup custom |->
        IF id \in custom THEN ApplyPackageOverride(Empty, overrides[id])
        ELSE IF id \in DOMAIN overrides THEN ApplyPackageOverride(StaticCoinPackages[id], overrides[id])
        ELSE StaticCoinPackages[id]]
  BY DEF Packages, EffectiveCoinPackages
<1>2. \A id \in custom : id \notin builtin /\ MarkedCustom(overrides[id])
  OBVIOUS
<1>3. ASSUME NEW id \in custom PROVE OverridesOf("coinPackages")[id]["_custom"].n = 1
  <2>1. FieldOf(overrides[id], "_custom") = [kind |-> "bool", n |-> 1]
    BY <1>2 DEF MarkedCustom
  <2>2. "_custom" \in DOMAIN overrides[id]
    BY <2>1 DEF FieldOf, Missing
  <2> QED
    BY <2>1, <2>2 DEF FieldOf
<1> HIDE DEF overrides, custom
<1>4. ASSUME NEW id \in builtin
      PROVE  /\ DOMAIN StaticCoinPackages[id] = DOMAIN Empty
             /\ \A field \in AmountFields : StaticCoinPackages[id][field] \in Nat
  BY DEF StaticCoinPackages, Empty, AmountFields
<1>5. DOMAIN Empty = DOMAIN Empty /\ \A field \in AmountFields : Empty[field] \in Nat
  BY DEF Empty, AmountFields
<1>6. DOMAIN Packages = builtin \cup custom
  BY <1>1
<1>7. ASSUME NEW id \in builtin \cup custom, NEW field \in AmountFields
      PROVE  Packages[id][field] >= 0 \/ Number(FieldOf(overrides[id], field)) > MaxInt64
  <2>1. CASE id \in custom
    BY <1>1, <1>5, <2>1, OverrideSane
  <2>2. CASE id \notin custom /\ id \in DOMAIN overrides
    <3>1. id \in builtin /\ Packages[id] = ApplyPackageOverride(StaticCoinPackages[id], overrides[id])
      BY <1>1, <2>2
    <3> QED
      BY <1>4, <3>1, OverrideSane
  <2>3. CASE id \notin custom /\ id \notin DOMAIN overrides
    <3>1. id \in builtin /\ Packages[id] = StaticCoinPackages[id]
      BY <1>1, <2>3
    <3> QED
      BY <1>4, <3>1
  <2> QED
    BY <2>1, <2>2, <2>3
<1> QED
  BY <1>3, <1>6, <1>7 DEF OffersSane, overrides

\* What an amount is converted to can be held.
LEMMA ConvertedAmounts ==
    ASSUME NEW overrides \in MemberOverrides, NEW f \in DOMAIN overrides
    PROVE  ToInt64(Number(overrides[f])) \in Int /\ ToInt64(Number(overrides[f])) <= MaxInt64
<1>1. overrides[f] \in Value
  BY PricingAssumption
<1>2. Number(overrides[f]) \in Int
  BY <1>1 DEF Number, Value
<1> QED
  BY <1>2, PricingAssumption DEF ToInt64

\* It is kept as it is then, or is below zero and gives way to the default.
LEMMA MembershipIsSane == PricingInv => MembershipSane
<1> SUFFICES ASSUME PricingInv, NEW f \in MemberFields PROVE VIP[f] >= 0
  BY DEF MembershipSane
<1>1. StaticVIPConfig[f] \in Nat
  BY DEF StaticVIPConfig, MemberFields
<1>2. CASE ~settings[<<"vip", "all">>].enabled
  BY <1>1, <1>2 DEF VIP, Load
<1>3. CASE settings[<<"vip", "all">>].enabled
  <2>1. PICK sent \in MemberOverrides :
            ValidVIPOverrides(sent) /\ settings[<<"vip", "all">>].value = NormalizeVIPOverrides(sent)
    BY <1>3 DEF PricingInv, MembershipNormalized
  <2>2. PICK stored : stored = NormalizeVIPOverrides(sent)
    OBVIOUS
  <2>3. Load("vip", "all") = {stored}
    BY <1>3, <2>1, <2>2 DEF Load
  <2>4. VIP = EffectiveVIPConfig(stored)
    BY <2>3 DEF VIP, OverridesOf
  <2>5. PICK v : v = FieldOf(stored, f)
    OBVIOUS
  <2>6. /\ DOMAIN stored = DOMAIN sent
        /\ \A g \in DOMAIN sent :
              stored[g] = [kind |-> "int",
                           n |-> IF g = "firstMonthMultiplier" THEN Number(sent[g]) ELSE ToInt64(Number(sent[g]))]
    BY <2>2 DEF NormalizeVIPOverrides
  <2>7. \/ v = Missing
        \/ /\ f \in DOMAIN sent /\ v.kind = "int"
           /\ v.n = IF f = "firstMonthMultiplier" THEN Number(sent[f]) ELSE ToInt64(Number(sent[f]))
    BY <2>5, <2>6 DEF FieldOf
  <2>8. CASE f = "firstMonthMultiplier"
    <3>1. VIP[f] \in {StaticVIPConfig[f], Number(v)}
      BY <2>4, <2>5, <2>8 DEF EffectiveVIPConfig, QuotaFields
    <3>2. Number(v) >= 0
      <4>1. CASE v = Missing
        BY <4>1 DEF Missing, Number
      <4>2. CASE v # Missing
        <5>1. f \in DOMAIN sent /\ Number(v) = Number(sent[f])
          BY <2>7, <2>8, <4>2 DEF Number
        <5>2. Number(sent[f]) >= 1 /\ sent[f] \in Value
          BY <2>1, <2>8, <5>1, PricingAssumption DEF ValidVIPOverrides
        <5>3. Number(sent[f]) \in Int
          BY <5>2 DEF Number, Value
        <5> QED
          BY <5>1, <5>2, <5>3
      <4> QED
        BY <4>1, <4>2
    <3> QED
      BY <1>1, <3>1, <3>2
  <2>9. CASE f # "firstMonthMultiplier"
    <3>1. VIP[f] \in {StaticVIPConfig[f], Amount(stored, f, StaticVIPConfig[f])}
      BY <2>4, <2>9 DEF EffectiveVIPConfig
    <3>2. Number(v) \in Int /\ Number(v) <= MaxInt64
      <4>1. CASE v = Missing
        BY <4>1, PricingAssumption DEF Missing, Number
      <4>2. CASE v # Missing
        BY <2>7, <2>9, <4>2, ConvertedAmounts DEF Number
      <4> QED
        BY <4>1, <4>2
    <3>3. Amount(stored, f, StaticVIPConfig[f]) >= 0
      <4>1. ToInt64(Number(v)) = Number(v)
        BY <3>2, PricingAssumption DEF ToInt64
      <4> QED
        BY <1>1, <2>5, <3>2, <4>1 DEF Amount, NonNegativeInt
    <3> QED
      BY <1>1, <3>1, <3>3
  <2> QED
    BY <2>8, <2>9
<1> QED
  BY <1>2, <1>3

LEMMA PricingInvSafe == PricingInv => PricingSafe
BY OffersAreSane, MembershipIsSane DEF PricingInv, PricingSafe

\* PricingSafe: versions without a gap, and amounts on offer that are none below
\* zero but where a number that no amount can hold is stored for one.
THEOREM PricesStaySafe == PricingSpec => []PricingSafe
BY PricingInvariant, PricingInvSafe, PTL

\* StorefrontSafe: applications' claims, links' own addresses where their target
\* paths parse, clicks, dates and amounts hold in every interleaving of the three
\* components, whatever numbers and paths are sent.
THEOREM StorefrontStaysSafe == StorefrontSpec => StorefrontSafe
<1> QED
  BY ApplicationsStaySafe, MarketingStaysSafe, PricesStaySafe, PTL
     DEF StorefrontSpec, StorefrontSafe, ShownAsSaved

-----------------------------------------------------------------------------
(* Images.                                                                   *)

\* Images whose creation times differ.
DatedApart(ids, lib) ==
    /\ IsFiniteSet(ids) /\ ids \subseteq DOMAIN lib
    /\ \A x \in ids : lib[x].created \in Int
    /\ \A x, y \in ids : x # y => lib[x].created # lib[y].created

\* They have an order by time.
LEMMA DatedOrdered ==
    ASSUME NEW ids, NEW lib, DatedApart(ids, lib)
    PROVE  Ordered(ids, ByTime(lib))
<1>1. \A x, y \in ids : <<x, y>> \in ByTime(lib) <=> lib[x].created > lib[y].created
  BY DEF DatedApart, ByTime
<1>2. QED BY <1>1 DEF DatedApart, Ordered

\* A page begins and ends at numbers.
LEMMA PageBounds ==
    ASSUME NEW q \in ImageQueries
    PROVE  Limit(q) \in 1..MaxPageSize /\ Skip(q) \in Nat /\ FetchLimit(q) \in Nat /\ MaxPageSize \in Nat
<1>1. /\ q.page \in Int /\ q.limit \in Int
      /\ MaxFetch \in Nat /\ MaxPageSize \in Nat /\ DefaultLimit \in 1..MaxPageSize
  BY ImagesAssumption
<1>2. Limit(q) \in 1..MaxPageSize
  BY <1>1 DEF Limit
<1>3. \A a, b \in Nat : a * b \in Nat
  OBVIOUS
<1>4. Skip(q) \in Nat
  <2>1. CASE q.page < 1
    BY <2>1 DEF Skip
  <2>2. CASE ~(q.page < 1)
    <3>1. q.page - 1 \in Nat /\ Limit(q) \in Nat
      BY <1>1, <1>2, <2>2
    <3>2. QED BY <1>3, <2>2, <3>1 DEF Skip
  <2>3. QED BY <2>1, <2>2
<1>5. QED BY <1>1, <1>2, <1>4 DEF FetchLimit

\* And so the same page.
LEMMA PageAlike ==
    ASSUME NEW all, NEW lib, DatedApart(all, lib), NEW read \in SUBSET all, NEW q \in ImageQueries,
           \A x \in all : Rank(x, all, ByTime(lib)) < Skip(q) + Limit(q) => x \in read
    PROVE  PageOf(Newest(read, lib), q) = PageOf(Newest(all, lib), q)
<1> DEFINE n == Skip(q) + Limit(q)
           s == Newest(read, lib)
           t == Newest(all, lib)
           m == IF n > Len(t) THEN Len(t) ELSE n
<1>1. n \in Nat /\ Skip(q) \in Nat
  BY PageBounds
<1>2. DatedApart(read, lib)
  BY FS_Subset DEF DatedApart
<1>3. /\ s \in Seq(read) /\ Len(s) = Cardinality(read) /\ Cardinality(read) \in Nat
      /\ t \in Seq(all) /\ Len(t) = Cardinality(all) /\ Cardinality(all) \in Nat
  BY <1>2, DatedOrdered, SortedByRank DEF Newest
<1>4. /\ \A i \in 1..n : i <= Cardinality(all) => i <= Cardinality(read) /\ s[i] = t[i]
      /\ Cardinality(read) <= Cardinality(all)
  BY <1>1, DatedOrdered, SortedAlike DEF Newest
<1> HIDE DEF n, s, t
<1>5. m = IF n > Len(s) THEN Len(s) ELSE n
  <2>1. CASE n > Cardinality(all)
    <3>1. Cardinality(all) = 0 \/ Cardinality(all) \in 1..n
      BY <1>1, <1>3, <2>1
    <3>2. Cardinality(all) <= Cardinality(read)
      BY <1>3, <1>4, <3>1
    <3>3. QED BY <1>1, <1>3, <1>4, <2>1, <3>2
  <2>2. CASE ~(n > Cardinality(all))
    <3>1. n = 0 \/ n \in 1..n
      BY <1>1
    <3>2. n <= Cardinality(read)
      BY <1>1, <1>3, <1>4, <2>2, <3>1
    <3>3. QED BY <1>1, <1>3, <2>2, <3>2
  <2>3. QED BY <2>1, <2>2
<1>6. m \in Nat /\ \A i \in (Skip(q) + 1)..m : s[i] = t[i] /\ t[i] \in all
  BY <1>1, <1>3, <1>4
<1>7. PageOf(s, q) = SubSeq(s, Skip(q) + 1, m) /\ PageOf(t, q) = SubSeq(t, Skip(q) + 1, m)
  BY <1>5 DEF PageOf, n
<1> HIDE DEF m
<1> DEFINE a == Skip(q) + 1
<1>8. a \in Int /\ m \in Int /\ \A i \in a..m : s[i] \in all /\ t[i] \in all
  BY <1>1, <1>6
<1>9. /\ SubSeq(s, a, m) \in Seq(all) /\ SubSeq(t, a, m) \in Seq(all)
      /\ Len(SubSeq(s, a, m)) = IF a <= m THEN m - a + 1 ELSE 0
      /\ Len(SubSeq(t, a, m)) = IF a <= m THEN m - a + 1 ELSE 0
      /\ \A i \in 1..(m - a + 1) : SubSeq(s, a, m)[i] = s[a + i - 1]
      /\ \A i \in 1..(m - a + 1) : SubSeq(t, a, m)[i] = t[a + i - 1]
  <2> HIDE DEF a
  <2>1. QED BY <1>8, SubSeqProperties
<1> DEFINE u == SubSeq(s, a, m)
           v == SubSeq(t, a, m)
<1>10. ASSUME NEW i \in 1..Len(u) PROVE u[i] = v[i]
  <2>1. i \in 1..(m - a + 1) /\ a + i - 1 \in a..m
    BY <1>8, <1>9
  <2>2. QED BY <1>6, <1>9, <2>1
<1>11. u = v
  <2>1. u \in Seq(all) /\ v \in Seq(all) /\ Len(u) = Len(v)
    BY <1>9
  <2> HIDE DEF u, v
  <2>2. QED BY <1>10, <2>1, SeqEqual
<1>12. QED BY <1>7, <1>11 DEF s, t

\* The images are those of a library still, but for what was withdrawn.
LibraryKept ==
    /\ DatedApart(DOMAIN images, images)
    /\ \A id \in DOMAIN images :
          DOMAIN images[id] = DocumentFields /\ \E i \in 1..3 : images[id].collection = Collections[i]

\* The images of the first k collections that are on a list, and those of
\* them that are read.
OnList(id, q) == ~Skipped(images[id].collection, q) /\ Fits(images[id], q)
ListedOf(c, q) == {id \in InCollection(c) : OnList(id, q)}
Listed(k, q) == {id \in DOMAIN images : OnList(id, q) /\ \E i \in 1..k : images[id].collection = Collections[i]}
ReadOf(k, q) == {id \in Listed(k, q) : Rank(id, ListedOf(images[id].collection, q), ByTime(images)) < FetchLimit(q)}

ListShape ==
    /\ list \in [pc : {"idle", "count", "find", "merge", "answered"}, query : ImageQueries \cup {MissingField}, at : 1..3,
                total : Nat, read : SUBSET DOMAIN images, page : Seq(DOMAIN images), quiet : BOOLEAN]
    /\ list.pc # "idle" => list.query \in ImageQueries

\* How far a list nothing was changed under has come.
ListCounts ==
    list.quiet =>
        /\ list.pc = "count" => /\ list.read = ReadOf(list.at - 1, list.query)
                                /\ list.total = Cardinality(Listed(list.at - 1, list.query))
        /\ list.pc = "find" => /\ list.read = ReadOf(list.at - 1, list.query)
                               /\ list.total = Cardinality(Listed(list.at, list.query))
                               /\ ~Skipped(Collections[list.at], list.query)
        /\ list.pc \in {"merge", "answered"} => /\ list.read = ReadOf(3, list.query)
                                                /\ list.total = Cardinality(Listed(3, list.query))
        /\ list.pc = "answered" => list.page = PageOf(Newest(list.read, images), list.query)

ImagesInv == LibraryKept /\ ListShape /\ ListCounts /\ PublicNotHidden

LEMMA ImagesInitInv == ImagesInit => ImagesInv
<1> SUFFICES ASSUME ImagesInit PROVE ImagesInv  OBVIOUS
<1>1. images \in Libraries /\ list = NoList
  BY DEF ImagesInit
<1>2. LibraryKept /\ PublicNotHidden
  BY <1>1, ImagesAssumption DEF LibraryKept, DatedApart, PublicNotHidden, InCollection
<1>3. ListShape
  <2>1. << >> \in Seq(DOMAIN images)
    OBVIOUS
  <2>2. QED BY <1>1, <2>1 DEF ListShape, NoList
<1>4. ListCounts
  BY <1>1 DEF ListCounts, NoList
<1>5. QED BY <1>2, <1>3, <1>4 DEF ImagesInv

\* A part of the images is dated as all are.
LEMMA PartDated ==
    ASSUME LibraryKept, NEW ids \in SUBSET DOMAIN images
    PROVE  DatedApart(ids, images)
BY FS_Subset DEF LibraryKept, DatedApart

\* A collection more: its images on the list were not among the others.
LEMMA OneMoreListed ==
    ASSUME LibraryKept, NEW k \in 1..3, NEW q
    PROVE  /\ Listed(k, q) = Listed(k - 1, q) \cup ListedOf(Collections[k], q)
           /\ Cardinality(Listed(k, q)) = Cardinality(Listed(k - 1, q)) + Cardinality(ListedOf(Collections[k], q))
           /\ Cardinality(Listed(k, q)) \in Nat /\ Cardinality(Listed(k - 1, q)) \in Nat
           /\ Cardinality(ListedOf(Collections[k], q)) \in Nat
           /\ ReadOf(k, q) = ReadOf(k - 1, q) \cup
                  {id \in ListedOf(Collections[k], q) : Rank(id, ListedOf(Collections[k], q), ByTime(images)) < FetchLimit(q)}
<1> DEFINE more == ListedOf(Collections[k], q)
<1>1. \A i, j \in 1..3 : Collections[i] = Collections[j] => i = j
  BY DEF Collections
<1>2. \A i \in 1..k : i \in 1..3 /\ (i = k \/ i \in 1..(k - 1))
  OBVIOUS
<1>3. \A i \in 1..(k - 1) : i \in 1..k /\ i # k
  OBVIOUS
<1>4. Listed(k, q) = Listed(k - 1, q) \cup more
  BY <1>2, <1>3 DEF Listed, ListedOf, InCollection
<1>5. Listed(k - 1, q) \cap more = {}
  BY <1>1, <1>2, <1>3 DEF Listed, ListedOf, InCollection
<1>6. Listed(k, q) \in SUBSET DOMAIN images /\ Listed(k - 1, q) \in SUBSET DOMAIN images /\ more \in SUBSET DOMAIN images
  BY DEF Listed, ListedOf, InCollection
<1>7. IsFiniteSet(Listed(k, q)) /\ IsFiniteSet(Listed(k - 1, q)) /\ IsFiniteSet(more)
  BY <1>6, PartDated DEF DatedApart
<1>8. /\ Cardinality(Listed(k, q)) \in Nat /\ Cardinality(Listed(k - 1, q)) \in Nat /\ Cardinality(more) \in Nat
      /\ Cardinality(Listed(k, q)) = Cardinality(Listed(k - 1, q)) + Cardinality(more)
  <2>1. Cardinality(Listed(k, q)) \in Nat /\ Cardinality(Listed(k - 1, q)) \in Nat /\ Cardinality(more) \in Nat
    BY <1>7, FS_CardinalityType
  <2>2. Cardinality(Listed(k - 1, q) \cup more)
          = Cardinality(Listed(k - 1, q)) + Cardinality(more) - Cardinality(Listed(k - 1, q) \cap more)
    BY <1>7, FS_Union
  <2>3. Cardinality({}) = 0
    BY FS_EmptySet
  <2> HIDE DEF more
  <2>4. Cardinality(Listed(k - 1, q) \cap more) = 0
    BY <1>5, <2>3
  <2>5. Cardinality(Listed(k, q)) = Cardinality(Listed(k - 1, q) \cup more)
    BY <1>4
  <2>6. QED BY <2>1, <2>2, <2>4, <2>5
<1>9. ReadOf(k, q) = ReadOf(k - 1, q) \cup {id \in more : Rank(id, more, ByTime(images)) < FetchLimit(q)}
  <2>1. \A id \in more : images[id].collection = Collections[k]
    BY DEF ListedOf, InCollection
  <2>2. QED BY <1>4, <2>1 DEF ReadOf
<1>10. QED BY <1>4, <1>8, <1>9

LEMMA SkippedListsNone ==
    ASSUME NEW c, NEW q, Skipped(c, q)
    PROVE  ListedOf(c, q) = {}
BY DEF ListedOf, OnList, InCollection

LEMMA NoneListed ==
    ASSUME NEW q
    PROVE  Listed(0, q) = {} /\ ReadOf(0, q) = {}
BY DEF Listed, ReadOf
\* A list that does not move, over the same images, counts what it did.
LEMMA ListRests ==
    ASSUME ImagesInv, UNCHANGED <<images, list>>
    PROVE  ImagesInv'
<1>1. LibraryKept' /\ PublicNotHidden'
  BY DEF ImagesInv, LibraryKept, DatedApart, PublicNotHidden, InCollection
<1>2. ListShape'
  BY DEF ImagesInv, ListShape
<1>3. ListCounts'
  BY DEF ImagesInv, ListCounts, ReadOf, Listed, ListedOf, OnList, InCollection
<1>4. QED BY <1>1, <1>2, <1>3 DEF ImagesInv

\* A list that moves leaves the images.
LEMMA ListMoves ==
    ASSUME ImagesInv, UNCHANGED images, ListShape', ListCounts'
    PROVE  ImagesInv'
BY DEF ImagesInv, LibraryKept, DatedApart, PublicNotHidden, InCollection

\* What is on a list, said of the images of the next state, is the same.
LEMMA SameListed ==
    ASSUME UNCHANGED images
    PROVE  \A k, q : Listed(k, q)' = Listed(k, q) /\ ReadOf(k, q)' = ReadOf(k, q)
BY DEF ReadOf, Listed, ListedOf, OnList, InCollection
\* The collections are read one after the other.
LEMMA NextReadCounts ==
    ASSUME ImagesInv, UNCHANGED images, list.pc \in {"count", "find"}, NEW l, list' = NextCollection(l),
           l \in [pc : {"count", "find"}, query : ImageQueries, at : 1..3, total : Nat,
                 read : SUBSET DOMAIN images, page : Seq(DOMAIN images), quiet : BOOLEAN],
           l.quiet => l.read = ReadOf(l.at, l.query) /\ l.total = Cardinality(Listed(l.at, l.query))
    PROVE  ImagesInv'
<1>1. Len(Collections) = 3
  BY DEF Collections
<1>2. CASE l.at = 3
  <2>1. list' = [l EXCEPT !.pc = "merge"]
    BY <1>1, <1>2 DEF NextCollection
  <2>2. ListShape'
    BY <2>1 DEF ListShape
  <2>3. ListCounts'
    BY <1>2, <2>1, SameListed DEF ListCounts
  <2>4. QED BY <2>2, <2>3, ListMoves
<1>3. CASE l.at # 3
  <2>1. list' = [l EXCEPT !.pc = "count", !.at = l.at + 1] /\ l.at + 1 \in 1..3 /\ l.at + 1 - 1 = l.at
    BY <1>1, <1>3 DEF NextCollection
  <2>2. ListShape'
    BY <2>1 DEF ListShape
  <2>3. ListCounts'
    BY <2>1, SameListed DEF ListCounts
  <2>4. QED BY <2>2, <2>3, ListMoves
<1>4. QED BY <1>2, <1>3

LEMMA BeginListInv ==
    ASSUME ImagesInv, BeginList
    PROVE  ImagesInv'
<1>1. PICK q \in ImageQueries : list' = [NoList EXCEPT !.pc = "count", !.query = q]
  BY DEF BeginList
<1>2. << >> \in Seq(DOMAIN images) /\ UNCHANGED images
  BY DEF BeginList
<1>3. list' = [pc |-> "count", query |-> q, at |-> 1, total |-> 0, read |-> {}, page |-> << >>, quiet |-> TRUE]
  BY <1>1 DEF NoList
<1>4. ListShape'
  BY <1>2, <1>3 DEF ListShape
<1>5. ListCounts'
  <2>1. Cardinality({}) = 0 /\ 1 - 1 = 0
    BY FS_EmptySet
  <2>2. QED BY <1>2, <1>3, <2>1, SameListed, NoneListed DEF ListCounts
<1>6. QED BY <1>2, <1>4, <1>5, ListMoves

LEMMA SkipCollectionInv ==
    ASSUME ImagesInv, SkipCollection
    PROVE  ImagesInv'
<1> USE DEF SkipCollection, Here
<1>1. list.at \in 1..3 /\ list.query \in ImageQueries
  BY DEF ImagesInv, ListShape
<1>2. ListedOf(Collections[list.at], list.query) = {}
  BY SkippedListsNone
<1>3. list.quiet => /\ list.read = ReadOf(list.at, list.query)
                    /\ list.total = Cardinality(Listed(list.at, list.query))
  <2>1. ReadOf(list.at, list.query) = ReadOf(list.at - 1, list.query)
        /\ Listed(list.at, list.query) = Listed(list.at - 1, list.query)
    <3>1. {id \in ListedOf(Collections[list.at], list.query) :
                Rank(id, ListedOf(Collections[list.at], list.query), ByTime(images)) < FetchLimit(list.query)} = {}
      BY <1>2
    <3>2. LibraryKept
      BY DEF ImagesInv
    <3>3. /\ Listed(list.at, list.query)
                = Listed(list.at - 1, list.query) \cup ListedOf(Collections[list.at], list.query)
          /\ ReadOf(list.at, list.query) = ReadOf(list.at - 1, list.query) \cup
                {id \in ListedOf(Collections[list.at], list.query) :
                    Rank(id, ListedOf(Collections[list.at], list.query), ByTime(images)) < FetchLimit(list.query)}
      BY <1>1, <3>2, OneMoreListed
    <3>4. QED BY <1>2, <3>1, <3>3
  <2>2. QED BY <2>1 DEF ImagesInv, ListCounts
<1>4. list \in [pc : {"count", "find"}, query : ImageQueries, at : 1..3, total : Nat,
                 read : SUBSET DOMAIN images, page : Seq(DOMAIN images), quiet : BOOLEAN]
  BY DEF ImagesInv, ListShape
<1>5. QED BY <1>3, <1>4, NextReadCounts

LEMMA CountCollectionInv ==
    ASSUME ImagesInv, CountCollection
    PROVE  ImagesInv'
<1> USE DEF CountCollection, Here
<1> DEFINE here == Collections[list.at]
           fits == {id \in InCollection(here) : Fits(images[id], list.query)}
<1>1. list.at \in 1..3 /\ list.query \in ImageQueries
  BY DEF ImagesInv, ListShape
<1>2. ListedOf(here, list.query) = fits
  BY DEF ListedOf, OnList, InCollection
<1>3. Cardinality(fits) \in Nat
      /\ Cardinality(Listed(list.at, list.query)) = Cardinality(Listed(list.at - 1, list.query)) + Cardinality(fits)
  BY <1>1, <1>2, OneMoreListed DEF ImagesInv
<1>4. list' = [list EXCEPT !.pc = "find", !.total = @ + Cardinality(fits)] /\ UNCHANGED images
      /\ ~Skipped(here, list.query) /\ list.pc = "count"
  OBVIOUS
<1> HIDE DEF fits, CountCollection
<1>5. ListShape'
  <2>1. list.total + Cardinality(fits) \in Nat
    BY <1>3 DEF ImagesInv, ListShape
  <2>2. QED BY <1>4, <2>1 DEF ImagesInv, ListShape
<1>6. ListCounts'
  BY <1>3, <1>4, SameListed DEF ImagesInv, ListShape, ListCounts
<1>7. QED BY <1>4, <1>5, <1>6, ListMoves

LEMMA FindCollectionInv ==
    ASSUME ImagesInv, FindCollection
    PROVE  ImagesInv'
<1> DEFINE here == Collections[list.at]
           fits == {id \in InCollection(here) : Fits(images[id], list.query)}
           found == Range(Leading(Newest(fits, images), FetchLimit(list.query)))
           l == [list EXCEPT !.read = @ \cup found]
<1>1. list.at \in 1..3 /\ list.query \in ImageQueries /\ list.pc = "find" /\ list' = NextCollection(l) /\ UNCHANGED images
  BY DEF ImagesInv, ListShape, FindCollection, Here
<1>2. fits \in SUBSET DOMAIN images
  BY DEF InCollection
<1>3. found = {x \in fits : Rank(x, fits, ByTime(images)) < FetchLimit(list.query)}
  <2>1. DatedApart(fits, images)
    BY <1>2, PartDated DEF ImagesInv
  <2>2. FetchLimit(list.query) \in Nat
    BY <1>1, PageBounds
  <2> HIDE DEF fits
  <2>3. QED BY <2>1, <2>2, DatedOrdered, LeadingRanked DEF Newest
<1> HIDE DEF found
<1>4. l \in [pc : {"count", "find"}, query : ImageQueries, at : 1..3, total : Nat,
              read : SUBSET DOMAIN images, page : Seq(DOMAIN images), quiet : BOOLEAN]
  BY <1>1, <1>2, <1>3 DEF ImagesInv, ListShape
<1>5. /\ l.quiet = list.quiet /\ l.at = list.at /\ l.query = list.query /\ l.total = list.total
      /\ l.read = list.read \cup found
  BY DEF ImagesInv, ListShape
<1>6. ASSUME list.quiet
      PROVE  l.read = ReadOf(list.at, list.query) /\ l.total = Cardinality(Listed(list.at, list.query))
  <2>1. /\ list.read = ReadOf(list.at - 1, list.query) /\ ~Skipped(here, list.query)
        /\ list.total = Cardinality(Listed(list.at, list.query))
    BY <1>1, <1>6 DEF ImagesInv, ListCounts
  <2>2. ListedOf(here, list.query) = fits
    BY <2>1 DEF ListedOf, OnList, InCollection
  <2> HIDE DEF fits, l
  <2>3. ReadOf(list.at, list.query) = ReadOf(list.at - 1, list.query) \cup found
    BY <1>1, <1>3, <2>2, OneMoreListed DEF ImagesInv
  <2>4. QED BY <1>5, <2>1, <2>3
<1> HIDE DEF l
<1>7. QED BY <1>1, <1>4, <1>5, <1>6, NextReadCounts

LEMMA MergeListInv ==
    ASSUME ImagesInv, MergeList
    PROVE  ImagesInv'
<1> DEFINE page == PageOf(Newest(list.read, images), list.query)
<1>1. list.query \in ImageQueries /\ list.pc = "merge" /\ UNCHANGED images
      /\ list' = [list EXCEPT !.pc = "answered", !.page = page]
  BY DEF ImagesInv, ListShape, MergeList
<1>2. page \in Seq(DOMAIN images)
  <2> DEFINE s == Newest(list.read, images)
             n == Skip(list.query) + Limit(list.query)
  <2>1. list.read \in SUBSET DOMAIN images
    BY DEF ImagesInv, ListShape
  <2>2. s \in Seq(list.read) /\ Len(s) \in Nat
    BY <2>1, PartDated, DatedOrdered, SortedByRank DEF ImagesInv, Newest
  <2>3. n \in Nat /\ Skip(list.query) \in Nat
    BY <1>1, PageBounds
  <2> HIDE DEF s, n
  <2>4. \A i \in (Skip(list.query) + 1)..(IF n > Len(s) THEN Len(s) ELSE n) : s[i] \in DOMAIN images
    BY <2>1, <2>2, <2>3
  <2>5. SubSeq(s, Skip(list.query) + 1, IF n > Len(s) THEN Len(s) ELSE n) \in Seq(DOMAIN images)
    BY <2>2, <2>3, <2>4, SubSeqProperties
  <2>6. QED BY <2>5 DEF PageOf, s, n
<1> HIDE DEF page
<1>3. ListShape'
  BY <1>1, <1>2 DEF ImagesInv, ListShape
<1>4. ListCounts'
  <2>1. PageOf(Newest(list.read, images), list.query)' = PageOf(Newest(list.read, images), list.query)
    <3>1. list'.read = list.read /\ list'.query = list.query
      BY <1>1 DEF ImagesInv, ListShape
    <3>2. QED BY <1>1, <3>1
  <2>2. QED BY <1>1, <2>1, SameListed DEF ImagesInv, ListShape, ListCounts, page
<1>5. QED BY <1>1, <1>3, <1>4, ListMoves

LEMMA ListEndsInv ==
    ASSUME ImagesInv, ListFails \/ ListDone
    PROVE  ImagesInv'
<1>1. list' = NoList /\ UNCHANGED images
  BY DEF ListFails, ListDone
<1>2. ListShape'
  <2>1. << >> \in Seq(DOMAIN images)
    OBVIOUS
  <2>2. QED BY <1>1, <2>1 DEF ListShape, NoList
<1>3. ListCounts'
  BY <1>1 DEF ListCounts, NoList
<1>4. QED BY <1>1, <1>2, <1>3, ListMoves

\* Withdrawing changes nothing of an image that orders it.
LEMMA WithdrawnKept ==
    ASSUME NEW d, DOMAIN d = DocumentFields, NEW status
    PROVE  LET w == Withdrawn(d, status)
           IN /\ DOMAIN w = DocumentFields /\ w.collection = d.collection /\ w.created = d.created
              /\ w.status = status
              /\ w.public => d.public /\ (d.collection = "generatedimages" => status \notin {"hide", "hidden", "delete"})
BY DEF Withdrawn, DocumentFields

\* Images are withdrawn while a list is read, or none is.
LEMMA WithdrawInv ==
    ASSUME ImagesInv, Disturb, DOMAIN images' = DOMAIN images,
           \A id \in DOMAIN images :
              images'[id] = images[id] \/ \E status \in Mutations \cup {"hidden"} : images'[id] = Withdrawn(images[id], status)
    PROVE  ImagesInv'
<1>1. \A id \in DOMAIN images :
          /\ DOMAIN images'[id] = DocumentFields /\ images'[id].collection = images[id].collection
          /\ images'[id].created = images[id].created
          /\ images[id].collection = "generatedimages" /\ Public(images[id]) => Public(images'[id])
  <2>1. ASSUME NEW id \in DOMAIN images, NEW status \in Mutations \cup {"hidden"},
               images'[id] = Withdrawn(images[id], status)
        PROVE  /\ DOMAIN images'[id] = DocumentFields /\ images'[id].collection = images[id].collection
               /\ images'[id].created = images[id].created
               /\ images[id].collection = "generatedimages" => Public(images'[id])
    <3>1. DOMAIN images[id] = DocumentFields
      BY DEF ImagesInv, LibraryKept
    <3>2. QED BY <2>1, <3>1, WithdrawnKept DEF Public, Mutations
  <2>2. \A id \in DOMAIN images : DOMAIN images[id] = DocumentFields
    BY DEF ImagesInv, LibraryKept
  <2>3. QED BY <2>1, <2>2
<1>2. LibraryKept'
  BY <1>1 DEF ImagesInv, LibraryKept, DatedApart
<1>3. PublicNotHidden'
  BY <1>1 DEF ImagesInv, PublicNotHidden, InCollection
<1>4. ListShape'
  BY DEF ImagesInv, ListShape, Disturb
<1>5. ListCounts'
  BY DEF ImagesInv, ListShape, ListCounts, Disturb
<1>6. QED BY <1>2, <1>3, <1>4, <1>5 DEF ImagesInv

LEMMA MutateInv ==
    ASSUME ImagesInv, Mutate
    PROVE  ImagesInv'
<1>1. PICK id \in DOMAIN images, m \in Mutations : images' = [images EXCEPT ![id] = Withdrawn(images[id], m)]
  BY DEF Mutate
<1>2. QED BY <1>1, WithdrawInv DEF Mutate

LEMMA BatchCollectionInv ==
    ASSUME ImagesInv, BatchCollection
    PROVE  ImagesInv'
BY WithdrawInv DEF BatchCollection

LEMMA ImagesStep == ImagesInv /\ [ImagesNext]_imageVars => ImagesInv'
<1> SUFFICES ASSUME ImagesInv, [ImagesNext]_imageVars PROVE ImagesInv'
  OBVIOUS
<1>1. CASE BeginList
  BY <1>1, BeginListInv
<1>2. CASE SkipCollection
  BY <1>2, SkipCollectionInv
<1>3. CASE CountCollection
  BY <1>3, CountCollectionInv
<1>4. CASE FindCollection
  BY <1>4, FindCollectionInv
<1>5. CASE MergeList
  BY <1>5, MergeListInv
<1>6. CASE ListFails \/ ListDone
  BY <1>6, ListEndsInv
<1>7. CASE Mutate
  BY <1>7, MutateInv
<1>8. CASE BatchCollection
  BY <1>8, BatchCollectionInv
<1>9. CASE BeginBatch \/ BatchFails
  BY <1>9, ListRests DEF BeginBatch, BatchFails
<1>10. CASE BeginStats \/ CountActive \/ CountHidden \/ CountDeleted \/ CountToday \/ StatsDone
  BY <1>10, ListRests DEF BeginStats, CountActive, CountHidden, CountDeleted, CountToday, StatsDone
<1>11. CASE BeginOptions \/ AggregateTemplates \/ OptionsDone
  BY <1>11, ListRests DEF BeginOptions, AggregateTemplates, OptionsDone
<1>12. CASE UNCHANGED imageVars
  BY <1>12, ListRests DEF imageVars
<1>13. QED
  BY <1>1, <1>2, <1>3, <1>4, <1>5, <1>6, <1>7, <1>8, <1>9, <1>10, <1>11, <1>12 DEF ImagesNext

LEMMA ImagesIsInductive == ImagesSpec => []ImagesInv
<1>1. QED
  BY ImagesInitInv, ImagesStep, PTL DEF ImagesSpec

\* Of the images that belong before the end of the page, each is read: no more of
\* its own collection are newer than of all.
LEMMA PageRead ==
    ASSUME ImagesInv, NEW q \in ImageQueries, Answerable(q)
    PROVE  PageOf(Newest(ReadOf(3, q), images), q) = PageOf(Newest(Listed(3, q), images), q)
<1> DEFINE all == Listed(3, q)
           read == ReadOf(3, q)
<1>1. /\ all \in SUBSET DOMAIN images /\ read \in SUBSET all
      /\ \A x \in all : ListedOf(images[x].collection, q) \subseteq all /\ x \in ListedOf(images[x].collection, q)
  BY DEF Listed, ReadOf, ListedOf, InCollection
<1>2. FetchLimit(q) = Skip(q) + Limit(q)
  BY ImagesAssumption, PageBounds DEF FetchLimit, Answerable
<1>3. ASSUME NEW x \in all, Rank(x, all, ByTime(images)) < Skip(q) + Limit(q) PROVE x \in read
  <2> DEFINE own == ListedOf(images[x].collection, q)
  <2>1. own \subseteq all /\ x \in own
    BY <1>1
  <2>2. DatedApart(own, images) /\ DatedApart(all, images)
    BY <1>1, <2>1, PartDated DEF ImagesInv
  <2> HIDE DEF own, all
  <2>3. Ahead(x, own, ByTime(images)) \subseteq Ahead(x, all, ByTime(images))
    BY <2>1 DEF Ahead
  <2>4. IsFiniteSet(Ahead(x, all, ByTime(images))) /\ Rank(x, all, ByTime(images)) \in Nat /\ Rank(x, own, ByTime(images)) \in Nat
    BY <2>1, <2>2, DatedOrdered, FewerAreAhead
  <2>5. Rank(x, own, ByTime(images)) <= Rank(x, all, ByTime(images))
    BY <2>3, <2>4, FS_Subset DEF Rank
  <2>6. Skip(q) + Limit(q) \in Nat
    BY PageBounds
  <2>7. Rank(x, own, ByTime(images)) < FetchLimit(q)
    BY <1>2, <1>3, <2>4, <2>5, <2>6
  <2>8. QED BY <2>7 DEF own, all, ReadOf
<1>4. DatedApart(all, images)
  BY <1>1, PartDated DEF ImagesInv
<1> HIDE DEF all, read
<1>5. PageOf(Newest(read, images), q) = PageOf(Newest(all, images), q)
  BY <1>1, <1>3, <1>4, PageAlike
<1>6. QED BY <1>5 DEF all, read

\* ImagesSafe: with any libraries, queries, batches and limits, a page nothing
\* changed under is the page of one collection that holds all the images (List),
\* and no image stays in the public gallery that was hidden or deleted (Mutate).
THEOREM ImagesStaySafe == ImagesSpec => []ImagesSafe
<1>1. ImagesInv => ImagesSafe
  <2>1. ASSUME ImagesInv, list.pc = "answered", list.quiet, Answerable(list.query)
        PROVE  LET all == {id \in DOMAIN images :
                             ~Skipped(images[id].collection, list.query) /\ Fits(images[id], list.query)}
               IN list.page = PageOf(Newest(all, images), list.query) /\ list.total = Cardinality(all)
    <3>1. list.query \in ImageQueries
      BY <2>1 DEF ImagesInv, ListShape
    <3>2. Listed(3, list.query) = {id \in DOMAIN images :
                             ~Skipped(images[id].collection, list.query) /\ Fits(images[id], list.query)}
      BY <2>1 DEF ImagesInv, LibraryKept, Listed, OnList
    <3>3. /\ list.read = ReadOf(3, list.query) /\ list.total = Cardinality(Listed(3, list.query))
          /\ list.page = PageOf(Newest(list.read, images), list.query)
      BY <2>1 DEF ImagesInv, ListCounts
    <3>4. QED BY <2>1, <3>1, <3>2, <3>3, PageRead
  <2>2. QED BY <2>1 DEF ImagesInv, ImagesSafe, PageIsExact
<1>2. QED
  BY <1>1, ImagesIsInductive, PTL

-----------------------------------------------------------------------------
(* Analytics.                                                                *)

ReportCall ==
    [phase : {"token", "lock", "refresh", "post", "done"}, token : Nat, forced : BOOLEAN,
     outcome : Outcomes, window : [start : Int, end : Int]]
ReportPart == [stage : Nat, degraded : BOOLEAN, outcome : Outcomes \cup {"running"}, now : Int]

PartNames == {Parts(query)[i] : i \in 1..Len(Parts(query))}

\* What the variables hold, but for parts and reports.
AnalyticsShape ==
    /\ query \in ReportQuery \/ query = NoQuery
    /\ cached \in [token : Nat, fresh : BOOLEAN] /\ cached.token <= count.issued
    /\ today \in Nat /\ FirstDay <= today
    /\ google \in World
    /\ count \in [issued : Nat, expired : Nat, refused : Nat, requests : Nat, changes : Nat]

\* A part of the answer is one of the page's, or the insights of a summary; it
\* stands at one of its stages, whose reports are there.  Only a request under
\* way has parts.
PartsBelong ==
    /\ \A p \in DOMAIN parts :
          /\ parts[p] \in ReportPart
          /\ p \in PartNames \/ (p = "insights" /\ query.page = "summary")
          /\ p # "none" /\ parts[p].stage \in 1..Len(Stages(p, query))
          /\ \A i \in 1..Len(Stages(p, query)[parts[p].stage]) :
                <<p, Stages(p, query)[parts[p].stage][i]>> \in DOMAIN calls
    /\ query = NoQuery => DOMAIN parts = {}

\* A report is of a part that has begun, and is answered once the part is.
CallsBelong ==
    /\ IsFiniteSet(DOMAIN calls)
    /\ \A c \in DOMAIN calls :
          /\ calls[c] \in ReportCall
          /\ c[1] \in DOMAIN parts
          /\ parts[c[1]].outcome # "running" => calls[c].phase = "done"

\* One report refreshes, the one that holds the lock, and for a reason.
OneRefreshes ==
    /\ refresher \in DOMAIN calls \cup {NoReport}
    /\ \A c \in DOMAIN calls :
          /\ (calls[c].phase = "refresh") = (refresher = c)
          /\ calls[c].phase \in {"token", "done"} => ~calls[c].forced
          /\ calls[c].phase = "refresh" /\ ~calls[c].forced => ~cached.fresh

\* The reports whose token was refused, and that have not fetched another yet.
Replacing == {c \in DOMAIN calls : calls[c].forced /\ calls[c].phase \in {"lock", "refresh"}}

\* Each of them has a token to its credit, and so has a token that is gone.
Credited ==
    google.lifetime =>
        count.issued + (IF cached.fresh THEN 0 ELSE 1) + Cardinality(Replacing) <= 1 + count.expired + count.refused

\* The days of a report are those of its part's request.
WindowOf(c) ==
    IF c[1] = "conversion" THEN Compared(query, parts[c[1]].now, c[2]) ELSE DateRange(query, parts[c[1]].now)
WindowsMeant ==
    /\ \A c \in DOMAIN calls : calls[c].window = WindowOf(c)
    /\ query.page = "summary" => query.start # 0 /\ query.end # 0

AnalyticsInv == AnalyticsShape /\ PartsBelong /\ CallsBelong /\ OneRefreshes /\ Credited /\ WindowsMeant

\* A part has a first stage, and a stage names so many reports.
LEMMA StageReports ==
    ASSUME NEW p, NEW q
    PROVE  /\ Len(Stages(p, q)) \in Nat /\ 1 \in 1..Len(Stages(p, q))
           /\ \A k \in 1..Len(Stages(p, q)) : Len(Stages(p, q)[k]) \in Nat
<1>1. CASE p = "devices"
  BY <1>1 DEF Stages, Devices
<1>2. CASE p = "insights"
  BY <1>2 DEF Stages, Insights
<1>3. CASE p = "installs"
  BY <1>3 DEF Stages, PwaInstalls
<1>4. CASE p \in {"active", "platforms"}
  BY <1>4 DEF Stages, PwaLaunches
<1>5. CASE p = "conversion"
  BY <1>5 DEF Stages, Conversion
<1>6. CASE p \notin {"devices", "insights", "installs", "active", "platforms", "conversion"}
  BY <1>6 DEF Stages, Single
<1>7. QED BY <1>1, <1>2, <1>3, <1>4, <1>5, <1>6

\* A page has parts, none of them without a name.
LEMMA PageParts ==
    ASSUME NEW q \in ReportQuery
    PROVE  /\ Len(Parts(q)) \in Nat
           /\ \A i \in 1..Len(Parts(q)) : Parts(q)[i] # "none"
           /\ q.page = "summary" => \A i \in 1..Len(Parts(q)) : Parts(q)[i] \notin {"conversion", "insights"}
<1>1. CASE q.page = "summary"
  BY <1>1 DEF Parts, SummaryParts
<1>2. CASE q.page = "pwa/summary"
  BY <1>2 DEF Parts, PwaParts
<1>3. CASE q.page \notin {"summary", "pwa/summary"}
  BY <1>3 DEF Parts, ReportQuery, Pages
<1>4. QED BY <1>1, <1>2, <1>3

\* The two kinds of days are numbers.
LEMMA WindowTyped ==
    ASSUME NEW q \in ReportQuery \cup {NoQuery}, NEW now \in Int, NEW report
    PROVE  DateRange(q, now) \in [start : Int, end : Int] /\ Compared(q, now, report) \in [start : Int, end : Int]
<1>1. {DefaultSpan, DefaultDays, FirstDay, MaxDays} \subseteq Nat
  BY AnalyticsAssumption
<1>2. q.start \in Int /\ q.end \in Int /\ q.days \in Int
  BY DEF ReportQuery, NoQuery
<1>3. DateRange(q, now) \in [start : Int, end : Int]
  BY <1>1, <1>2 DEF DateRange
<1>4. ComparedDays(q) \in Int
  BY <1>1, <1>2 DEF ComparedDays
<1>5. Compared(q, now, report) \in [start : Int, end : Int]
  BY <1>2, <1>4 DEF Compared
<1>6. QED BY <1>3, <1>5

LEMMA AnalyticsInitInv == AnalyticsInit => AnalyticsInv
<1> SUFFICES ASSUME AnalyticsInit PROVE AnalyticsInv  OBVIOUS
<1> USE DEF AnalyticsInit, NoQuery, NoToken, NoReport
<1>1. DOMAIN parts = {} /\ DOMAIN calls = {}  OBVIOUS
<1>2. IsFiniteSet({})  BY FS_EmptySet
<1>3. AnalyticsShape
  <2>1. today \in Nat /\ FirstDay <= today  BY AnalyticsAssumption
  <2>2. google \in World  BY AnalyticsAssumption
  <2>3. QED BY <2>1, <2>2 DEF AnalyticsShape
<1>4. Replacing = {}  BY <1>1 DEF Replacing
<1>5. Credited  BY <1>4, FS_EmptySet DEF Credited
<1>6. QED BY <1>1, <1>2, <1>3, <1>5 DEF AnalyticsInv, PartsBelong, CallsBelong, OneRefreshes, WindowsMeant

\* A step of one report leaves its part where it is, and its days.
LEMMA CallStep ==
    ASSUME AnalyticsInv, NEW c \in DOMAIN calls, calls[c].phase # "done", UNCHANGED <<query, parts>>,
           DOMAIN calls' = DOMAIN calls, \A d \in DOMAIN calls : d # c => calls'[d] = calls[d],
           calls'[c] \in ReportCall, calls'[c].window = calls[c].window
    PROVE  PartsBelong' /\ CallsBelong' /\ WindowsMeant'
<1>1. PartsBelong'
  BY DEF AnalyticsInv, PartsBelong, PartNames
<1>2. CallsBelong'
  BY DEF AnalyticsInv, CallsBelong
<1>3. WindowsMeant'
  <2>1. \A d \in DOMAIN calls : WindowOf(d)' = WindowOf(d)
    BY DEF WindowOf
  <2>2. QED BY <2>1 DEF AnalyticsInv, WindowsMeant
<1>4. QED BY <1>1, <1>2, <1>3

\* A report that is done holds neither token nor force.
LEMMA DoneCall ==
    ASSUME AnalyticsInv, NEW c \in DOMAIN calls, NEW outcome \in Outcomes, calls' = Done(c, outcome)
    PROVE  /\ DOMAIN calls' = DOMAIN calls /\ \A d \in DOMAIN calls : d # c => calls'[d] = calls[d]
           /\ calls'[c] \in ReportCall /\ calls'[c].window = calls[c].window
           /\ calls'[c].phase = "done" /\ ~calls'[c].forced
<1>1. calls[c] \in ReportCall
  BY DEF AnalyticsInv, CallsBelong
<1>2. /\ DOMAIN calls' = DOMAIN calls /\ \A d \in DOMAIN calls : d # c => calls'[d] = calls[d]
      /\ calls'[c] = [phase |-> "done", token |-> NoToken, forced |-> FALSE, outcome |-> outcome,
                      window |-> calls[c].window]
  BY <1>1 DEF Done, ReportCall
<1>3. QED BY <1>1, <1>2 DEF ReportCall, NoToken

\* No report is called as the lock is when no report holds it.
LEMMA ReportsNamed ==
    ASSUME AnalyticsInv
    PROVE  NoReport \notin DOMAIN calls
BY DEF AnalyticsInv, CallsBelong, PartsBelong, NoReport

LEMMA ReplacingCounted ==
    ASSUME AnalyticsInv
    PROVE  IsFiniteSet(Replacing) /\ Cardinality(Replacing) \in Nat
<1>1. Replacing \subseteq DOMAIN calls
  BY DEF Replacing
<1>2. QED BY <1>1, FS_Subset, FS_CardinalityType DEF AnalyticsInv, CallsBelong

LEMMA AskReportInv ==
    ASSUME AnalyticsInv, NEW q \in ReportQueries, AskReport(q)
    PROVE  AnalyticsInv'
<1> USE DEF AskReport
<1>1. q \in ReportQuery /\ {DefaultSpan, FirstDay} \subseteq Nat /\ DefaultSpan < FirstDay
  BY AnalyticsAssumption
<1>2. DOMAIN parts = {} /\ DOMAIN calls = {}
  BY DEF AnalyticsInv, PartsBelong, CallsBelong
<1>3. query' \in {query, RangeOnce(q, today)}
  OBVIOUS
<1>4. RangeOnce(q, today) \in ReportQuery
  <2>1. today \in Int  BY DEF AnalyticsInv, AnalyticsShape
  <2>2. DateRange(q, today).start \in Int /\ DateRange(q, today).end \in Int
    BY <1>1, <2>1 DEF DateRange, ReportQuery
  <2>3. QED BY <1>1, <2>2 DEF RangeOnce, ReportQuery
<1>5. RangeOnce(q, today).page = "summary" => RangeOnce(q, today).start # 0 /\ RangeOnce(q, today).end # 0
  <2>1. today \in Nat /\ FirstDay <= today  BY DEF AnalyticsInv, AnalyticsShape
  <2>2. DateRange(q, today).start # 0 /\ DateRange(q, today).end # 0
    BY <1>1, <2>1 DEF DateRange, ReportQuery
  <2>3. QED BY <1>1, <2>2 DEF RangeOnce, ReportQuery
<1>6. AnalyticsShape'
  BY <1>3, <1>4 DEF AnalyticsInv, AnalyticsShape
<1>7. PartsBelong' /\ CallsBelong' /\ OneRefreshes'
  BY <1>2 DEF AnalyticsInv, PartsBelong, CallsBelong, OneRefreshes
<1>8. Credited'
  <2>1. Replacing' = Replacing  BY DEF Replacing
  <2>2. QED BY <2>1 DEF AnalyticsInv, Credited, AnalyticsShape
<1>9. WindowsMeant'
  BY <1>2, <1>3, <1>5 DEF AnalyticsInv, WindowsMeant
<1>10. QED BY <1>6, <1>7, <1>8, <1>9 DEF AnalyticsInv

LEMMA TakeTokenInv ==
    ASSUME AnalyticsInv, NEW c \in DOMAIN calls, TakeToken(c)
    PROVE  AnalyticsInv'
<1> USE DEF TakeToken
<1>1. /\ DOMAIN calls' = DOMAIN calls /\ \A d \in DOMAIN calls : d # c => calls'[d] = calls[d]
      /\ calls'[c] \in ReportCall /\ calls'[c].window = calls[c].window
      /\ calls'[c].forced = calls[c].forced /\ calls'[c].phase \in {"post", "lock"}
  BY DEF AnalyticsInv, CallsBelong, ReportCall, AnalyticsShape, NoToken
<1>2. PartsBelong' /\ CallsBelong' /\ WindowsMeant'
  BY <1>1, CallStep
<1>3. OneRefreshes'
  BY <1>1 DEF AnalyticsInv, OneRefreshes
<1>4. Replacing' = Replacing
  BY <1>1 DEF Replacing, AnalyticsInv, OneRefreshes
<1>5. QED BY <1>2, <1>3, <1>4 DEF AnalyticsInv, AnalyticsShape, Credited

LEMMA TakeLockInv ==
    ASSUME AnalyticsInv, NEW c \in DOMAIN calls, TakeLock(c)
    PROVE  AnalyticsInv'
<1> USE DEF TakeLock
<1>1. /\ DOMAIN calls' = DOMAIN calls /\ \A d \in DOMAIN calls : d # c => calls'[d] = calls[d]
      /\ calls'[c] \in ReportCall /\ calls'[c].window = calls[c].window
      /\ calls'[c].forced = calls[c].forced
      /\ calls'[c].phase = IF FreshByNow(c) THEN "post" ELSE "refresh"
  BY DEF AnalyticsInv, CallsBelong, ReportCall, AnalyticsShape
<1>2. PartsBelong' /\ CallsBelong' /\ WindowsMeant'
  BY <1>1, CallStep
<1>3. OneRefreshes'
  BY <1>1, ReportsNamed DEF AnalyticsInv, OneRefreshes, FreshByNow, LockFree
<1>4. Replacing' = Replacing
  BY <1>1 DEF Replacing, FreshByNow
<1>5. QED BY <1>2, <1>3, <1>4 DEF AnalyticsInv, AnalyticsShape, Credited

LEMMA RefreshInv ==
    ASSUME AnalyticsInv, NEW c \in DOMAIN calls, Refresh(c)
    PROVE  AnalyticsInv'
<1> USE DEF Refresh
<1> DEFINE up == google.up /\ google.credential
<1>1. /\ DOMAIN calls' = DOMAIN calls /\ \A d \in DOMAIN calls : d # c => calls'[d] = calls[d]
      /\ calls'[c] \in ReportCall /\ calls'[c].window = calls[c].window
      /\ up => calls'[c].phase = "post" /\ calls'[c].forced = calls[c].forced
      /\ ~up => calls'[c].phase = "done" /\ ~calls'[c].forced
  <2>1. CASE up
    BY <2>1 DEF AnalyticsInv, CallsBelong, ReportCall, AnalyticsShape
  <2>2. CASE ~up
    <3>1. PICK outcome \in Outcomes : calls' = Done(c, outcome)
      BY <2>2 DEF Outcomes
    <3>2. QED BY <2>2, <3>1, DoneCall
  <2>3. QED BY <2>1, <2>2
<1>2. PartsBelong' /\ CallsBelong' /\ WindowsMeant'
  BY <1>1, CallStep
<1>3. refresher = c /\ \A d \in DOMAIN calls : calls[d].phase = "refresh" => d = c
  BY DEF AnalyticsInv, OneRefreshes
<1>4. OneRefreshes'
  BY <1>1, <1>3, ReportsNamed DEF AnalyticsInv, OneRefreshes
<1>5. Replacing' = Replacing \ {c}
  BY <1>1 DEF Replacing
<1>6. /\ Cardinality(Replacing) \in Nat
      /\ Cardinality(Replacing') = IF calls[c].forced THEN Cardinality(Replacing) - 1 ELSE Cardinality(Replacing)
  <2>1. c \in Replacing <=> calls[c].forced
    BY DEF Replacing
  <2>2. c \notin Replacing => Replacing \ {c} = Replacing
    OBVIOUS
  <2>3. QED BY <1>5, <2>1, <2>2, ReplacingCounted, FS_RemoveElement
<1>7. AnalyticsShape'
  <2>1. CASE up
    BY <2>1 DEF AnalyticsInv, AnalyticsShape, World
  <2>2. CASE ~up
    BY <2>2 DEF AnalyticsInv, AnalyticsShape
  <2>3. QED BY <2>1, <2>2
<1>8. Credited'
  <2>1. calls[c].forced \in BOOLEAN /\ (~calls[c].forced => ~cached.fresh)
    BY DEF AnalyticsInv, OneRefreshes, CallsBelong, ReportCall
  <2>2. CASE up
    <3>1. google' = google /\ cached'.fresh = google.lifetime /\ count'.issued = count.issued + 1
          /\ count'.expired = count.expired /\ count'.refused = count.refused
      BY <2>2 DEF AnalyticsInv, AnalyticsShape
    <3>2. QED BY <1>6, <2>1, <3>1 DEF AnalyticsInv, AnalyticsShape, Credited
  <2>3. CASE ~up
    BY <2>3, <1>6, <2>1 DEF AnalyticsInv, AnalyticsShape, Credited
  <2>4. QED BY <2>2, <2>3
<1>9. QED BY <1>2, <1>4, <1>7, <1>8 DEF AnalyticsInv

LEMMA PostInv ==
    ASSUME AnalyticsInv, NEW c \in DOMAIN calls, Post(c)
    PROVE  AnalyticsInv'
<1> USE DEF Post
<1> DEFINE again == GoogleAnswers(c) = "refused" /\ ~calls[c].forced
<1>0. GoogleAnswers(c) \in Outcomes \cup {"refused"}
  BY DEF GoogleAnswers, Outcomes
<1>1. /\ DOMAIN calls' = DOMAIN calls /\ \A d \in DOMAIN calls : d # c => calls'[d] = calls[d]
      /\ calls'[c] \in ReportCall /\ calls'[c].window = calls[c].window
      /\ again => calls'[c].forced /\ calls'[c].phase = "lock"
      /\ ~again => ~calls'[c].forced /\ calls'[c].phase = "done"
  <2>1. CASE again
    <3>1. calls' = [calls EXCEPT ![c].phase = "lock", ![c].forced = TRUE]
      BY <2>1
    <3>2. calls[c] \in ReportCall
      BY DEF AnalyticsInv, CallsBelong
    <3>3. QED BY <2>1, <3>1, <3>2 DEF ReportCall
  <2>2. CASE ~again
    <3>1. PICK outcome \in Outcomes : calls' = Done(c, outcome)
      BY <1>0, <2>2 DEF Outcomes
    <3>2. QED BY <2>2, <3>1, DoneCall
  <2>3. QED BY <2>1, <2>2
<1>a. calls[c].phase = "post" /\ UNCHANGED <<query, parts, cached, refresher>>
  OBVIOUS
<1>2. PartsBelong' /\ CallsBelong' /\ WindowsMeant'
  BY <1>1, CallStep
<1>3. OneRefreshes'
  <2> HIDE DEF again, Post
  <2>1. refresher # c
    BY <1>a DEF AnalyticsInv, OneRefreshes
  <2>2. QED BY <1>1, <1>a, <2>1 DEF AnalyticsInv, OneRefreshes
<1>4. Replacing' = IF again THEN Replacing \cup {c} ELSE Replacing
  BY <1>1 DEF Replacing
<1>5. /\ Cardinality(Replacing) \in Nat
      /\ Cardinality(Replacing') = IF again THEN Cardinality(Replacing) + 1 ELSE Cardinality(Replacing)
  <2>1. c \notin Replacing
    BY DEF Replacing
  <2>2. QED BY <1>4, <2>1, ReplacingCounted, FS_AddElement
<1>6. AnalyticsShape' /\ count'.issued = count.issued /\ count'.expired = count.expired
      /\ count'.refused >= count.refused /\ (again => count'.refused = count.refused + 1)
      /\ {count'.issued, count'.expired, count'.refused} \subseteq Nat
  <2>1. CASE GoogleAnswers(c) # "refused"
    BY <2>1 DEF AnalyticsInv, AnalyticsShape
  <2>2. CASE GoogleAnswers(c) = "refused"
    BY <2>2 DEF AnalyticsInv, AnalyticsShape
  <2>3. QED BY <2>1, <2>2
<1>7. Credited'
  BY <1>5, <1>6 DEF AnalyticsInv, AnalyticsShape, Credited
<1>8. QED BY <1>2, <1>3, <1>6, <1>7 DEF AnalyticsInv

LEMMA DisturbedInv ==
    ASSUME AnalyticsInv, Expire \/ Midnight \/ ChangeGoogle
    PROVE  AnalyticsInv'
<1>1. /\ UNCHANGED <<query, parts, calls, refresher>>
      /\ cached' \in [token : Nat, fresh : BOOLEAN] /\ cached'.token = cached.token
      /\ today' \in Nat /\ FirstDay <= today'
      /\ google' \in World /\ google'.lifetime = google.lifetime
      /\ count' \in [issued : Nat, expired : Nat, refused : Nat, requests : Nat, changes : Nat]
      /\ count'.issued = count.issued /\ count'.refused = count.refused
  <2>1. CASE Expire
    <3>1. cached' \in [token : Nat, fresh : BOOLEAN] /\ cached'.token = cached.token
      BY <2>1 DEF Expire, AnalyticsInv, AnalyticsShape
    <3>2. /\ count' \in [issued : Nat, expired : Nat, refused : Nat, requests : Nat, changes : Nat]
          /\ count'.issued = count.issued /\ count'.refused = count.refused
      <4>1. count \in [issued : Nat, expired : Nat, refused : Nat, requests : Nat, changes : Nat]
        BY DEF AnalyticsInv, AnalyticsShape
      <4>2. count' = [count EXCEPT !.expired = @ + 1, !.changes = @ + 1]
        BY <2>1 DEF Expire
      <4>3. count.expired + 1 \in Nat /\ count.changes + 1 \in Nat
        BY <4>1
      <4>4. QED BY <4>1, <4>2, <4>3
    <3>3. QED BY <2>1, <3>1, <3>2 DEF Expire, AnalyticsInv, AnalyticsShape
  <2>2. CASE Midnight
    BY <2>2, AnalyticsAssumption DEF Midnight, AnalyticsInv, AnalyticsShape
  <2>3. CASE ChangeGoogle
    <3>1. google' \in World /\ google'.lifetime = google.lifetime
      <4>1. 1..count.issued \subseteq Nat
        BY DEF AnalyticsInv, AnalyticsShape
      <4>2. google \in World
        BY DEF AnalyticsInv, AnalyticsShape
      <4>3. QED BY <2>3, <4>1, <4>2 DEF ChangeGoogle, World
    <3>2. /\ count' \in [issued : Nat, expired : Nat, refused : Nat, requests : Nat, changes : Nat]
          /\ count'.issued = count.issued /\ count'.refused = count.refused
      BY <2>3 DEF ChangeGoogle, AnalyticsInv, AnalyticsShape
    <3>3. QED BY <2>3, <3>1, <3>2 DEF ChangeGoogle, AnalyticsInv, AnalyticsShape
  <2>4. QED BY <2>1, <2>2, <2>3
<1>2. /\ cached'.fresh => cached.fresh
      /\ count'.expired = IF cached.fresh /\ ~cached'.fresh THEN count.expired + 1 ELSE count.expired
  BY DEF Expire, Midnight, ChangeGoogle, AnalyticsInv, AnalyticsShape
<1>3. AnalyticsShape'
  BY <1>1 DEF AnalyticsInv, AnalyticsShape
<1>4. PartsBelong' /\ CallsBelong' /\ OneRefreshes'
  BY <1>1, <1>2 DEF AnalyticsInv, PartsBelong, PartNames, CallsBelong, OneRefreshes
<1>5. Credited'
  <2>1. Replacing' = Replacing  BY <1>1 DEF Replacing
  <2>2. QED BY <1>1, <1>2, <2>1, ReplacingCounted DEF AnalyticsInv, AnalyticsShape, Credited
<1>6. WindowsMeant'
  BY <1>1 DEF AnalyticsInv, WindowsMeant, WindowOf
<1>7. QED BY <1>3, <1>4, <1>5, <1>6 DEF AnalyticsInv
\* The days of a report a part has begun are those of the part's request.
LEMMA NewCallMeant ==
    ASSUME AnalyticsInv, NEW p, NEW report, UNCHANGED query, parts'[p].now \in Int
    PROVE  /\ NewCall(p, report) \in ReportCall
           /\ NewCall(p, report).phase = "token" /\ ~NewCall(p, report).forced
           /\ NewCall(p, report).window = IF p = "conversion" THEN Compared(query, parts'[p].now, report)
                                          ELSE DateRange(query, parts'[p].now)
<1>1. query \in ReportQuery \cup {NoQuery}
  BY DEF AnalyticsInv, AnalyticsShape
<1>2. QED BY <1>1, WindowTyped DEF NewCall, ReportCall, Outcomes, NoToken

\* A stage whose reports have begun takes the place of one whose reports are done.
LEMMA StageBegins ==
    ASSUME AnalyticsInv, NEW p, p # "none", NEW k \in 1..Len(Stages(p, query)),
           p \in PartNames \/ (p = "insights" /\ query.page = "summary"), query # NoQuery,
           \A c \in DOMAIN calls : c[1] = p => calls[c].phase = "done",
           UNCHANGED <<query, refresher, cached, google, count, today>>,
           DOMAIN parts' = DOMAIN parts \cup {p}, \A x \in DOMAIN parts : x # p => parts'[x] = parts[x],
           parts'[p] \in ReportPart, parts'[p].stage = k, parts'[p].outcome = "running",
           calls' = StageCalls(p, Stages(p, query)[k])
    PROVE  AnalyticsInv'
<1> DEFINE reports == Stages(p, query)[k]
           new == {<<p, reports[i]>> : i \in 1..Len(reports)}
           old == {c \in DOMAIN calls : c[1] # p}
<1>1. Len(reports) \in Nat
  BY StageReports
<1>2. DOMAIN calls' = old \cup new
  BY DEF StageCalls
<1>3. \A c \in old : calls'[c] = calls[c]
  BY <1>2 DEF StageCalls
<1>4. \A c \in new : c[1] = p /\ calls'[c] = NewCall(p, c[2])
  BY <1>2 DEF StageCalls
<1>5. \A c \in new : /\ calls'[c] \in ReportCall /\ calls'[c].phase = "token" /\ ~calls'[c].forced
                     /\ calls'[c].window = IF p = "conversion" THEN Compared(query, parts'[p].now, c[2])
                                           ELSE DateRange(query, parts'[p].now)
  <2>1. parts'[p].now \in Int  BY DEF ReportPart
  <2>2. QED BY <1>4, <2>1, NewCallMeant
<1>6. IsFiniteSet(old \cup new)
  <2>1. IsFiniteSet(1..Len(reports))  BY <1>1, FS_Interval
  <2>2. IsFiniteSet(new)
    <3> DEFINE f == [i \in 1..Len(reports) |-> <<p, reports[i]>>]
    <3>1. f \in Surjection(1..Len(reports), new)
      BY DEF Surjection
    <3>2. QED BY <2>1, <3>1, FS_Surjection
  <2>3. IsFiniteSet(old)
    BY FS_Subset DEF AnalyticsInv, CallsBelong
  <2>4. QED BY <2>2, <2>3, FS_Union
<1> HIDE DEF old
<1>7. old \subseteq DOMAIN calls /\ \A c \in DOMAIN calls : c \in old \/ (c[1] = p /\ calls[c].phase = "done")
  BY DEF old
<1>8. \A c \in old : c[1] \in DOMAIN parts /\ c[1] # p
  BY DEF old, AnalyticsInv, CallsBelong
<1>9. AnalyticsShape'
  BY DEF AnalyticsInv, AnalyticsShape
<1>10. PartsBelong'
  <2>1. ASSUME NEW x \in DOMAIN parts, x # p, NEW i \in 1..Len(Stages(x, query)[parts[x].stage])
        PROVE  <<x, Stages(x, query)[parts[x].stage][i]>> \in DOMAIN calls'
    BY <1>2, <1>7, <2>1 DEF AnalyticsInv, PartsBelong
  <2>2. \A i \in 1..Len(reports) : <<p, reports[i]>> \in DOMAIN calls'
    BY <1>2
  <2>3. QED BY <2>1, <2>2 DEF AnalyticsInv, PartsBelong, PartNames
<1>11. CallsBelong'
  <2>1. \A c \in old : calls'[c] \in ReportCall /\ c[1] \in DOMAIN parts'
                       /\ (parts'[c[1]].outcome # "running" => calls'[c].phase = "done")
    BY <1>3, <1>7, <1>8 DEF AnalyticsInv, CallsBelong
  <2>2. \A c \in new : calls'[c] \in ReportCall /\ c[1] \in DOMAIN parts' /\ parts'[c[1]].outcome = "running"
    BY <1>4, <1>5
  <2>3. QED BY <1>2, <1>6, <2>1, <2>2 DEF CallsBelong
<1>12. OneRefreshes'
  <2>1. refresher \in old \cup {NoReport}
    BY <1>7 DEF AnalyticsInv, OneRefreshes
  <2>2. ASSUME NEW c \in new PROVE refresher # c
    <3>1. NoReport # c  BY <1>4 DEF NoReport
    <3>2. c \notin old  BY <1>4, <1>8
    <3>3. QED BY <2>1, <3>1, <3>2
  <2> HIDE DEF new
  <2>3. \A c \in old : /\ (calls'[c].phase = "refresh") = (refresher = c)
                       /\ calls'[c].phase \in {"token", "done"} => ~calls'[c].forced
                       /\ calls'[c].phase = "refresh" /\ ~calls'[c].forced => ~cached.fresh
    BY <1>3, <1>7 DEF AnalyticsInv, OneRefreshes
  <2>4. QED BY <1>2, <1>5, <2>1, <2>2, <2>3 DEF OneRefreshes
<1>13. Credited'
  <2> HIDE DEF new
  <2>1. Replacing' = Replacing
    BY <1>2, <1>3, <1>5, <1>7 DEF Replacing
  <2>2. QED BY <2>1 DEF AnalyticsInv, Credited
<1>14. WindowsMeant'
  <2> HIDE DEF new
  <2>1. \A c \in old : calls'[c].window = WindowOf(c)'
    BY <1>3, <1>7, <1>8 DEF AnalyticsInv, WindowsMeant, WindowOf
  <2>2. \A c \in new : calls'[c].window = WindowOf(c)'
    BY <1>4, <1>5 DEF WindowOf
  <2>3. QED BY <1>2, <2>1, <2>2 DEF AnalyticsInv, WindowsMeant
<1>15. QED BY <1>9, <1>10, <1>11, <1>12, <1>13, <1>14 DEF AnalyticsInv

LEMMA BeginPartInv ==
    ASSUME AnalyticsInv, NEW p, BeginPart(p), p \notin DOMAIN parts, p # "none", query # NoQuery,
           p \in PartNames \/ (p = "insights" /\ query.page = "summary")
    PROVE  AnalyticsInv'
<1> USE DEF BeginPart
<1>1. today \in Int
  BY DEF AnalyticsInv, AnalyticsShape
<1>2. /\ DOMAIN parts' = DOMAIN parts \cup {p} /\ \A x \in DOMAIN parts : x # p => parts'[x] = parts[x]
      /\ parts'[p] \in ReportPart /\ parts'[p].stage = 1 /\ parts'[p].outcome = "running"
  BY <1>1 DEF ReportPart
<1>3. \A c \in DOMAIN calls : c[1] # p
  BY DEF AnalyticsInv, CallsBelong
<1>4. 1 \in 1..Len(Stages(p, query))
  BY StageReports
<1>5. QED BY <1>2, <1>3, <1>4, StageBegins

LEMMA BeginNextInv ==
    ASSUME AnalyticsInv, BeginNext
    PROVE  AnalyticsInv'
<1>1. PICK i \in 1..Len(Parts(query)) : Parts(query)[i] \notin DOMAIN parts /\ query # NoQuery /\ BeginPart(Parts(query)[i])
  BY DEF BeginNext
<1>2. query \in ReportQuery
  BY <1>1 DEF AnalyticsInv, AnalyticsShape
<1>3. Parts(query)[i] # "none" /\ Parts(query)[i] \in PartNames
  BY <1>2, PageParts DEF PartNames
<1>4. QED BY <1>1, <1>3, BeginPartInv

LEMMA BeginInsightsInv ==
    ASSUME AnalyticsInv, BeginInsights
    PROVE  AnalyticsInv'
<1>1. query # NoQuery
  BY DEF BeginInsights, NoQuery
<1>2. QED BY <1>1, BeginPartInv DEF BeginInsights
\* What the first failed report of a stage was answered is one of the answers.
LEMMA StageAnswered ==
    ASSUME AnalyticsInv, NEW p \in DOMAIN parts
    PROVE  StageOutcome(p) \in Outcomes
<1> DEFINE reports == Stages(p, query)[parts[p].stage]
           failed == {i \in 1..Len(reports) : calls[<<p, reports[i]>>].outcome # "ok"}
           first == CHOOSE i \in failed : \A j \in failed : i <= j
<1>1. \A i \in 1..Len(reports) : calls[<<p, reports[i]>>].outcome \in Outcomes
  BY DEF AnalyticsInv, PartsBelong, CallsBelong, ReportCall
<1>2. CASE failed = {}
  BY <1>2 DEF StageOutcome, Outcomes
<1>3. CASE failed # {}
  <2>1. failed \subseteq Nat
    BY StageReports DEF AnalyticsInv, PartsBelong
  <2>2. \E i \in failed : \A j \in failed : i <= j
    BY <1>3, <2>1, Least
  <2>3. first \in failed
    <3> HIDE DEF failed
    <3>1. QED BY <2>2
  <2>4. first \in 1..Len(reports)
    BY <2>3
  <2>5. StageOutcome(p) = calls[<<p, reports[first]>>].outcome
    BY <1>3 DEF StageOutcome
  <2> HIDE DEF first, failed, reports
  <2>6. QED BY <1>1, <2>4, <2>5
<1>4. QED BY <1>2, <1>3

LEMMA EndStageInv ==
    ASSUME AnalyticsInv, NEW p \in DOMAIN parts, EndStage(p)
    PROVE  AnalyticsInv'
<1> USE DEF EndStage
<1> DEFINE out == StageOutcome(p)
           next == parts[p].stage + 1
<1>1. out \in Outcomes
  BY StageAnswered
<1>2. /\ parts[p] \in ReportPart /\ parts[p].outcome = "running"
      /\ p \in PartNames \/ (p = "insights" /\ query.page = "summary")
      /\ p # "none" /\ query # NoQuery /\ parts[p].stage \in 1..Len(Stages(p, query))
  BY DEF AnalyticsInv, PartsBelong
<1>3. \A c \in DOMAIN calls : c[1] = p => calls[c].phase = "done"
  BY DEF InStage
<1> HIDE DEF out
<1>4. CASE out = "dimension" /\ ~parts[p].degraded
  <2>1. parts' = [parts EXCEPT ![p].degraded = TRUE] /\ calls' = StageCalls(p, Stages(p, query)[parts[p].stage])
    BY <1>4 DEF out
  <2>2. /\ DOMAIN parts' = DOMAIN parts \cup {p} /\ \A x \in DOMAIN parts : x # p => parts'[x] = parts[x]
        /\ parts'[p] \in ReportPart /\ parts'[p].stage = parts[p].stage /\ parts'[p].outcome = "running"
    BY <1>2, <2>1 DEF ReportPart
  <2>3. PICK k \in 1..Len(Stages(p, query)) : k = parts[p].stage
    BY <1>2
  <2>4. UNCHANGED <<query, refresher, cached, google, count, today>>
    OBVIOUS
  <2>5. parts'[p].stage = k /\ calls' = StageCalls(p, Stages(p, query)[k])
    BY <2>1, <2>2, <2>3
  <2> HIDE DEF EndStage
  <2>6. QED BY <1>2, <1>3, <2>2, <2>4, <2>5, StageBegins
<1>5. CASE out = "ok" /\ next <= Len(Stages(p, query))
  <2>1. parts' = [parts EXCEPT ![p].stage = next] /\ calls' = StageCalls(p, Stages(p, query)[next])
    BY <1>5 DEF out
  <2>2. next \in 1..Len(Stages(p, query)) /\ next \in Nat
    BY <1>2, <1>5, StageReports
  <2> HIDE DEF next
  <2>3. /\ DOMAIN parts' = DOMAIN parts \cup {p} /\ \A x \in DOMAIN parts : x # p => parts'[x] = parts[x]
        /\ parts'[p] \in ReportPart /\ parts'[p].stage = next /\ parts'[p].outcome = "running"
    BY <1>2, <2>1, <2>2 DEF ReportPart
  <2>4. QED BY <1>2, <1>3, <2>1, <2>2, <2>3, StageBegins
<1>6. CASE ~(out = "dimension" /\ ~parts[p].degraded) /\ ~(out = "ok" /\ next <= Len(Stages(p, query)))
  <2>1. parts' = [parts EXCEPT ![p].outcome = out] /\ calls' = calls
    BY <1>6 DEF out
  <2>2. /\ DOMAIN parts' = DOMAIN parts /\ \A x \in DOMAIN parts : x # p => parts'[x] = parts[x]
        /\ parts'[p] \in ReportPart /\ parts'[p].stage = parts[p].stage /\ parts'[p].now = parts[p].now
    BY <1>1, <1>2, <2>1 DEF ReportPart
  <2>3. UNCHANGED <<query, refresher, cached, google, count, today>>
    OBVIOUS
  <2> HIDE DEF EndStage
  <2>4. PartsBelong'
    BY <1>2, <2>1, <2>2, <2>3 DEF AnalyticsInv, PartsBelong, PartNames
  <2>5. CallsBelong'
    BY <1>3, <2>1, <2>2 DEF AnalyticsInv, CallsBelong
  <2>6. WindowsMeant'
    <3>1. \A c \in DOMAIN calls : WindowOf(c)' = WindowOf(c)
      BY <2>2, <2>3 DEF WindowOf, AnalyticsInv, CallsBelong
    <3>2. QED BY <2>1, <2>3, <3>1 DEF AnalyticsInv, WindowsMeant
  <2>7. Replacing' = Replacing
    BY <2>1 DEF Replacing
  <2>8. QED BY <2>1, <2>3, <2>4, <2>5, <2>6, <2>7 DEF AnalyticsInv, AnalyticsShape, OneRefreshes, Credited
<1>7. QED BY <1>4, <1>5, <1>6

LEMMA RespondInv ==
    ASSUME AnalyticsInv, Respond
    PROVE  AnalyticsInv'
<1> USE DEF Respond
<1>1. \A p \in DOMAIN parts : parts[p].outcome # "running"
  <2>1. \A p \in PartNames : parts[p].outcome # "running"
    BY DEF PartsDone, PartNames
  <2>2. QED BY <2>1 DEF AnalyticsInv, PartsBelong
<1>2. \A c \in DOMAIN calls : calls[c].phase = "done"
  BY <1>1 DEF AnalyticsInv, CallsBelong
<1>3. refresher = NoReport
  BY <1>2 DEF AnalyticsInv, OneRefreshes
<1>4. DOMAIN parts' = {} /\ DOMAIN calls' = {} /\ query' = NoQuery /\ UNCHANGED <<cached, refresher, today, google, count>>
  OBVIOUS
<1>5. IsFiniteSet({}) /\ Cardinality({}) = 0
  BY FS_EmptySet
<1>6. AnalyticsShape'
  BY <1>4 DEF AnalyticsInv, AnalyticsShape
<1>7. PartsBelong' /\ CallsBelong' /\ OneRefreshes' /\ WindowsMeant'
  BY <1>3, <1>4, <1>5 DEF PartsBelong, CallsBelong, OneRefreshes, WindowsMeant, NoQuery
<1>8. Credited'
  <2>1. Replacing' = {}
    BY <1>4 DEF Replacing
  <2>2. QED BY <1>4, <1>5, <2>1, ReplacingCounted DEF AnalyticsInv, AnalyticsShape, Credited
<1>9. QED BY <1>6, <1>7, <1>8 DEF AnalyticsInv

LEMMA AnalyticsStep == AnalyticsInv /\ [AnalyticsNext]_analyticsVars => AnalyticsInv'
<1> SUFFICES ASSUME AnalyticsInv, [AnalyticsNext]_analyticsVars PROVE AnalyticsInv'
  OBVIOUS
<1>1. ASSUME NEW q \in ReportQueries, AskReport(q) PROVE AnalyticsInv'
  BY <1>1, AskReportInv
<1>2. CASE BeginNext
  BY <1>2, BeginNextInv
<1>3. CASE BeginInsights
  BY <1>3, BeginInsightsInv
<1>4. ASSUME NEW c \in DOMAIN calls, TakeToken(c) \/ TakeLock(c) \/ Refresh(c) \/ Post(c) PROVE AnalyticsInv'
  BY <1>4, TakeTokenInv, TakeLockInv, RefreshInv, PostInv
<1>5. ASSUME NEW p \in DOMAIN parts, EndStage(p) PROVE AnalyticsInv'
  BY <1>5, EndStageInv
<1>6. CASE Respond
  BY <1>6, RespondInv
<1>7. CASE Expire \/ Midnight \/ ChangeGoogle
  BY <1>7, DisturbedInv
<1>8. CASE UNCHANGED analyticsVars
  BY <1>8 DEF analyticsVars, AnalyticsInv, AnalyticsShape, PartsBelong, PartNames, CallsBelong, OneRefreshes,
              Credited, Replacing, WindowsMeant, WindowOf
<1>9. QED
  BY <1>1, <1>2, <1>3, <1>4, <1>5, <1>6, <1>7, <1>8 DEF AnalyticsNext

LEMMA AnalyticsIsInductive == AnalyticsSpec => []AnalyticsInv
<1>1. QED
  BY AnalyticsInitInv, AnalyticsStep, PTL DEF AnalyticsSpec

\* The days of the reports of a summary do not depend on when its parts began.
LEMMA DaysAgree ==
    ASSUME AnalyticsInv
    PROVE  WindowsAgree
<1>1. query \in ReportQuery \cup {NoQuery}
  BY DEF AnalyticsInv, AnalyticsShape
<1>2. ASSUME query.page = "summary", NEW c \in DOMAIN calls, NEW d \in DOMAIN calls
      PROVE  calls[c].window = calls[d].window
  <2>1. query \in ReportQuery
    BY <1>1, <1>2 DEF NoQuery
  <2>2. "conversion" \notin DOMAIN parts
    BY <1>2, <2>1, PageParts DEF AnalyticsInv, PartsBelong, PartNames
  <2>3. c[1] # "conversion" /\ d[1] # "conversion"
    BY <2>2 DEF AnalyticsInv, CallsBelong
  <2>4. query.start # 0 /\ query.end # 0
    BY <1>2 DEF AnalyticsInv, WindowsMeant
  <2>5. QED BY <2>3, <2>4 DEF AnalyticsInv, WindowsMeant, WindowOf, DateRange
<1>3. ASSUME NEW c \in DOMAIN calls, NEW d \in DOMAIN calls,
             c = <<"conversion", "current">>, d = <<"conversion", "previous">>
      PROVE  LET w == calls[c].window
                 v == calls[d].window
             IN v.end + 1 = w.start /\ w.end - w.start = v.end - v.start
  <2> DEFINE now == parts["conversion"].now
             end == IF query.end = 0 THEN now ELSE query.end
             n == ComparedDays(query)
  <2>1. calls[c].window = Compared(query, now, "current") /\ calls[d].window = Compared(query, now, "previous")
    BY <1>3 DEF AnalyticsInv, WindowsMeant, WindowOf
  <2>2. now \in Int
    BY <1>3 DEF AnalyticsInv, CallsBelong, PartsBelong, ReportPart
  <2>3. n \in Int /\ end \in Int
    BY <1>1, <2>2, AnalyticsAssumption DEF ComparedDays, ReportQuery, NoQuery
  <2>4. /\ Compared(query, now, "current") = [start |-> end - (n - 1), end |-> end]
        /\ Compared(query, now, "previous") = [start |-> end - (2 * n - 1), end |-> end - n]
    BY DEF Compared
  <2> HIDE DEF now, end, n
  <2>5. QED BY <2>1, <2>3, <2>4
<1>4. QED BY <1>2, <1>3 DEF WindowsAgree

\* AnalyticsSafe: with any worlds and requests, and any number of parts at a time,
\* each token fetched but the first is for one that expired or was refused
\* (accessToken, refreshToken), and the reports of an answer agree on their days.
THEOREM AnalyticsStaysSafe == AnalyticsSpec => []AnalyticsSafe
<1>1. AnalyticsInv => AnalyticsSafe
  <2>1. ASSUME AnalyticsInv PROVE RefreshesJustified
    BY <2>1, ReplacingCounted DEF AnalyticsInv, AnalyticsShape, Credited, RefreshesJustified
  <2>2. QED BY <2>1, DaysAgree DEF AnalyticsSafe
<1>2. QED
  BY <1>1, AnalyticsIsInductive, PTL

\* AnalyticsTypeOK: every report belongs to a part, and one at most refreshes.
THEOREM AnalyticsTyped == AnalyticsSpec => []AnalyticsTypeOK
<1>1. AnalyticsInv => AnalyticsTypeOK
  BY DEF AnalyticsInv, AnalyticsShape, CallsBelong, OneRefreshes, ReportCall, AnalyticsTypeOK
<1>2. QED
  BY <1>1, AnalyticsIsInductive, PTL

\* ReportsSafe: what administrators read, in every interleaving of the two.
THEOREM ReportsStaySafe == ReportsSpec => []ReportsSafe
<1>1. QED
  BY ImagesStaySafe, AnalyticsStaysSafe, PTL DEF ReportsSpec, ReportsSafe

-----------------------------------------------------------------------------
(* The types of prices, links and posts.                                    *)

\* What the bounds of the exploration leave of prices.
PricingBounded ==
    /\ Saves <= MaxSaves
    /\ \A d \in Settings : settings[d].enabled \in BOOLEAN

LEMMA PricingBoundedStep == PricingInv /\ PricingBounded /\ [PricingNext]_pricingVars => PricingBounded'
<1> SUFFICES ASSUME PricingInv, PricingBounded, [PricingNext]_pricingVars PROVE PricingBounded'
  OBVIOUS
<1>1. Saves \in Nat /\ MaxSaves \in Nat /\ AuditsDated
  BY SavesNatural, PricingAssumption DEF PricingInv
<1>2. ASSUME NEW fact, fact.at = Saves, Saves < MaxSaves,
             \/ configAudits' = configAudits \cup {fact} /\ menuAudits' = menuAudits
             \/ menuAudits' = menuAudits \cup {fact} /\ configAudits' = configAudits
      PROVE  Saves' <= MaxSaves
  BY <1>1, <1>2, FactAdded
<1>3. ASSUME NEW d, NEW version, NEW action, Saves < MaxSaves, menuAudits' = menuAudits,
             configAudits' = configAudits \cup {SavedFact(d, version, action)}
      PROVE  Saves' <= MaxSaves
  <2>1. SavedFact(d, version, action).at = Saves
    BY DEF SavedFact
  <2>2. QED BY <1>2, <1>3, <2>1
<1>4. ASSUME NEW d \in Settings, NEW value, SaveDocument(d, value) PROVE PricingBounded'
  <2>1. Saves' <= MaxSaves
    BY <1>3, <1>4 DEF SaveDocument
  <2>2. settings'[d].enabled = TRUE /\ \A e \in Settings \ {d} : settings'[e] = settings[e]
    BY <1>4 DEF SaveDocument, PricingInv
  <2>3. QED BY <2>1, <2>2 DEF PricingBounded
<1>5. ASSUME NEW a, NEW key \in SystemKeys, NEW env \in Environments, DeleteSystemConfig(a, key, env)
      PROVE  PricingBounded'
  <2>1. PICK d : d = <<key, env>>
    OBVIOUS
  <2>2. d \in Settings
    BY <2>1 DEF Settings, SettingKeys
  <2>3. Saves' <= MaxSaves
    BY <1>3, <1>5 DEF DeleteSystemConfig
  <2>4. settings' = [settings EXCEPT ![d].enabled = FALSE, ![d].version = @ + 1]
    BY <1>5, <2>1 DEF DeleteSystemConfig
  <2>5. DOMAIN settings = Settings /\ DOMAIN settings[d] = {"value", "enabled", "version"}
    BY <2>2 DEF PricingInv
  <2>6. settings'[d].enabled = FALSE /\ \A e \in Settings \ {d} : settings'[e] = settings[e]
    BY <2>2, <2>4, <2>5
  <2>7. QED BY <2>3, <2>6 DEF PricingBounded
<1>6. ASSUME NEW a, NEW overrides, SaveMenu(a, overrides) PROVE PricingBounded'
  <2>1. PICK fact : fact = [menu |-> overrides, at |-> Saves]
    OBVIOUS
  <2>2. Saves' <= MaxSaves
    BY <1>2, <1>6, <2>1 DEF SaveMenu
  <2>3. QED BY <1>6, <2>2 DEF SaveMenu, PricingBounded
<1>7. ASSUME UNCHANGED <<settings, configAudits, menuAudits>> PROVE PricingBounded'
  BY <1>7 DEF PricingBounded, Saves
<1>8. ASSUME NEW a, NEW overrides, SaveVIP(a, overrides) PROVE PricingBounded'
  <2>1. <<"vip", "all">> \in Settings
    BY PricingAssumption DEF Settings, SettingKeys
  <2>2. QED BY <1>4, <1>8, <2>1 DEF SaveVIP
<1>9. ASSUME NEW a, NEW key \in SystemKeys, NEW env \in Environments, NEW value, SaveSystemConfig(a, key, env, value)
      PROVE  PricingBounded'
  <2>1. <<key, env>> \in Settings
    BY DEF Settings, SettingKeys
  <2>2. QED BY <1>4, <1>9, <2>1 DEF SaveSystemConfig
<1>10. ASSUME NEW a, ShowVIP(a) PROVE PricingBounded'
  BY <1>7, <1>10 DEF ShowVIP
<1>11. QED BY <1>5, <1>6, <1>7, <1>8, <1>9, <1>10 DEF PricingNext, pricingVars

\* PricingTypeOK: settings are switched on or off, and their versions are bounded
\* by the saves (SaveDocument, DeleteSystemConfig).
THEOREM PricingTyped == PricingSpec => []PricingTypeOK
<1>1. PricingInit => PricingBounded
  <2> SUFFICES ASSUME PricingInit PROVE PricingBounded
    OBVIOUS
  <2>1. configAudits = {} /\ menuAudits = {} /\ \A d \in Settings : settings[d] = NoDocument
    BY DEF PricingInit
  <2>2. Saves = 0
    BY <2>1, FS_EmptySet DEF Saves
  <2>3. \A d \in Settings : settings[d].enabled \in BOOLEAN
    <3>1. NoDocument.enabled = FALSE
      BY DEF NoDocument
    <3>2. QED BY <2>1, <3>1
  <2>4. Saves <= MaxSaves
    BY <2>2, PricingAssumption
  <2>5. QED BY <2>3, <2>4 DEF PricingBounded
<1>2. PricingSpec => []PricingBounded
  BY <1>1, PricingBoundedStep, PricingInvariant, PTL DEF PricingSpec
<1>3. PricingInv /\ PricingBounded => PricingTypeOK
  <2> SUFFICES ASSUME PricingInv, PricingBounded, NEW d \in Settings PROVE settings[d].version \in 0..MaxSaves
    BY DEF PricingBounded, PricingTypeOK
  <2>1. IsFiniteSet(configAudits) /\ IsFiniteSet(menuAudits) /\ SettingFacts(d) \subseteq configAudits
    BY DEF PricingInv, AuditsDated, SettingFacts
  <2>2. Cardinality(SettingFacts(d)) <= Cardinality(configAudits)
    BY <2>1, FS_Subset
  <2>3. Cardinality(configAudits) \in Nat /\ Cardinality(menuAudits) \in Nat
    BY <2>1, FS_CardinalityType
  <2>4. settings[d].version \in Nat /\ Cardinality(SettingFacts(d)) = settings[d].version
    BY DEF PricingInv, VersionsAudited, SettingFacts
  <2>5. Saves = Cardinality(configAudits) + Cardinality(menuAudits) /\ Saves <= MaxSaves /\ MaxSaves \in Nat
    BY PricingAssumption DEF Saves, PricingBounded
  <2>6. settings[d].version <= MaxSaves
    BY <2>2, <2>3, <2>4, <2>5
  <2>7. QED BY <2>4, <2>5, <2>6
<1>4. QED BY <1>2, <1>3, PricingInvariant, PTL

\* What the bounds of the exploration and the forms leave of links and posts.
LinkBounded(link) == link.clicks \in 0..MaxClicks /\ link.enabled \in BOOLEAN
PostBounded(post) == post.status \in PostStatuses /\ post.published \in 0..MaxEdits
MarketingBounded ==
    /\ IsFiniteSet(marketingAudits) /\ Cardinality(marketingAudits) <= MaxEdits
    /\ clicked \in [TrackingLinks -> 0..MaxClicks]
    /\ DOMAIN forms = Staff /\ \A a \in Staff : forms[a].enabled \in BOOLEAN
    /\ \A l \in TrackingLinks : LinkBounded(links[l])
    /\ \A p \in Posts : PostBounded(posts[p])

\* A write within the bound leaves one audit fact more, within the bound.
LEMMA AuditBounded ==
    ASSUME MarketingBounded, Now <= MaxEdits, NEW fact, marketingAudits' = marketingAudits \cup {fact}
    PROVE  IsFiniteSet(marketingAudits') /\ Cardinality(marketingAudits') <= MaxEdits /\ Now \in 0..MaxEdits
<1>1. IsFiniteSet(marketingAudits) /\ Cardinality(marketingAudits) \in Nat
  BY FS_CardinalityType DEF MarketingBounded
<1>2. /\ IsFiniteSet(marketingAudits \cup {fact})
      /\ Cardinality(marketingAudits \cup {fact}) \in {Cardinality(marketingAudits), Cardinality(marketingAudits) + 1}
  BY <1>1, FS_AddElement
<1>3. QED BY <1>1, <1>2, MarketingAssumption DEF Now

\* A link is written by one of the staff.
LEMMA LinkStaysBounded ==
    ASSUME MarketingInv, MarketingBounded, NEW l \in TrackingLinks, NEW link, LinkBounded(link),
           links' = [links EXCEPT ![l] = link], clicked' \in [TrackingLinks -> 0..MaxClicks],
           IsFiniteSet(marketingAudits'), Cardinality(marketingAudits') <= MaxEdits, UNCHANGED <<posts, forms>>
    PROVE  MarketingBounded'
<1>1. links'[l] = link /\ \A m \in TrackingLinks \ {l} : links'[m] = links[m]
  BY DEF MarketingInv
<1>2. \A m \in TrackingLinks : LinkBounded(links'[m])
  BY <1>1 DEF MarketingBounded
<1>3. \A p \in Posts : PostBounded(posts'[p])
  BY DEF MarketingBounded
<1>4. QED BY <1>2, <1>3 DEF MarketingBounded

LEMMA LinkUpdateBounded ==
    ASSUME MarketingInv, MarketingBounded, NEW a, NEW l \in TrackingLinks, NEW form, UpdateLink(a, l, form),
           form.enabled \in BOOLEAN \cup {Unset}
    PROVE  MarketingBounded'
<1>1. PICK extra : links' = [links EXCEPT ![l] = SetFields(links[l], form, extra)]
  BY DEF UpdateLink
<1>2. PICK old, link : old = links[l] /\ link = SetFields(old, form, extra)
  OBVIOUS
<1>3. DOMAIN old = DOMAIN NoLink /\ LinkBounded(old)
  BY <1>2 DEF UpdateLink, LinkExists, MarketingInv, LinkFits, MarketingBounded
<1>4. link.clicks = old.clicks /\ link.enabled = Or(form.enabled, old.enabled)
  BY <1>2, <1>3 DEF SetFields, NoLink
<1>5. LinkBounded(link)
  BY <1>3, <1>4 DEF LinkBounded, Or
<1>6. /\ Now <= MaxEdits /\ marketingAudits' = marketingAudits \cup {AuditFact(a, "utm_link_update", l)}
      /\ UNCHANGED <<posts, clicked, forms>>
  BY DEF UpdateLink
<1>7. QED BY <1>1, <1>2, <1>5, <1>6, AuditBounded, LinkStaysBounded DEF MarketingBounded

LEMMA LinkMovesBounded ==
    ASSUME MarketingInv, MarketingBounded, NEW a \in Staff, NEW l \in TrackingLinks,
           \/ \E form \in LinkForms : CreateLink(a, l, form) \/ UpdateLink(a, l, form)
           \/ Toggle(a, l) \/ DeleteLink(a, l)
    PROVE  MarketingBounded'
<1>1. ASSUME NEW form \in LinkForms, UpdateLink(a, l, form) PROVE MarketingBounded'
  BY <1>1, LinkUpdateBounded, MarketingAssumption
<1>2. ASSUME NEW form \in LinkForms, CreateLink(a, l, form) PROVE MarketingBounded'
  <2>1. PICK extra : links' = [links EXCEPT ![l] = NewLink(form, extra)]
    BY <1>2 DEF CreateLink
  <2>2. PICK link : link = NewLink(form, extra)
    OBVIOUS
  <2>3. link.clicks = 0 /\ link.enabled = Or(form.enabled, TRUE)
    BY <2>2 DEF NewLink
  <2>4. LinkBounded(link)
    <3>1. link.clicks \in 0..MaxClicks
      BY <2>3, MarketingAssumption
    <3>2. form.enabled \in BOOLEAN \cup {Unset}
      BY MarketingAssumption
    <3>3. link.enabled \in BOOLEAN
      BY <2>3, <3>2 DEF Or
    <3>4. QED BY <3>1, <3>3 DEF LinkBounded
  <2>5. /\ Now <= MaxEdits /\ marketingAudits' = marketingAudits \cup {AuditFact(a, "utm_link_create", l)}
        /\ clicked' = [clicked EXCEPT ![l] = 0] /\ UNCHANGED <<posts, forms>>
    BY <1>2 DEF CreateLink
  <2>6. clicked' \in [TrackingLinks -> 0..MaxClicks]
    BY <2>5, MarketingAssumption DEF MarketingBounded
  <2>7. QED BY <2>1, <2>2, <2>4, <2>5, <2>6, AuditBounded, LinkStaysBounded
<1>3. CASE Toggle(a, l)
  <2>1. PICK form : form = [slug |-> Unset, target |-> Unset, source |-> Unset, medium |-> Unset,
                            extra |-> Unset, overlong |-> FALSE, enabled |-> ~forms[a].enabled]
    OBVIOUS
  <2>2. UpdateLink(a, l, form)
    BY <1>3, <2>1 DEF Toggle
  <2>3. form.enabled \in BOOLEAN
    BY <2>1 DEF MarketingBounded
  <2>4. QED BY <2>2, <2>3, LinkUpdateBounded
<1>4. CASE DeleteLink(a, l)
  <2>1. PICK link : link = NoLink
    OBVIOUS
  <2>2. LinkBounded(link)
    <3>1. link.clicks = 0 /\ link.enabled = FALSE
      BY <2>1 DEF NoLink
    <3>2. 0 \in 0..MaxClicks
      BY MarketingAssumption
    <3>3. QED BY <3>1, <3>2 DEF LinkBounded
  <2>3. /\ Now <= MaxEdits /\ marketingAudits' = marketingAudits \cup {AuditFact(a, "utm_link_delete", l)}
        /\ links' = [links EXCEPT ![l] = link] /\ UNCHANGED <<posts, clicked, forms>>
    BY <1>4, <2>1 DEF DeleteLink
  <2>4. QED BY <2>2, <2>3, AuditBounded, LinkStaysBounded DEF MarketingBounded
<1>5. QED BY <1>1, <1>2, <1>3, <1>4

LEMMA PostMovesBounded ==
    ASSUME MarketingInv, MarketingBounded, NEW a, NEW p \in Posts,
           \/ \E form \in PostForms : CreatePost(a, p, form) \/ UpdatePost(a, p, form)
           \/ PublishPost(a, p) \/ UnpublishPost(a, p) \/ DeletePost(a, p)
    PROVE  MarketingBounded'
<1>1. ASSUME NEW post, posts' = [posts EXCEPT ![p] = post], PostBounded(post), Now <= MaxEdits,
             NEW action, marketingAudits' = marketingAudits \cup {AuditFact(a, action, p)},
             UNCHANGED <<links, clicked, forms>>
      PROVE  MarketingBounded'
  <2>1. posts'[p] = post /\ \A q \in Posts \ {p} : posts'[q] = posts[q]
    BY <1>1 DEF MarketingInv
  <2>2. \A q \in Posts : PostBounded(posts'[q])
    BY <1>1, <2>1 DEF MarketingBounded
  <2>3. IsFiniteSet(marketingAudits') /\ Cardinality(marketingAudits') <= MaxEdits
    BY <1>1, AuditBounded
  <2>4. \A l \in TrackingLinks : LinkBounded(links'[l])
    BY <1>1 DEF MarketingBounded
  <2>5. QED BY <1>1, <2>2, <2>3, <2>4 DEF MarketingBounded
<1>2. ASSUME Now <= MaxEdits PROVE Now \in 0..MaxEdits
  <2>1. Cardinality(marketingAudits) \in Nat
    BY FS_CardinalityType DEF MarketingBounded
  <2>2. QED BY <1>2, <2>1, MarketingAssumption DEF Now
<1>3. PostBounded(posts[p]) /\ DOMAIN posts[p] = DOMAIN NoPost /\ DOMAIN posts = Posts
  BY DEF MarketingBounded, MarketingInv
<1>4. ASSUME NEW form \in PostForms, CreatePost(a, p, form) PROVE MarketingBounded'
  <2>1. PICK status : status = Or(form.status, "draft")
    OBVIOUS
  <2>2. PICK post : post = [slug |-> SlugFor(form), title |-> form.title, status |-> status,
                            published |-> Dated(NoPost, status)]
    OBVIOUS
  <2>3. /\ posts' = [posts EXCEPT ![p] = post] /\ UNCHANGED <<links, clicked, forms>> /\ Now <= MaxEdits
        /\ marketingAudits' = marketingAudits \cup {AuditFact(a, "blog_create", p)}
        /\ form.status \in PostStatuses \cup {Unset}
    BY <1>4, <2>1, <2>2 DEF CreatePost, NormalizePost
  <2>4. status \in PostStatuses
    BY <2>1, <2>3 DEF Or, PostStatuses
  <2>5. Dated(NoPost, status) \in 0..MaxEdits
    BY <1>2, <2>3, MarketingAssumption DEF Dated, NoPost
  <2>6. PostBounded(post)
    BY <2>2, <2>4, <2>5 DEF PostBounded
  <2>7. QED BY <1>1, <2>3, <2>6
<1>5. ASSUME NEW form \in PostForms, UpdatePost(a, p, form) PROVE MarketingBounded'
  <2>1. PICK old, slug : old = posts[p] /\ slug = IF form.slug \in {Unset, ""} THEN posts[p].slug ELSE form.slug
    OBVIOUS
  <2>2. PICK post : post = [slug |-> slug, title |-> Or(form.title, old.title), status |-> Or(form.status, old.status),
                            published |-> Dated(old, form.status)]
    OBVIOUS
  <2>3. /\ posts' = [posts EXCEPT ![p] = post] /\ UNCHANGED <<links, clicked, forms>> /\ Now <= MaxEdits
        /\ marketingAudits' = marketingAudits \cup {AuditFact(a, "blog_update", p)}
        /\ form.status \in PostStatuses \cup {Unset}
    BY <1>5, <2>1, <2>2 DEF UpdatePost, NormalizePost
  <2>4. Or(form.status, old.status) \in PostStatuses
    BY <1>3, <2>1, <2>3 DEF Or, PostBounded
  <2>5. Dated(old, form.status) \in 0..MaxEdits
    BY <1>2, <1>3, <2>1, <2>3 DEF Dated, PostBounded
  <2>6. PostBounded(post)
    BY <2>2, <2>4, <2>5 DEF PostBounded
  <2>7. QED BY <1>1, <2>3, <2>6
<1>6. ASSUME NEW status \in PostStatuses, NEW action, SetStatus(a, p, status, action) PROVE MarketingBounded'
  <2>1. PICK old, date : old = posts[p] /\ date = IF status = "published" THEN Now ELSE old.published
    OBVIOUS
  <2>2. PICK post : post = [old EXCEPT !.status = status, !.published = date]
    OBVIOUS
  <2>3. /\ posts' = [posts EXCEPT ![p].status = status,
                                  ![p].published = IF status = "published" THEN Now ELSE @]
        /\ UNCHANGED <<links, clicked, forms>> /\ Now <= MaxEdits
        /\ marketingAudits' = marketingAudits \cup {AuditFact(a, action, p)}
    BY <1>6 DEF SetStatus
  <2>4. posts' = [posts EXCEPT ![p] = post]
    BY <1>3, <2>1, <2>2, <2>3 DEF NoPost
  <2>5. post.status = status /\ post.published = date
    BY <1>3, <2>1, <2>2 DEF NoPost
  <2>6. PostBounded(post)
    BY <1>2, <1>3, <2>1, <2>3, <2>5 DEF PostBounded
  <2>7. QED BY <1>1, <2>3, <2>4, <2>6
<1>7. CASE DeletePost(a, p)
  <2>1. PICK post : post = NoPost
    OBVIOUS
  <2>2. PostBounded(post)
    <3>1. post.published = 0 /\ post.status = "draft"
      BY <2>1 DEF NoPost
    <3>2. 0 \in 0..MaxEdits
      BY MarketingAssumption
    <3>3. QED BY <3>1, <3>2 DEF PostBounded, PostStatuses
  <2>3. /\ posts' = [posts EXCEPT ![p] = post] /\ UNCHANGED <<links, clicked, forms>> /\ Now <= MaxEdits
        /\ marketingAudits' = marketingAudits \cup {AuditFact(a, "blog_delete", p)}
    BY <1>7, <2>1 DEF DeletePost
  <2>4. QED BY <1>1, <2>2, <2>3
<1>8. "published" \in PostStatuses /\ "draft" \in PostStatuses
  BY DEF PostStatuses
<1>9. QED BY <1>4, <1>5, <1>6, <1>7, <1>8 DEF PublishPost, UnpublishPost

LEMMA MarketingBoundedStep == MarketingInv /\ MarketingBounded /\ [MarketingNext]_marketingVars => MarketingBounded'
<1> SUFFICES ASSUME MarketingInv, MarketingBounded, [MarketingNext]_marketingVars PROVE MarketingBounded'
  OBVIOUS
<1>1. CASE UNCHANGED marketingVars
  BY <1>1 DEF MarketingBounded, LinkBounded, PostBounded, marketingVars
<1>2. ASSUME NEW a \in Staff, NEW l \in TrackingLinks, ListLinks(a, l) PROVE MarketingBounded'
  <2>1. forms' = [forms EXCEPT ![a] = links[l]] /\ UNCHANGED <<links, posts, marketingAudits, clicked>>
    BY <1>2 DEF ListLinks
  <2>2. DOMAIN forms' = Staff /\ \A b \in Staff : forms'[b].enabled \in BOOLEAN
    BY <2>1 DEF MarketingBounded, LinkBounded
  <2>3. QED BY <2>1, <2>2 DEF MarketingBounded, LinkBounded, PostBounded
<1>3. ASSUME NEW l \in TrackingLinks, Click(l) PROVE MarketingBounded'
  <2>1. PICK link, old : old = links[l] /\ link = [old EXCEPT !.clicks = @ + 1]
    OBVIOUS
  <2>2. /\ links' = [links EXCEPT ![l].clicks = @ + 1] /\ clicked' = [clicked EXCEPT ![l] = @ + 1]
        /\ UNCHANGED <<posts, marketingAudits, forms>> /\ old.clicks < MaxClicks
    BY <1>3, <2>1 DEF Click
  <2>3. LinkFits(old, clicked[l]) /\ LinkBounded(old)
    BY <1>3, <2>1 DEF Click, LinkExists, MarketingInv, MarketingBounded
  <2>4. links' = [links EXCEPT ![l] = link]
    BY <2>1, <2>2
  <2>5. link.clicks = old.clicks + 1 /\ link.enabled = old.enabled
    BY <2>1, <2>3 DEF LinkFits, NoLink
  <2>6. LinkBounded(link)
    BY <2>2, <2>3, <2>5, MarketingAssumption DEF LinkBounded
  <2>7. clicked' \in [TrackingLinks -> 0..MaxClicks]
    <3>1. clicked[l] + 1 \in 0..MaxClicks
      <4>1. clicked[l] = old.clicks /\ old.clicks \in 0..MaxClicks
        BY <2>3 DEF LinkFits, LinkBounded
      <4>2. QED BY <2>2, <4>1, MarketingAssumption
    <3>2. QED BY <2>2, <3>1 DEF MarketingBounded
  <2>8. QED BY <2>2, <2>4, <2>6, <2>7, LinkStaysBounded DEF MarketingBounded
<1>4. QED BY <1>1, <1>2, <1>3, LinkMovesBounded, PostMovesBounded DEF MarketingNext

\* MarketingTypeOK: links are on or off, posts have a status, and clicks, dates and
\* audit facts stay within their bounds.
THEOREM MarketingTyped == MarketingSpec => []MarketingTypeOK
<1>1. MarketingInit => MarketingBounded
  <2> SUFFICES ASSUME MarketingInit PROVE MarketingBounded
    OBVIOUS
  <2>1. IsFiniteSet(marketingAudits) /\ Cardinality(marketingAudits) = 0 /\ MaxEdits \in Nat /\ MaxClicks \in Nat
    BY FS_EmptySet, MarketingAssumption DEF MarketingInit
  <2>2. LinkBounded(NoLink) /\ NoLink.enabled = FALSE /\ PostBounded(NoPost)
    BY <2>1 DEF LinkBounded, PostBounded, NoLink, NoPost, PostStatuses
  <2>3. clicked \in [TrackingLinks -> 0..MaxClicks]
    BY <2>1 DEF MarketingInit
  <2>4. DOMAIN forms = Staff /\ \A a \in Staff : forms[a].enabled \in BOOLEAN
    BY <2>2 DEF MarketingInit
  <2>5. (\A l \in TrackingLinks : LinkBounded(links[l])) /\ \A p \in Posts : PostBounded(posts[p])
    BY <2>2 DEF MarketingInit
  <2>6. QED BY <2>1, <2>3, <2>4, <2>5 DEF MarketingBounded
<1>2. MarketingBounded => MarketingTypeOK
  BY DEF MarketingBounded, LinkBounded, PostBounded, MarketingTypeOK
<1>3. QED BY <1>1, <1>2, MarketingBoundedStep, MarketingInvariant, PTL DEF MarketingSpec
-----------------------------------------------------------------------------
(* The types of the images.                                                  *)

\* The images of the first k collections.
OfFirst(k) == {id \in DOMAIN images : \E i \in 1..k : images[id].collection = Collections[i]}

StatsShape ==
    stats \in [pc : {"idle", "active", "hidden", "deleted", "today", "answered"}, at : 1..3,
               active : Nat, hidden : Nat, deleted : Nat, today : Nat, quiet : BOOLEAN]

\* Statuses are known ones, a page is no longer than the longest, and today's
\* images are counted of the collections read so far.
ImagesBounded ==
    /\ \A id \in DOMAIN images : images[id].status \in ImageStatuses
    /\ Len(list.page) <= MaxPageSize
    /\ batch.ids \subseteq UNION Batches
    /\ StatsShape
    /\ stats.today <= Cardinality(OfFirst(IF stats.pc = "answered" THEN 3 ELSE stats.at - 1))

LEMMA OfFirstCounted ==
    ASSUME LibraryKept, NEW k \in 0..3
    PROVE  IsFiniteSet(OfFirst(k)) /\ Cardinality(OfFirst(k)) \in Nat /\ Cardinality(OfFirst(k)) <= Cardinality(DOMAIN images)
<1>1. OfFirst(k) \subseteq DOMAIN images /\ IsFiniteSet(DOMAIN images)
  BY DEF OfFirst, LibraryKept, DatedApart
<1>2. QED BY <1>1, FS_Subset, FS_CardinalityType

LEMMA ImagesBoundedStart == ImagesInit => ImagesBounded
<1> SUFFICES ASSUME ImagesInit PROVE ImagesBounded
  OBVIOUS
<1>1. Len(list.page) <= MaxPageSize
  BY ImagesAssumption DEF ImagesInit, NoList
<1>2. StatsShape /\ stats.today = 0 /\ stats.pc = "idle" /\ stats.at = 1
  BY DEF ImagesInit, NoStats, StatsShape
<1>3. OfFirst(0) = {}
  BY DEF OfFirst
<1>4. stats.today <= Cardinality(OfFirst(IF stats.pc = "answered" THEN 3 ELSE stats.at - 1))
  BY <1>2, <1>3, FS_EmptySet
<1>5. QED BY <1>1, <1>2, <1>4, ImagesAssumption DEF ImagesInit, NoBatch, ImagesBounded

\* Counting is bounded by what is there.
LEMMA CountedOfOne ==
    ASSUME LibraryKept, StatsShape, NEW found \in SUBSET InCollection(Collections[stats.at])
    PROVE  /\ IsFiniteSet(found) /\ Cardinality(found) \in Nat
           /\ Cardinality(OfFirst(stats.at - 1)) + Cardinality(found) <= Cardinality(OfFirst(stats.at))
<1>1. stats.at \in 1..3 /\ stats.at - 1 \in 0..3
  BY DEF StatsShape
<1>2. OfFirst(stats.at - 1) \cap found = {} /\ OfFirst(stats.at - 1) \cup found \subseteq OfFirst(stats.at)
  BY <1>1 DEF OfFirst, InCollection, Collections
<1>3. found \subseteq OfFirst(stats.at)
  BY <1>2
<1>4. IsFiniteSet(OfFirst(stats.at - 1)) /\ IsFiniteSet(OfFirst(stats.at)) /\ IsFiniteSet(found)
  BY <1>1, <1>3, OfFirstCounted, FS_Subset
<1>5. Cardinality(OfFirst(stats.at - 1) \cup found) = Cardinality(OfFirst(stats.at - 1)) + Cardinality(found)
  <2> DEFINE before == OfFirst(stats.at - 1)
  <2>1. /\ Cardinality(before \cup found) = Cardinality(before) + Cardinality(found) - Cardinality(before \cap found)
        /\ before \cap found = {}
    BY <1>2, <1>4, FS_Union
  <2>2. Cardinality(before \cap found) = 0
    BY <2>1, FS_EmptySet
  <2>3. Cardinality(before) \in Nat /\ Cardinality(found) \in Nat
    BY <1>4, FS_CardinalityType
  <2> HIDE DEF before
  <2>4. Cardinality(before \cup found) = Cardinality(before) + Cardinality(found)
    BY <2>1, <2>2, <2>3
  <2>5. QED BY <2>4 DEF before
<1>6. QED BY <1>2, <1>4, <1>5, FS_Subset, FS_CardinalityType

\* Images are withdrawn while they are counted, or not.
LEMMA WithdrawBounded ==
    ASSUME ImagesInv, ImagesBounded, Disturb, DOMAIN images' = DOMAIN images, batch'.ids \subseteq UNION Batches,
           \A id \in DOMAIN images :
              images'[id] = images[id] \/ \E status \in Mutations \cup {"hidden"} : images'[id] = Withdrawn(images[id], status)
    PROVE  ImagesBounded'
<1>1. \A id \in DOMAIN images :
          images'[id].collection = images[id].collection /\ images'[id].status \in {images[id].status, "hidden"} \cup Mutations
  BY WithdrawnKept DEF ImagesInv, LibraryKept
<1>2. \A k \in 0..3 : OfFirst(k)' = OfFirst(k)
  BY <1>1 DEF OfFirst
<1>3. list' = [list EXCEPT !.quiet = list.pc = "idle"] /\ stats' = [stats EXCEPT !.quiet = stats.pc = "idle"]
  BY DEF Disturb
<1>4. list'.page = list.page
  BY <1>3 DEF ImagesInv, ListShape
<1>5. StatsShape' /\ stats'.today = stats.today /\ stats'.pc = stats.pc /\ stats'.at = stats.at
  BY <1>3 DEF ImagesBounded, StatsShape
<1>6. (IF stats.pc = "answered" THEN 3 ELSE stats.at - 1) \in 0..3
  BY DEF ImagesBounded, StatsShape
<1>7. QED BY <1>1, <1>2, <1>4, <1>5, <1>6 DEF ImagesBounded, ImageStatuses

\* Only what counts moves.
LEMMA StatsBounded ==
    ASSUME ImagesBounded, UNCHANGED <<images, list, batch>>, StatsShape',
           stats'.today <= Cardinality(OfFirst(IF stats'.pc = "answered" THEN 3 ELSE stats'.at - 1))
    PROVE  ImagesBounded'
<1>1. \A k \in {3, stats'.at - 1} : OfFirst(k)' = OfFirst(k)
  BY DEF OfFirst
<1>2. QED BY <1>1 DEF ImagesBounded

LEMMA CountsBounded ==
    ASSUME ImagesInv, ImagesBounded, BeginStats \/ CountActive \/ CountHidden \/ CountDeleted \/ CountToday \/ StatsDone
    PROVE  ImagesBounded'
<1>1. LibraryKept /\ StatsShape /\ UNCHANGED <<images, list, batch>>
  BY DEF ImagesInv, ImagesBounded, BeginStats, CountActive, CountHidden, CountDeleted, CountToday, StatsDone
<1> DEFINE here == InCollection(Collections[stats.at])
<1>2. CASE BeginStats \/ StatsDone
  <2>1. StatsShape' /\ stats'.today = 0 /\ stats'.pc # "answered" /\ stats'.at = 1
    <3>1. PICK pc \in {"idle", "active"} :
            stats' = [pc |-> pc, at |-> 1, active |-> 0, hidden |-> 0, deleted |-> 0, today |-> 0, quiet |-> TRUE]
      BY <1>2 DEF BeginStats, StatsDone, NoStats
    <3>2. QED BY <3>1 DEF StatsShape
  <2>2. OfFirst(0) = {}
    BY DEF OfFirst
  <2>3. stats'.today <= Cardinality(OfFirst(IF stats'.pc = "answered" THEN 3 ELSE stats'.at - 1))
    BY <2>1, <2>2, FS_EmptySet
  <2>4. QED BY <1>1, <2>1, <2>3, StatsBounded
<1>3. ASSUME NEW found \in SUBSET here, NEW pc \in {"hidden", "deleted", "today"}, stats.pc # "answered",
             \/ stats' = [stats EXCEPT !.pc = pc, !.active = @ + Cardinality(found)]
             \/ stats' = [stats EXCEPT !.pc = pc, !.hidden = @ + Cardinality(found)]
             \/ stats' = [stats EXCEPT !.pc = pc, !.deleted = @ + Cardinality(found)]
      PROVE  ImagesBounded'
  <2>1. PICK n \in Nat : n = Cardinality(found)
    BY <1>1, CountedOfOne
  <2>2. stats.active + n \in Nat /\ stats.hidden + n \in Nat /\ stats.deleted + n \in Nat
    BY <1>1, <2>1 DEF StatsShape
  <2>3. StatsShape' /\ stats'.today = stats.today /\ stats'.pc # "answered" /\ stats'.at = stats.at
    BY <1>1, <1>3, <2>1, <2>2 DEF StatsShape
  <2>4. QED BY <1>1, <1>3, <2>3, StatsBounded DEF ImagesBounded
<1>4. CASE CountActive
  <2> DEFINE found == {id \in here : Finished(images[id]) /\ IsActive(images[id])}
  <2>1. found \in SUBSET here
    OBVIOUS
  <2>2. stats.pc = "active" /\ stats' = [stats EXCEPT !.pc = "hidden", !.active = @ + Cardinality(found)]
    BY <1>4 DEF CountActive, Counted
  <2> HIDE DEF found, here
  <2>3. QED BY <1>3, <2>1, <2>2
<1>5. CASE CountHidden
  <2> DEFINE found == {id \in here : Finished(images[id]) /\ IsHidden(images[id])}
  <2>1. found \in SUBSET here
    OBVIOUS
  <2>2. stats.pc = "hidden" /\ stats' = [stats EXCEPT !.pc = "deleted", !.hidden = @ + Cardinality(found)]
    BY <1>5 DEF CountHidden, Counted
  <2> HIDE DEF found, here
  <2>3. QED BY <1>3, <2>1, <2>2
<1>6. CASE CountDeleted
  <2> DEFINE found == {id \in here : Finished(images[id]) /\ images[id].status = "deleted"}
  <2>1. found \in SUBSET here
    OBVIOUS
  <2>2. stats.pc = "deleted" /\ stats' = [stats EXCEPT !.pc = "today", !.deleted = @ + Cardinality(found)]
    BY <1>6 DEF CountDeleted, Counted
  <2> HIDE DEF found, here
  <2>3. QED BY <1>3, <2>1, <2>2
<1>7. CASE CountToday
  <2> DEFINE found == {id \in here : Finished(images[id]) /\ images[id].created >= Today}
             done == [stats EXCEPT !.today = @ + Cardinality(found)]
  <2>1. found \in SUBSET here
    OBVIOUS
  <2>2. /\ stats.pc = "today"
        /\ stats' = IF stats.at = 3 THEN [done EXCEPT !.pc = "answered"]
                    ELSE [done EXCEPT !.pc = "active", !.at = @ + 1]
    BY <1>7 DEF CountToday, Counted, Collections
  <2> HIDE DEF found, here, done
  <2>3. PICK n \in Nat : n = Cardinality(found) /\ Cardinality(OfFirst(stats.at - 1)) + n <= Cardinality(OfFirst(stats.at))
    BY <1>1, <2>1, CountedOfOne DEF here
  <2>4. stats.today + n \in Nat /\ stats.today \in Nat /\ stats.at \in 1..3 /\ stats.at - 1 \in 0..3
    BY <1>1, <2>3 DEF StatsShape
  <2>5. Cardinality(OfFirst(stats.at - 1)) \in Nat /\ Cardinality(OfFirst(stats.at)) \in Nat
    BY <1>1, <2>4, OfFirstCounted
  <2>6. stats.today + n <= Cardinality(OfFirst(stats.at))
    BY <2>2, <2>3, <2>4, <2>5 DEF ImagesBounded
  <2>7. StatsShape' /\ stats'.today = stats.today + n
        /\ (IF stats'.pc = "answered" THEN 3 ELSE stats'.at - 1) = stats.at
    <3>1. done = [stats EXCEPT !.today = stats.today + n]
      BY <2>3 DEF done
    <3>2. PICK counted \in Nat : counted = stats.today + n
      BY <2>4
    <3>3. CASE stats.at = 3
      <4>1. stats' = [stats EXCEPT !.today = counted, !.pc = "answered"]
        BY <2>2, <3>1, <3>2, <3>3
      <4>2. QED BY <1>1, <3>2, <3>3, <4>1 DEF StatsShape
    <3>4. CASE stats.at # 3
      <4>1. PICK at \in 1..3 : at = stats.at + 1
        BY <2>4, <3>4
      <4>2. stats' = [stats EXCEPT !.today = counted, !.pc = "active", !.at = at]
        BY <2>2, <3>1, <3>2, <3>4, <4>1 DEF StatsShape
      <4>3. StatsShape' /\ stats'.today = counted /\ stats'.pc = "active" /\ stats'.at = at
        BY <1>1, <4>2 DEF StatsShape
      <4>4. QED BY <2>4, <3>2, <4>1, <4>3
    <3>5. QED BY <3>3, <3>4
  <2>8. QED BY <1>1, <2>6, <2>7, StatsBounded
<1>8. QED BY <1>2, <1>4, <1>5, <1>6, <1>7

LEMMA PageBounded ==
    ASSUME ImagesInv, MergeList
    PROVE  Len(list'.page) <= MaxPageSize
<1> DEFINE s == Newest(list.read, images)
           n == Skip(list.query) + Limit(list.query)
<1>1. /\ list.query \in ImageQueries /\ list' = [list EXCEPT !.pc = "answered", !.page = PageOf(s, list.query)]
      /\ list.read \in SUBSET DOMAIN images
  BY DEF ImagesInv, ListShape, MergeList
<1>2. s \in Seq(list.read) /\ Len(s) \in Nat
  BY <1>1, PartDated, DatedOrdered, SortedByRank DEF ImagesInv, Newest
<1>3. /\ n \in Nat /\ Skip(list.query) \in Nat /\ Limit(list.query) \in 1..MaxPageSize /\ MaxPageSize \in Nat
      /\ n = Skip(list.query) + Limit(list.query)
  BY <1>1, PageBounds
<1>4. list'.page = SubSeq(s, Skip(list.query) + 1, IF n > Len(s) THEN Len(s) ELSE n)
  BY <1>1 DEF ImagesInv, ListShape, PageOf
<1> HIDE DEF s, n
<1> DEFINE last == IF n > Len(s) THEN Len(s) ELSE n
<1>5. last \in Nat /\ last <= n /\ Skip(list.query) + 1 \in Nat /\ \A i \in (Skip(list.query) + 1)..last : s[i] \in list.read
  BY <1>2, <1>3
<1> HIDE DEF last
<1>6. Len(SubSeq(s, Skip(list.query) + 1, last)) = IF Skip(list.query) + 1 <= last THEN last - (Skip(list.query) + 1) + 1 ELSE 0
  BY <1>2, <1>5, SubSeqProperties
<1>7. QED BY <1>3, <1>4, <1>5, <1>6 DEF last

LEMMA ImagesBoundedStep == ImagesInv /\ ImagesBounded /\ [ImagesNext]_imageVars => ImagesBounded'
<1> SUFFICES ASSUME ImagesInv, ImagesBounded, [ImagesNext]_imageVars PROVE ImagesBounded'
  OBVIOUS
<1>1. ASSUME UNCHANGED <<images, batch, stats>>, Len(list'.page) <= MaxPageSize PROVE ImagesBounded'
  BY <1>1 DEF ImagesBounded, StatsShape, OfFirst
<1>2. ASSUME UNCHANGED <<images, list, stats>>, batch'.ids \subseteq UNION Batches PROVE ImagesBounded'
  BY <1>2 DEF ImagesBounded, StatsShape, OfFirst
<1>3. Len(NoList.page) <= MaxPageSize
  BY ImagesAssumption DEF NoList
<1>4. CASE BeginList
  BY <1>1, <1>3, <1>4 DEF BeginList, NoList
<1>5. CASE SkipCollection \/ CountCollection \/ FindCollection
  <2>1. list'.page = list.page /\ UNCHANGED <<images, batch, stats>>
    BY <1>5 DEF ImagesInv, ListShape, SkipCollection, CountCollection, FindCollection, NextCollection
  <2>2. QED BY <1>1, <2>1 DEF ImagesBounded
<1>6. CASE MergeList
  BY <1>1, <1>6, PageBounded DEF MergeList
<1>7. CASE ListFails \/ ListDone
  BY <1>1, <1>3, <1>7 DEF ListFails, ListDone
<1>8. CASE Mutate
  <2>1. PICK id \in DOMAIN images, m \in Mutations : images' = [images EXCEPT ![id] = Withdrawn(images[id], m)]
    BY <1>8 DEF Mutate
  <2>2. QED BY <1>8, <2>1, WithdrawBounded DEF Mutate, ImagesBounded
<1>9. CASE BatchCollection
  <2>1. batch'.ids \subseteq UNION Batches
    <3>1. CASE batch' = NoBatch
      BY <3>1 DEF NoBatch
    <3>2. CASE batch' = [batch EXCEPT !.at = @ + 1]
      BY <3>2 DEF ImagesBounded
    <3>3. QED BY <1>9, <3>1, <3>2 DEF BatchCollection
  <2>2. QED BY <1>9, <2>1, WithdrawBounded DEF BatchCollection
<1>10. CASE BeginBatch
  BY <1>2, <1>10 DEF BeginBatch
<1>11. CASE BatchFails
  BY <1>2, <1>11 DEF BatchFails, NoBatch
<1>12. CASE BeginStats \/ CountActive \/ CountHidden \/ CountDeleted \/ CountToday \/ StatsDone
  BY <1>12, CountsBounded
<1>13. CASE BeginOptions \/ AggregateTemplates \/ OptionsDone \/ UNCHANGED imageVars
  BY <1>13, <1>1 DEF BeginOptions, AggregateTemplates, OptionsDone, imageVars, ImagesBounded
<1>14. QED
  BY <1>4, <1>5, <1>6, <1>7, <1>8, <1>9, <1>10, <1>11, <1>12, <1>13 DEF ImagesNext

\* Statuses stay known ones, pages within the longest, and no more of today's
\* images are counted than there are, whatever changes between the counts.
THEOREM ImagesTyped == ImagesSpec => []ImagesTypeOK
<1>1. ImagesInv /\ ImagesBounded => ImagesTypeOK
  <2> SUFFICES ASSUME ImagesInv, ImagesBounded PROVE ImagesTypeOK
    OBVIOUS
  <2>1. stats.today \in Nat /\ (IF stats.pc = "answered" THEN 3 ELSE stats.at - 1) \in 0..3
    BY DEF ImagesBounded, StatsShape
  <2>2. IsFiniteSet(DOMAIN images) /\ Cardinality(DOMAIN images) \in Nat
    BY FS_CardinalityType DEF ImagesInv, LibraryKept, DatedApart
  <2>3. stats.today <= Cardinality(DOMAIN images)
    BY <2>1, <2>2, OfFirstCounted DEF ImagesInv, ImagesBounded
  <2>4. QED BY <2>3 DEF ImagesInv, ListShape, ImagesBounded, ImagesTypeOK
<1>2. QED BY <1>1, ImagesBoundedStart, ImagesBoundedStep, ImagesIsInductive, PTL DEF ImagesSpec
-----------------------------------------------------------------------------
(* The types of the copies.                                                  *)

\* What is handed over of a stream is numbered, and no more than was taken in
\* but for the part being handed over.
HandedOver(s) == s.sent * PartSize
PartsMeant(s) ==
    /\ s.taken <= s.written
    /\ HandedOver(s) <= s.taken + PartSize
    /\ s.pc \in {"copying", "flushing"} => HandedOver(s) <= s.taken
    /\ s.pc = "dispatching" => s.taken = HandedOver(s) + PartSize
    /\ Len(s.queue) <= QueueSize /\ \A i \in 1..Len(s.queue) : s.queue[i] \in 1..s.sent
    /\ \A w \in Workers : s.busy[w] \in 0..s.sent
    /\ s.stored \subseteq 1..s.sent

StreamsBounded ==
    /\ \A c \in Claims : PartsMeant(copy[c])
    /\ upload \in [Claims -> {"none", "open", "completed", "aborted"}]
    /\ event \in {"open", "delivered", "failed", "attention"}

LEMMA HandedOverNatural ==
    ASSUME NEW s \in StreamCopy
    PROVE  HandedOver(s) \in Nat /\ (s.sent + 1) * PartSize = HandedOver(s) + PartSize /\ PartSize \in Nat \ {0} /\ QueueSize \in Nat \ {0}
<1>1. PartSize \in Nat \ {0} /\ QueueSize \in Nat \ {0}
  BY StreamsAssumption
<1>2. \A a, b \in Nat : a * b \in Nat /\ (a + 1) * b = a * b + b
  OBVIOUS
<1>3. s.sent \in Nat
  BY DEF StreamCopy
<1>4. QED BY <1>1, <1>2, <1>3 DEF HandedOver

\* The uploads and the event are where they can be.
LEMMA StoreBounded ==
    ASSUME StreamsBounded, [StreamsNext]_streamVars
    PROVE  upload' \in [Claims -> {"none", "open", "completed", "aborted"}] /\ event' \in {"open", "delivered", "failed", "attention"}
<1>1. upload \in [Claims -> {"none", "open", "completed", "aborted"}] /\ event \in {"open", "delivered", "failed", "attention"}
  BY DEF StreamsBounded
<1>2. ASSUME NEW c \in Claims, NEW where \in {"open", "completed", "aborted"}, upload' = [upload EXCEPT ![c] = where]
      PROVE  upload' \in [Claims -> {"none", "open", "completed", "aborted"}]
  BY <1>1, <1>2
<1>3. CASE AuditPage \/ AuditCompare \/ UNCHANGED streamVars
  BY <1>1, <1>3 DEF AuditPage, AuditCompare, streamVars
<1>4. ASSUME NEW c \in Claims,
             \/ LoseLease(c) \/ Write(c) \/ Dispatch(c) \/ EndOfBody(c) \/ ReadFails(c)
             \/ Flush(c) \/ Drain(c) \/ Verify(c) \/ StopWorkers(c)
             \/ \E w \in Workers : TakePart(c, w) \/ PartStored(c, w) \/ PartFails(c, w)
      PROVE  UNCHANGED <<upload, event>>
  <2>1. CASE LoseLease(c) \/ Write(c) \/ Dispatch(c) \/ EndOfBody(c) \/ ReadFails(c)
    BY <2>1 DEF LoseLease, Write, Dispatch, EndOfBody, ReadFails
  <2>2. CASE Flush(c) \/ Drain(c) \/ Verify(c) \/ StopWorkers(c)
    BY <2>2 DEF Flush, Drain, Verify, StopWorkers
  <2>3. CASE \E w \in Workers : TakePart(c, w) \/ PartStored(c, w) \/ PartFails(c, w)
    BY <2>3 DEF TakePart, PartStored, PartFails
  <2> QED
    BY <1>4, <2>1, <2>2, <2>3
<1>5. ASSUME NEW c \in Claims, Begin(c) \/ CompleteUpload(c) \/ Release(c) \/ Abort(c)
      PROVE  /\ event' = event
             /\ upload' = upload \/ \E where \in {"open", "completed", "aborted"} : upload' = [upload EXCEPT ![c] = where]
  <2>1. CASE Begin(c)
    BY <2>1 DEF Begin
  <2>2. CASE CompleteUpload(c)
    BY <2>2 DEF CompleteUpload
  <2>3. CASE Release(c)
    BY <2>3 DEF Release
  <2>4. CASE Abort(c)
    BY <2>4 DEF Abort
  <2> QED
    BY <1>5, <2>1, <2>2, <2>3, <2>4
<1>6. ASSUME NEW c \in Claims, PublishAsset(c) \/ Settle(c)
      PROVE  upload' = upload /\ event' \in {event, "delivered", "failed", "attention"}
  <2>1. CASE PublishAsset(c)
    BY <2>1 DEF PublishAsset
  <2>2. CASE Settle(c)
    BY <2>2 DEF Settle
  <2> QED
    BY <1>6, <2>1, <2>2
<1>7. CASE \E c \in Claims : Begin(c) \/ CompleteUpload(c) \/ Release(c) \/ Abort(c)
  BY <1>1, <1>2, <1>5, <1>7
<1>8. CASE \E c \in Claims : PublishAsset(c) \/ Settle(c)
  BY <1>1, <1>6, <1>8
<1>9. CASE \E c \in Claims :
             \/ LoseLease(c) \/ Write(c) \/ Dispatch(c) \/ EndOfBody(c) \/ ReadFails(c)
             \/ Flush(c) \/ Drain(c) \/ Verify(c) \/ StopWorkers(c)
             \/ \E w \in Workers : TakePart(c, w) \/ PartStored(c, w) \/ PartFails(c, w)
  BY <1>1, <1>4, <1>9
<1>10. QED BY <1>3, <1>7, <1>8, <1>9 DEF StreamsNext

\* A stream that moves to where its parts are meant to be.
LEMMA PartsMove ==
    ASSUME StreamsInv, StreamsBounded, NEW c \in Claims, NEW next, Moves(c, next), PartsMeant(next)
    PROVE  \A d \in Claims : PartsMeant(copy'[d])
<1>1. copy' = [copy EXCEPT ![c] = next] /\ DOMAIN copy = Claims
  BY DEF Moves, StreamsInv, StreamsShape
<1>2. QED BY <1>1 DEF StreamsBounded

\* A stage follows another and no part moves.
LEMMA SameParts ==
    ASSUME StreamsInv, StreamsBounded, NEW c \in Claims, NEW next, Moves(c, next),
           next.written = copy[c].written, next.taken = copy[c].taken, next.sent = copy[c].sent,
           next.queue = copy[c].queue, next.busy = copy[c].busy, next.stored = copy[c].stored,
           next.pc \notin {"copying", "dispatching", "flushing"} \/ next.pc = copy[c].pc
              \/ (next.pc = "flushing" /\ copy[c].pc = "copying")
    PROVE  \A d \in Claims : PartsMeant(copy'[d])
<1>1. PartsMeant(next)
  BY DEF StreamsBounded, PartsMeant, HandedOver
<1>2. QED BY <1>1, PartsMove

LEMMA StageKeepsParts ==
    ASSUME StreamsInv, StreamsBounded, NEW c \in Claims, NEW pc, NEW result,
           \/ Gives(c, result) \/ Returns(c, result)
           \/ Goes(c, pc) /\ (pc \notin {"copying", "dispatching", "flushing"} \/ (pc = "flushing" /\ copy[c].pc = "copying"))
    PROVE  \A d \in Claims : PartsMeant(copy'[d])
<1>1. PICK s : s = copy[c]
  OBVIOUS
<1>2. s \in StreamCopy
  BY <1>1, StreamHere
<1>3. CASE Goes(c, pc) /\ (pc \notin {"copying", "dispatching", "flushing"} \/ (pc = "flushing" /\ copy[c].pc = "copying"))
  <2> DEFINE next == [s EXCEPT !.pc = pc]
  <2>1. Moves(c, next)
    BY <1>1, <1>3 DEF Goes
  <2>2. /\ next.written = s.written /\ next.taken = s.taken /\ next.sent = s.sent
        /\ next.queue = s.queue /\ next.busy = s.busy /\ next.stored = s.stored /\ next.pc = pc
    BY <1>2 DEF StreamCopy
  <2> HIDE DEF next
  <2>3. QED BY <1>1, <1>3, <2>1, <2>2, SameParts
<1>4. CASE Gives(c, result) \/ Returns(c, result)
  <2>1. PICK where \in {"aborting", "returned"} : Moves(c, [s EXCEPT !.pc = where, !.result = result])
    BY <1>1, <1>4 DEF Gives, Returns
  <2> DEFINE next == [s EXCEPT !.pc = where, !.result = result]
  <2>2. /\ next.written = s.written /\ next.taken = s.taken /\ next.sent = s.sent
        /\ next.queue = s.queue /\ next.busy = s.busy /\ next.stored = s.stored /\ next.pc = where
    BY <1>2 DEF StreamCopy
  <2>3. Moves(c, next)
    BY <2>1
  <2> HIDE DEF next
  <2>4. QED BY <1>1, <2>2, <2>3, SameParts
<1>5. QED BY <1>3, <1>4

LEMMA WriteKeepsParts ==
    ASSUME StreamsInv, StreamsBounded, NEW c \in Claims, Write(c)
    PROVE  \A d \in Claims : PartsMeant(copy'[d])
<1>1. PICK s : s = copy[c]
  OBVIOUS
<1>2. s \in StreamCopy /\ PartsMeant(s) /\ s.written = s.taken /\ s.pc = "copying"
  BY <1>1, StreamHere DEF StreamsBounded, Write
<1>3. CASE Gives(c, "retry") \/ Gives(c, "permanent")
  BY <1>3, StageKeepsParts
<1>4. CASE ~(Gives(c, "retry") \/ Gives(c, "permanent"))
  <2>1. Moves(c, IF Buffered(c) = PartSize THEN [s EXCEPT !.written = s.written + 1, !.pc = "dispatching"]
                                           ELSE [s EXCEPT !.written = s.written + 1, !.taken = s.taken + 1])
    <3>1. ~s.failed
      BY <1>1, <1>4 DEF Write
    <3>2. ~(s.written + 1 > MaxResultBytes)
      BY <1>1, <1>4, <3>1 DEF Write
    <3>3. QED BY <1>1, <3>1, <3>2, Zenon DEF Write
  <2>2. PICK written \in Nat, taken \in Nat : written = s.written + 1 /\ taken = s.taken + 1
    BY <1>2 DEF StreamCopy
  <2> DEFINE full == [s EXCEPT !.written = written, !.pc = "dispatching"]
             more == [s EXCEPT !.written = written, !.taken = taken]
  <2>3. HandedOver(s) \in Nat /\ PartSize \in Nat \ {0} /\ s.written \in Nat /\ s.taken \in Nat
    BY <1>2, HandedOverNatural DEF StreamCopy
  <2>4. CASE Buffered(c) = PartSize
    <3>1. s.taken = HandedOver(s) + PartSize
      BY <1>1, <2>3, <2>4 DEF Buffered, HandedOver
    <3>2. /\ full.written = written /\ full.taken = s.taken /\ full.sent = s.sent
          /\ full.queue = s.queue /\ full.busy = s.busy /\ full.stored = s.stored /\ full.pc = "dispatching"
      BY <1>2 DEF StreamCopy
    <3>3. Moves(c, full)
      BY <2>1, <2>2, <2>4
    <3> HIDE DEF full
    <3>4. HandedOver(full) = HandedOver(s)
      BY <3>2 DEF HandedOver
    <3>5. PartsMeant(full)
      BY <1>2, <2>2, <2>3, <3>1, <3>2, <3>4 DEF PartsMeant
    <3>6. QED BY <3>3, <3>5, PartsMove
  <2>5. CASE Buffered(c) # PartSize
    <3>1. /\ more.written = written /\ more.taken = taken /\ more.sent = s.sent
          /\ more.queue = s.queue /\ more.busy = s.busy /\ more.stored = s.stored /\ more.pc = "copying"
      BY <1>2 DEF StreamCopy
    <3>2. Moves(c, more)
      BY <2>1, <2>2, <2>5
    <3> HIDE DEF more
    <3>3. HandedOver(more) = HandedOver(s)
      BY <3>1 DEF HandedOver
    <3>4. PartsMeant(more)
      BY <1>2, <2>2, <2>3, <3>1, <3>3 DEF PartsMeant
    <3>5. QED BY <3>2, <3>4, PartsMove
  <2>6. QED BY <2>4, <2>5
<1>5. QED BY <1>3, <1>4

LEMMA DispatchKeepsParts ==
    ASSUME StreamsInv, StreamsBounded, NEW c \in Claims,
           NEW pc, Dispatched(c, pc), \/ pc = "copying" /\ copy[c].pc = "dispatching"
                                      \/ pc = "draining" /\ copy[c].pc = "flushing"
    PROVE  \A d \in Claims : PartsMeant(copy'[d])
<1>1. PICK s : s = copy[c]
  OBVIOUS
<1>2. s \in StreamCopy /\ PartsMeant(s)
  BY <1>1, StreamHere DEF StreamsBounded
<1>3. CASE Gives(c, "retry")
  BY <1>3, StageKeepsParts
<1>4. CASE ~Gives(c, "retry")
  <2>1. s.sent + 1 \in Nat /\ Append(s.queue, s.sent + 1) \in Seq(Nat) /\ s.sent \in Nat /\ s.queue \in Seq(Nat)
    BY <1>2 DEF StreamCopy
  <2>2. PICK n \in Nat, queue \in Seq(Nat) : n = s.sent + 1 /\ queue = Append(s.queue, n)
    BY <2>1
  <2> DEFINE next == [s EXCEPT !.sent = n, !.queue = queue, !.taken = s.written, !.pc = pc]
  <2>3. Moves(c, next) /\ Len(s.queue) < QueueSize
    BY <1>1, <1>4, <2>2 DEF Dispatched
  <2>4. /\ next.written = s.written /\ next.taken = s.written /\ next.sent = n
        /\ next.queue = queue /\ next.busy = s.busy /\ next.stored = s.stored /\ next.pc = pc
    BY <1>2 DEF StreamCopy
  <2> HIDE DEF next
  <2>5. HandedOver(next) = HandedOver(s) + PartSize /\ HandedOver(s) \in Nat /\ PartSize \in Nat \ {0} /\ QueueSize \in Nat \ {0}
        /\ s.written \in Nat /\ s.taken \in Nat
    BY <1>2, <2>2, <2>4, HandedOverNatural DEF HandedOver, StreamCopy
  <2>6. /\ next.taken <= next.written
        /\ HandedOver(next) <= next.taken + PartSize
        /\ next.pc \in {"copying", "flushing"} => HandedOver(next) <= next.taken
        /\ next.pc = "dispatching" => next.taken = HandedOver(next) + PartSize
    BY <1>1, <1>2, <2>4, <2>5 DEF PartsMeant
  <2>7. Len(queue) <= QueueSize /\ \A i \in 1..Len(queue) : queue[i] \in 1..n
    <3>1. Len(queue) = Len(s.queue) + 1 /\ queue[Len(queue)] = n /\ \A i \in 1..Len(s.queue) : queue[i] = s.queue[i]
      BY <2>1, <2>2, AppendProperties
    <3>2. \A i \in 1..Len(s.queue) : s.queue[i] \in 1..s.sent
      BY <1>2 DEF PartsMeant
    <3>3. Len(s.queue) \in Nat /\ Len(queue) <= QueueSize
      <4>1. Len(s.queue) \in Nat
        BY <2>1
      <4>2. QueueSize \in Nat /\ Len(s.queue) < QueueSize
        BY <2>3, <2>5
      <4> QED BY <3>1, <4>1, <4>2
    <3>4. ASSUME NEW i \in 1..Len(queue) PROVE queue[i] \in 1..n
      <4>1. CASE i = Len(queue)
        BY <2>1, <2>2, <3>1, <4>1
      <4>2. CASE i \in 1..Len(s.queue)
        <5>1. queue[i] = s.queue[i] /\ s.queue[i] \in 1..s.sent
          BY <3>1, <3>2, <4>2
        <5>2. 1..s.sent \subseteq 1..n
          BY <2>1, <2>2
        <5> QED BY <5>1, <5>2
      <4>3. i = Len(queue) \/ i \in 1..Len(s.queue)
        BY <3>1, <3>3
      <4> QED BY <4>1, <4>2, <4>3
    <3> QED BY <3>3, <3>4
  <2>8. (\A w \in Workers : s.busy[w] \in 0..n) /\ s.stored \subseteq 1..n
    BY <1>2, <2>1, <2>2 DEF PartsMeant
  <2>9. PartsMeant(next)
    BY <2>4, <2>6, <2>7, <2>8 DEF PartsMeant
  <2>10. QED BY <2>3, <2>9, PartsMove
<1>5. QED BY <1>3, <1>4

LEMMA WorkerKeepsParts ==
    ASSUME StreamsInv, StreamsBounded, NEW c \in Claims, NEW w \in Workers,
           TakePart(c, w) \/ PartStored(c, w) \/ PartFails(c, w)
    PROVE  \A d \in Claims : PartsMeant(copy'[d])
<1>1. PICK s : s = copy[c]
  OBVIOUS
<1>2. s \in StreamCopy /\ PartsMeant(s) /\ s.busy \in [Workers -> Nat] /\ s.queue \in Seq(Nat) /\ s.sent \in Nat
  BY <1>1, StreamHere DEF StreamsBounded, StreamCopy
<1>3. ASSUME NEW n \in 0..s.sent, NEW queue \in Seq(Nat), Len(queue) <= QueueSize, \A i \in 1..Len(queue) : queue[i] \in 1..s.sent,
             NEW stored \in SUBSET (1..s.sent), NEW next, Moves(c, next),
             next.written = s.written, next.taken = s.taken, next.sent = s.sent, next.pc = s.pc,
             next.queue = queue, next.stored = stored, next.busy = [s.busy EXCEPT ![w] = n]
      PROVE  \A d \in Claims : PartsMeant(copy'[d])
  <2>1. \A v \in Workers : next.busy[v] \in 0..s.sent
    BY <1>2, <1>3 DEF PartsMeant
  <2>2. HandedOver(next) = HandedOver(s)
    BY <1>3 DEF HandedOver
  <2>3. PartsMeant(next)
    BY <1>2, <1>3, <2>1, <2>2 DEF PartsMeant
  <2>4. QED BY <1>3, <2>3, PartsMove
<1>4. CASE TakePart(c, w)
  <2>1. s.queue # << >> /\ Moves(c, [Takes(c, w, Head(s.queue)) EXCEPT !.queue = Tail(s.queue)])
    BY <1>1, <1>4 DEF TakePart, Takes
  <2>2. /\ Head(s.queue) = s.queue[1] /\ Len(s.queue) \in Nat \ {0} /\ Tail(s.queue) \in Seq(Nat)
        /\ Len(Tail(s.queue)) = Len(s.queue) - 1 /\ \A i \in 1..Len(Tail(s.queue)) : Tail(s.queue)[i] = s.queue[i + 1]
    BY <1>2, <2>1, HeadTailProperties
  <2>3. Len(s.queue) <= QueueSize /\ (\A i \in 1..Len(s.queue) : s.queue[i] \in 1..s.sent) /\ s.stored \in SUBSET (1..s.sent)
    BY <1>2 DEF PartsMeant
  <2>4. QueueSize \in Nat
    BY StreamsAssumption
  <2>5. PICK n \in 0..s.sent, queue \in Seq(Nat) :
          /\ n = Head(s.queue) /\ queue = Tail(s.queue)
          /\ Len(queue) <= QueueSize /\ \A i \in 1..Len(queue) : queue[i] \in 1..s.sent
    <3>1. Head(s.queue) \in 0..s.sent
      BY <1>2, <2>2, <2>3
    <3>2. Len(Tail(s.queue)) <= QueueSize
      BY <2>2, <2>3, <2>4
    <3>3. \A i \in 1..Len(Tail(s.queue)) : Tail(s.queue)[i] \in 1..s.sent
      BY <2>2, <2>3
    <3>4. QED BY <2>2, <3>1, <3>2, <3>3
  <2> DEFINE next == [[s EXCEPT !.busy = [s.busy EXCEPT ![w] = n]] EXCEPT !.queue = queue]
  <2>6. Moves(c, next)
    BY <1>1, <2>1, <2>5 DEF Takes
  <2>7. /\ next.written = s.written /\ next.taken = s.taken /\ next.sent = s.sent /\ next.pc = s.pc
        /\ next.queue = queue /\ next.stored = s.stored /\ next.busy = [s.busy EXCEPT ![w] = n]
    BY <1>2 DEF StreamCopy
  <2> HIDE DEF next
  <2>8. QED BY <1>3, <2>3, <2>5, <2>6, <2>7
<1>5. Len(s.queue) <= QueueSize /\ (\A i \in 1..Len(s.queue) : s.queue[i] \in 1..s.sent) /\ s.stored \in SUBSET (1..s.sent)
      /\ s.busy[w] \in 0..s.sent /\ 0 \in 0..s.sent
  BY <1>2 DEF PartsMeant
<1>6. CASE PartStored(c, w)
  <2>1. Moves(c, [Takes(c, w, 0) EXCEPT !.stored = s.stored \cup {s.busy[w]}]) /\ s.busy[w] # 0
    BY <1>1, <1>6 DEF PartStored, Takes
  <2>2. PICK stored \in SUBSET (1..s.sent) : stored = s.stored \cup {s.busy[w]}
    <3>1. s.busy[w] \in 1..s.sent
      BY <1>2, <1>5, <2>1
    <3>2. s.stored \cup {s.busy[w]} \in SUBSET (1..s.sent)
      BY <1>5, <3>1
    <3>3. QED BY <3>2
  <2> DEFINE next == [[s EXCEPT !.busy = [s.busy EXCEPT ![w] = 0]] EXCEPT !.stored = stored]
  <2>3. Moves(c, next)
    BY <1>1, <2>1, <2>2 DEF Takes
  <2>4. /\ next.written = s.written /\ next.taken = s.taken /\ next.sent = s.sent /\ next.pc = s.pc
        /\ next.queue = s.queue /\ next.stored = stored /\ next.busy = [s.busy EXCEPT ![w] = 0]
    BY <1>2 DEF StreamCopy
  <2> HIDE DEF next
  <2>5. QED BY <1>2, <1>3, <1>5, <2>2, <2>3, <2>4
<1>7. CASE PartFails(c, w)
  <2> DEFINE next == [[s EXCEPT !.busy = [s.busy EXCEPT ![w] = 0]] EXCEPT !.dead = s.dead \cup {w}, !.failed = TRUE, !.cancelled = TRUE]
  <2>1. Moves(c, next)
    BY <1>1, <1>7 DEF PartFails, Takes
  <2>2. /\ next.written = s.written /\ next.taken = s.taken /\ next.sent = s.sent /\ next.pc = s.pc
        /\ next.queue = s.queue /\ next.stored = s.stored /\ next.busy = [s.busy EXCEPT ![w] = 0]
    BY <1>2 DEF StreamCopy
  <2> HIDE DEF next
  <2>3. QED BY <1>2, <1>3, <1>5, <2>1, <2>2
<1>8. QED BY <1>4, <1>6, <1>7

LEMMA BeginKeepsParts ==
    ASSUME StreamsInv, StreamsBounded, NEW c \in Claims, Begin(c)
    PROVE  \A d \in Claims : PartsMeant(copy'[d])
<1>1. PICK r \in Responses :
          \/ Moves(c, Opened(r))
          \/ Returns(c, "retry")
          \/ Returns(c, FetchFailure(r))
  BY DEF Begin
<1>2. CASE Returns(c, "retry") \/ Returns(c, FetchFailure(r))
  BY <1>2, StageKeepsParts
<1>3. CASE Moves(c, Opened(r))
  <2> DEFINE next == Opened(r)
  <2>1. /\ next.written = 0 /\ next.taken = 0 /\ next.sent = 0 /\ next.pc = "copying"
        /\ next.queue = << >> /\ next.stored = {} /\ next.busy = [w \in Workers |-> 0]
    BY DEF Opened, NotStarted
  <2> HIDE DEF next
  <2>2. PartSize \in Nat /\ QueueSize \in Nat /\ 0 * PartSize = 0
    BY StreamsAssumption
  <2>3. PartsMeant(next)
    BY <2>1, <2>2 DEF PartsMeant, HandedOver
  <2>4. QED BY <1>3, <2>3, PartsMove DEF next
<1>4. QED BY <1>1, <1>2, <1>3

LEMMA StreamsBoundedStep == StreamsInv /\ StreamsBounded /\ [StreamsNext]_streamVars => StreamsBounded'
<1> SUFFICES ASSUME StreamsInv, StreamsBounded, [StreamsNext]_streamVars PROVE StreamsBounded'
  OBVIOUS
<1>1. ASSUME copy' = copy PROVE \A d \in Claims : PartsMeant(copy'[d])
  BY <1>1 DEF StreamsBounded
<1>2. ASSUME NEW c \in Claims, Begin(c) PROVE \A d \in Claims : PartsMeant(copy'[d])
  BY <1>2, BeginKeepsParts
<1>3. ASSUME NEW c \in Claims, LoseLease(c) PROVE \A d \in Claims : PartsMeant(copy'[d])
  <2>1. PICK s : s = copy[c]
    OBVIOUS
  <2>2. s \in StreamCopy
    BY <2>1, StreamHere
  <2> DEFINE next == [s EXCEPT !.lost = TRUE, !.cancelled = TRUE]
  <2>3. Moves(c, next)
    BY <1>3, <2>1 DEF LoseLease
  <2>4. /\ next.written = s.written /\ next.taken = s.taken /\ next.sent = s.sent
        /\ next.queue = s.queue /\ next.busy = s.busy /\ next.stored = s.stored /\ next.pc = s.pc
    BY <2>2 DEF StreamCopy
  <2> HIDE DEF next
  <2>5. QED BY <2>1, <2>3, <2>4, SameParts
<1>4. ASSUME NEW c \in Claims, Write(c) PROVE \A d \in Claims : PartsMeant(copy'[d])
  BY <1>4, WriteKeepsParts
<1>5. ASSUME NEW c \in Claims, Dispatch(c) \/ Flush(c) PROVE \A d \in Claims : PartsMeant(copy'[d])
  BY <1>5, DispatchKeepsParts, StageKeepsParts DEF Dispatch, Flush
<1>6. ASSUME NEW c \in Claims, EndOfBody(c) \/ ReadFails(c) \/ Drain(c) PROVE \A d \in Claims : PartsMeant(copy'[d])
  BY <1>6, StageKeepsParts DEF EndOfBody, ReadFails, Drain
<1>7. ASSUME NEW c \in Claims, CompleteUpload(c) \/ Release(c) \/ Verify(c) \/ Abort(c) \/ PublishAsset(c)
      PROVE  \A d \in Claims : PartsMeant(copy'[d])
  <2>1. \/ \E result : Gives(c, result) \/ Returns(c, result)
        \/ \E pc \in {"verifying", "releasing", "committed", "returned"} : Goes(c, pc)
    BY <1>7 DEF CompleteUpload, Release, Verify, Abort, PublishAsset
  <2>2. QED BY <2>1, StageKeepsParts
<1>8. ASSUME NEW c \in Claims, StopWorkers(c) PROVE \A d \in Claims : PartsMeant(copy'[d])
  <2>1. PICK s : s = copy[c]
    OBVIOUS
  <2>2. s \in StreamCopy
    BY <2>1, StreamHere
  <2> DEFINE next == [s EXCEPT !.cancelled = TRUE, !.pc = "stopping"]
  <2>3. Moves(c, next)
    BY <1>8, <2>1 DEF StopWorkers
  <2>4. /\ next.written = s.written /\ next.taken = s.taken /\ next.sent = s.sent
        /\ next.queue = s.queue /\ next.busy = s.busy /\ next.stored = s.stored /\ next.pc = "stopping"
    BY <2>2 DEF StreamCopy
  <2> HIDE DEF next
  <2>5. QED BY <2>1, <2>3, <2>4, SameParts
<1>9. ASSUME NEW c \in Claims, NEW w \in Workers, TakePart(c, w) \/ PartStored(c, w) \/ PartFails(c, w)
      PROVE  \A d \in Claims : PartsMeant(copy'[d])
  BY <1>9, WorkerKeepsParts
<1>10. \A d \in Claims : PartsMeant(copy'[d])
  BY <1>1, <1>2, <1>3, <1>4, <1>5, <1>6, <1>7, <1>8, <1>9
     DEF StreamsNext, streamVars, Settle, AuditPage, AuditCompare
<1>11. QED BY <1>10, StoreBounded DEF StreamsBounded

LEMMA StreamsBoundedStart == StreamsInit => StreamsBounded
<1> SUFFICES ASSUME StreamsInit PROVE StreamsBounded
  OBVIOUS
<1>1. PartSize \in Nat /\ QueueSize \in Nat /\ 0 * PartSize = 0
  BY StreamsAssumption
<1>2. PartsMeant(NotStarted)
  <2> DEFINE next == NotStarted
  <2>1. /\ next.written = 0 /\ next.taken = 0 /\ next.sent = 0 /\ next.pc = "idle"
        /\ next.queue = << >> /\ next.stored = {} /\ next.busy = [w \in Workers |-> 0]
    BY DEF NotStarted
  <2> HIDE DEF next
  <2>2. PartsMeant(next)
    BY <1>1, <2>1 DEF PartsMeant, HandedOver
  <2>3. QED BY <2>2 DEF next
<1>3. QED BY <1>2 DEF StreamsInit, StreamsBounded

\* No more is handed over of a stream than was read, no more waits than there is
\* room for, and only parts that were handed over are stored.
THEOREM StreamsTyped == StreamsSpec => []StreamsTypeOK
<1>1. StreamsInv /\ StreamsBounded => StreamsTypeOK
  <2> SUFFICES ASSUME StreamsInv, StreamsBounded PROVE StreamsTypeOK
    OBVIOUS
  <2>1. ASSUME NEW c \in Claims
        PROVE  /\ copy[c].written \in 0..MaxResultBytes
               /\ copy[c].taken \in 0..copy[c].written
               /\ copy[c].sent * PartSize <= copy[c].taken + PartSize
               /\ Len(copy[c].queue) <= QueueSize
               /\ copy[c].stored \subseteq 1..copy[c].sent
    <3>1. copy[c].written \in Nat /\ copy[c].taken \in Nat /\ copy[c].written <= MaxResultBytes /\ MaxResultBytes \in Nat
      BY StreamHere, StreamsAssumption DEF StreamCopy, StreamMeant
    <3>2. PartsMeant(copy[c])
      BY DEF StreamsBounded
    <3>3. QED BY <3>1, <3>2 DEF PartsMeant, HandedOver
  <2>2. DOMAIN object = Range(StepKeys)
    BY DEF StreamsInv, StreamsShape
  <2>3. QED BY <2>1, <2>2 DEF StreamsBounded, StreamsTypeOK
<1>2. QED BY <1>1, StreamsBoundedStart, StreamsBoundedStep, StreamsInvariant, PTL DEF StreamsSpec
-----------------------------------------------------------------------------

\* ConsoleTypeOK: the components the operators work with, whatever each of them
\* does while the others move, keep the shapes their operations rely on.
THEOREM ConsoleTyped ==
    ASSUME FirstRole \in [People -> Roles]
    PROVE  ConsoleSpec => []ConsoleTypeOK
<1>1. ConsoleSpec => /\ ReviewsSpec /\ DeskSpec /\ CatalogSpec /\ StreamsSpec /\ RetentionSpec /\ JobIndexSpec
                     /\ AppsSpec /\ MarketingSpec /\ PricingSpec /\ ImagesSpec /\ AnalyticsSpec
  BY DEF ConsoleSpec, StoresSpec, StorefrontSpec, ReportsSpec
<1>2. AppsSpec => []AppsTypeOK
  BY ApplicationsStaySafe
<1>3. ConsoleSpec => /\ []ReviewsTypeOK /\ []DeskTypeOK /\ []CatalogTypeOK /\ []StreamsTypeOK /\ []RetentionTypeOK
                     /\ []JobIndexTypeOK /\ []AppsTypeOK /\ []MarketingTypeOK /\ []PricingTypeOK
                     /\ []ImagesTypeOK /\ []AnalyticsTypeOK
  BY <1>1, <1>2, ReviewsTyped, DeskTyped, CatalogTypesHold, StreamsTyped, RetentionTyped, JobIndexTyped,
     MarketingTyped, PricingTyped, ImagesTyped, AnalyticsTyped
<1>4. QED BY <1>3, PTL DEF ConsoleTypeOK
=============================================================================
