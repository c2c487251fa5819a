------------------------------- MODULE Feeds --------------------------------
(***************************************************************************)
(* What one user reads about himself: his works and his wallet's ledger    *)
(* page by page, newest first, while generations settle; his notices, the  *)
(* feedback they answer, and the three switches that say how he wants to   *)
(* be told.  Every write is one document or one transaction; the user's    *)
(* tabs, the operators and the workers interleave.                         *)
(***************************************************************************)
EXTENDS Sorting, SequencesExt

CONSTANTS
    Ids,            \* identifiers of works and ledger entries: a set of numbers
    Times,          \* instants, to the millisecond the store keeps
    WorkKinds,      \* kinds of work explored, of {"image", "video"}
    Listings,       \* which list is read: a subset of {"works", "ledger"}
    Limits,         \* page sizes asked for
    Feedbacks,      \* identifiers of feedback
    Submissions,    \* what users send as feedback
    Responses,      \* what operators answer
    Tabs,           \* tabs with the settings page open
    Switches,       \* notification switches explored
    MaxLater,       \* bound on the entries committed once paging has begun
    MaxSettled,     \* bound on the settlements and reviews
    MaxChoices      \* bound on the switches flipped

ASSUME FeedsAssumption ==
    /\ Ids \subseteq Int /\ Times \subseteq Int /\ Limits \subseteq Nat \ {0}
    /\ Listings \subseteq {"works", "ledger"}
    /\ "none" \notin Responses /\ "pending" \notin Responses
    /\ Switches # {}

VARIABLES
    listing,        \* the list this user reads
    listed,         \* its committed documents
    reader,         \* a client reading page after page
    feedback,       \* the feedback documents
    notices,        \* the notices of the user: id -> is it read?
    deleted,        \* history: notices the user has removed
    account,        \* the user's account: "active" or "deleted"
    preferences,    \* the stored switches, or NoneStored
    tab,            \* what each tab shows and the save it has in flight
    wanted,         \* history: the value the user last gave each switch
    crossed,        \* history: has a flip ever met a save under way, or a tab out of date?
    count           \* bounds: entries committed late and settled, switches flipped

feedsVars == <<listing, listed, reader, feedback, notices, deleted, account, preferences, tab, wanted, crossed, count>>
feedbackVars == <<feedback, notices, deleted, account>>
switchVars == <<preferences, tab, wanted, crossed>>
-----------------------------------------------------------------------------
Nothing == [id |-> 0]
NoneStored == << >>
DefaultPreferences == [k \in Switches |-> TRUE]

\* An entry as its reader sees it: only a work that succeeded has an address,
\* that of its last step's asset, and only one that ended badly an excuse.
toWork(e) ==
    [id |-> e.id, status |-> e.status,
     url |-> e.status = "succeeded" /\ e.asset,
     error |-> e.status \in {"failed", "confiscated"}]

\* A succeeded work without an asset is an inconsistency: the page is refused.
Inconsistent(e) == listing = "works" /\ e.status = "succeeded" /\ ~e.asset

FeedsTypeOK ==
    /\ listing \in Listings
    /\ \A e \in listed : e.id \in Ids /\ e.at \in Times /\ e.kind \in WorkKinds
    /\ \A e \in listed : e.status \in {"pending", "succeeded", "failed", "confiscated"}
    /\ \A e, f \in listed : e.id = f.id => e = f
    /\ DOMAIN notices \subseteq Feedbacks
    /\ feedback \in [Feedbacks -> {"none", "pending"} \cup Responses]
    /\ preferences \in [Switches -> BOOLEAN] \cup {NoneStored}
-----------------------------------------------------------------------------
FeedsInit ==
    /\ listing \in Listings
    /\ listed = {}
    /\ reader = [phase |-> "new"]
    /\ feedback = [f \in Feedbacks |-> "none"]
    /\ notices = << >> /\ deleted = {} /\ account = "active"
    /\ preferences = NoneStored
    /\ tab = [t \in Tabs |-> [shown |-> NoneStored, sending |-> << >>]]
    /\ wanted = DefaultPreferences /\ crossed = FALSE
    /\ count = [later |-> 0, settled |-> 0, choices |-> 0]
-----------------------------------------------------------------------------
\* The lists.  A creation or a ledger entry is committed by its own component;
\* its time was read before the commit, so it need not be the newest.
CommitEntry(i, at, kind) ==
    /\ \A e \in listed : e.id # i
    /\ reader.phase # "new" => count.later < MaxLater
    /\ listed' = listed \cup {[id |-> i, at |-> at, kind |-> kind, status |-> "pending", asset |-> FALSE]}
    /\ count' = [count EXCEPT !.later = @ + (IF reader.phase = "new" THEN 0 ELSE 1)]
    /\ UNCHANGED <<listing, reader, feedbackVars, switchVars>>

\* Settlement publishes the result's asset and the success in one transaction;
\* a review may take a published work away.
Endings == {<<"pending", "succeeded">>, <<"pending", "failed">>, <<"succeeded", "confiscated">>}
Settle(e) ==
    /\ listing = "works" /\ count.settled < MaxSettled
    /\ count' = [count EXCEPT !.settled = @ + 1]
    /\ \E end \in Endings :
          /\ e.status = end[1]
          /\ listed' = (listed \ {e}) \cup {[e EXCEPT !.status = end[2], !.asset = (end[2] # "failed")]}
    /\ UNCHANGED <<listing, reader, feedbackVars, switchVars>>

Newer(e, f) == e.at > f.at \/ (e.at = f.at /\ e.id > f.id)

\* Mistaken variant: the cursor compares times alone.
AfterInstant(e, c) == e.at < c.at

After(e, c) == Newer(c, e)

NewestFirst == {p \in listed \X listed : Newer(p[1], p[2])}

\* The documents a query finds, newest first; a cursor makes its skip zero.
Found(q) ==
    LET fits == {e \in listed : q.kind \in {"all", e.kind} /\ (q.cursor # Nothing => After(e, q.cursor))}
        sorted == Sorted(fits, NewestFirst)
        skip == IF q.cursor = Nothing THEN q.skip ELSE 0
    IN  SubSeq(sorted, skip + 1, Len(sorted))

\* Works are asked for one more than the page to know whether there are more;
\* the ledger says there are whenever its page is full.
PageOf(q) == Leading(Found(q), q.limit)
More(q) == IF listing = "works" THEN Len(Found(q)) > q.limit ELSE Len(Found(q)) >= q.limit

\* A client opens the list.  Only the ledger's client may count instead of
\* following the cursor, and only the works are filtered by kind.
OpenList(kind, limit, by) ==
    /\ reader.phase = "new"
    /\ listing = "ledger" => kind = "all"
    /\ listing = "works" => by = "cursor"
    /\ reader' = [phase |-> "reading", by |-> by, told |-> << >>,
                  known |-> {e.id : e \in {x \in listed : kind \in {"all", x.kind}}},
                  query |-> [kind |-> kind, limit |-> limit, skip |-> 0, cursor |-> Nothing]]
    /\ UNCHANGED <<listing, listed, feedbackVars, switchVars, count>>

List ==
    /\ reader.phase = "reading"
    /\ LET q == reader.query
           page == PageOf(q)
           next == IF reader.by = "cursor"
                   THEN [q EXCEPT !.cursor = [at |-> page[Len(page)].at, id |-> page[Len(page)].id]]
                   ELSE [q EXCEPT !.skip = @ + Len(page)]
       IN  /\ \A n \in DOMAIN page : ~Inconsistent(page[n])
           /\ reader' = [reader EXCEPT !.told = @ \o [n \in DOMAIN page |-> toWork(page[n])],
                                       !.phase = IF More(q) THEN "reading" ELSE "done",
                                       !.query = IF More(q) THEN next ELSE q]
    /\ UNCHANGED <<listing, listed, feedbackVars, switchVars, count>>
-----------------------------------------------------------------------------
\* Feedback.  Its attachments are the sender's own, each named once; the
\* address under which one is stored is the server's, never the sender's.
AcceptableFeedback(m) == m.type # "unknown" /\ m.text # "short" /\ m.attachments \in {"none", "own"}

SubmitFeedback(f, m) ==
    /\ feedback[f] = "none" /\ account = "active"
    /\ AcceptableFeedback(m)
    /\ feedback' = [feedback EXCEPT ![f] = "pending"]
    /\ UNCHANGED <<listing, listed, reader, notices, deleted, account, switchVars, count>>

Respondable(f, response) == feedback[f] = "pending"

\* One transaction: the feedback is resolved and its user told under an
\* identifier made of the feedback's, so a second insertion is refused.  A
\* repeated answer is accepted and changes nothing; another one conflicts.
Respond(f, response) ==
    /\ Respondable(f, response) /\ account # "deleted"
    /\ f \notin DOMAIN notices
    /\ feedback' = [feedback EXCEPT ![f] = response]
    /\ notices' = [n \in DOMAIN notices \cup {f} |-> IF n = f THEN FALSE ELSE notices[n]]
    /\ UNCHANGED <<listing, listed, reader, deleted, account, switchVars, count>>

CloseAccount ==
    /\ account = "active" /\ account' = "deleted"
    /\ UNCHANGED <<listing, listed, reader, feedback, notices, deleted, switchVars, count>>

\* Marking is idempotent and asks nothing of the identifier but its owner.
MarkRead(ids) ==
    /\ ids # {} /\ ids \subseteq DOMAIN notices
    /\ \E f \in ids : ~notices[f]
    /\ notices' = [f \in DOMAIN notices |-> notices[f] \/ f \in ids]
    /\ UNCHANGED <<listing, listed, reader, feedback, deleted, account, switchVars, count>>
MarkOne(f) == MarkRead({f})
MarkAllRead == MarkRead({f \in DOMAIN notices : ~notices[f]})

Discard(ids) ==
    /\ ids # {}
    /\ notices' = [f \in DOMAIN notices \ ids |-> notices[f]]
    /\ deleted' = deleted \cup ids
    /\ UNCHANGED <<listing, listed, reader, feedback, account, switchVars, count>>
Delete(f) == f \in DOMAIN notices /\ Discard({f})

\* Clearing the list leaves what has not been read.
DeleteRead == Discard({f \in DOMAIN notices : notices[f]})
-----------------------------------------------------------------------------
\* The switches.  A tab shows what is stored, or the defaults before anything
\* is; a flip sends the whole of what the tab shows, and saves of one tab may
\* overtake each other on the way.
StoredSwitches == IF preferences = NoneStored THEN DefaultPreferences ELSE preferences

GetPreferences(t) ==
    /\ tab[t].shown = NoneStored
    /\ tab' = [tab EXCEPT ![t].shown = StoredSwitches]
    /\ UNCHANGED <<listing, listed, reader, feedbackVars, preferences, wanted, crossed, count>>

Flip(t, k) ==
    /\ tab[t].shown # NoneStored /\ count.choices < MaxChoices
    /\ LET now == [tab[t].shown EXCEPT ![k] = ~@]
       IN  /\ tab' = [tab EXCEPT ![t] = [shown |-> now, sending |-> Append(@.sending, now)]]
           /\ wanted' = [wanted EXCEPT ![k] = now[k]]
    /\ crossed' = (crossed \/ tab[t].shown # StoredSwitches \/ \E u \in Tabs : tab[u].sending # << >>)
    /\ count' = [count EXCEPT !.choices = @ + 1]
    /\ UNCHANGED <<listing, listed, reader, feedbackVars, preferences>>

SavePreferences(t, n) ==
    /\ n \in DOMAIN tab[t].sending
    /\ preferences' = tab[t].sending[n]
    /\ tab' = [tab EXCEPT ![t].sending = RemoveAt(@, n)]
    /\ UNCHANGED <<listing, listed, reader, feedbackVars, wanted, crossed, count>>
-----------------------------------------------------------------------------
FeedsNext ==
    \/ \E i \in Ids, at \in Times, kind \in WorkKinds : CommitEntry(i, at, kind)
    \/ \E e \in listed : Settle(e)
    \/ \E kind \in WorkKinds \cup {"all"}, limit \in Limits, by \in {"cursor", "skip"} : OpenList(kind, limit, by)
    \/ List
    \/ \E f \in Feedbacks, m \in Submissions : SubmitFeedback(f, m)
    \/ \E f \in Feedbacks, r \in Responses : Respond(f, r)
    \/ CloseAccount
    \/ \E f \in Feedbacks : MarkOne(f) \/ Delete(f)
    \/ MarkAllRead \/ DeleteRead
    \/ \E t \in Tabs : GetPreferences(t)
    \/ \E t \in Tabs, k \in Switches : Flip(t, k)
    \/ \E t \in Tabs : \E n \in DOMAIN tab[t].sending : SavePreferences(t, n)

FeedsSpec == FeedsInit /\ [][FeedsNext]_feedsVars
-----------------------------------------------------------------------------
(***************************************************************************)
(* However entries are committed and settled between the pages, a client   *)
(* that follows the cursor to its end is told of every entry there was     *)
(* when it began, once and newest first; one that counts may be told twice *)
(* but misses nothing.  (List of the works and wallet repositories.)       *)
(***************************************************************************)
EntryOf(i) == CHOOSE e \in listed : e.id = i
ToldIds(r) == {r.told[n].id : n \in DOMAIN r.told}
PagesTellAll ==
    /\ reader.phase = "done" => reader.known \subseteq ToldIds(reader)
    /\ reader.phase # "new" /\ reader.by = "cursor" =>
          \A m, n \in DOMAIN reader.told : m < n => Newer(EntryOf(reader.told[m].id), EntryOf(reader.told[n].id))

(***************************************************************************)
(* Whatever operators repeat and the user clears, feedback once answered   *)
(* has its notice, which stays until the user removes it and then never    *)
(* comes back.  (Respond of admin_feedback.go, Delete and DeleteRead.)     *)
(***************************************************************************)
AnswerToldOnce ==
    /\ \A f \in Feedbacks : feedback[f] \in Responses <=> f \in DOMAIN notices \cup deleted
    /\ DOMAIN notices \cap deleted = {}

(***************************************************************************)
(* A switch keeps the value the user last gave it, whichever tab he uses   *)
(* and whatever he changes next to it, unless a flip crossed a save on its *)
(* way or came from a tab that was out of date.  (SavePreferences stores   *)
(* whole snapshots.)                                                       *)
(***************************************************************************)
SwitchesStand ==
    ~crossed /\ (\A t \in Tabs : tab[t].sending = << >>) => StoredSwitches = wanted

(***************************************************************************)
(* What a user is told, of his generations and of himself.                 *)
(***************************************************************************)
FeedsSafe == PagesTellAll /\ AnswerToldOnce /\ SwitchesStand
=============================================================================
