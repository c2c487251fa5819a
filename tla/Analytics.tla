----------------------------- MODULE Analytics ------------------------------
(***************************************************************************)
(* The analytics pages of the administration.  A request is answered from  *)
(* reports Google Analytics produces: some pages need one, some several in *)
(* parallel or one after another, and a summary is made of parts that fail *)
(* separately.  All reports share one access token, kept until shortly     *)
(* before it expires and fetched again by one report at a time.            *)
(***************************************************************************)
EXTENDS Integers, FiniteSets, Sequences

CONSTANTS
    Worlds,         \* how the client may be configured, and what Google may answer at first
    ReportQueries,  \* the requests: page, start and end day (0: not given), days, sources
    DefaultSpan,    \* days before today a range starts when no start is given
    DefaultDays,
    FirstDay,       \* the day the behaviour begins, at which no range reaches day 0
    MaxDays,        \* days a comparison covers at most
    MaxTokens,      \* bound on the tokens issued
    MaxRequests,    \* bound on the requests explored
    MaxDisturbances, \* bound on the changes between steps explored: tokens' expiries, midnights
                    \* and what Google accepts
    InFlight        \* bound on the parts explored in flight at one time

\* The pages there are, and what a request of one may name.
Pages ==
    {"status", "custom", "realtime", "overview", "traffic", "pages", "demographics", "devices", "events", "daily",
     "funnel", "retention", "agents", "search", "insights", "summary", "conversion", "installs", "active",
     "platforms", "pwa/summary", "paywall"}
ReportQuery == [page : Pages, start : Int, end : Int, days : Int, sources : BOOLEAN]

\* The client, what Google accepts, and whether its tokens live longer than a minute.
World ==
    [client : {"ready", "absent", "broken"}, credential : BOOLEAN, up : BOOLEAN, dimension : BOOLEAN,
     lifetime : BOOLEAN, refused : SUBSET Nat]

\* The behaviour begins on a day a default range can be counted back from.
ASSUME AnalyticsAssumption ==
    /\ Worlds \subseteq World /\ ReportQueries \subseteq ReportQuery
    /\ {DefaultSpan, DefaultDays, FirstDay, MaxDays} \subseteq Nat /\ DefaultSpan < FirstDay

VARIABLES
    query,          \* the request under way
    answer,         \* what its operator was answered
    parts,          \* the parts of the answer, by name, that have begun
    calls,          \* the reports of the parts, by part and name
    cached,         \* the token the client keeps, and whether it takes it for fresh
    refresher,      \* the report that holds the refresh lock
    today,
    google,         \* what Google accepts
    count           \* tokens issued, found expired and refused so far; bounds: requests, changes

analyticsVars == <<query, answer, parts, calls, cached, refresher, today, google, count>>
-----------------------------------------------------------------------------
\* The reports a part runs: stages one after another, the reports of one in parallel.
Single(p) == <<<<p>>>>
Devices == <<<<"byDevice", "byBrowser", "byOS">>>>
Insights == <<<<"pages">>, <<"sources">>, <<"retention">>>>
PwaInstalls == <<<<"installed">>, <<"funnel">>>>
PwaLaunches == <<<<"launched", "standalone">>>>
Conversion(q) ==
    <<<<"current", "previous">>>> \o (IF q.sources THEN <<<<"current", "previous">>>> ELSE << >>)

Stages(p, q) ==
    CASE p = "devices" -> Devices
      [] p = "insights" -> Insights
      [] p = "installs" -> PwaInstalls
      [] p \in {"active", "platforms"} -> PwaLaunches
      [] p = "conversion" -> Conversion(q)
      [] OTHER -> Single(p)

SummaryParts == <<"overview", "traffic", "pages", "demographics", "devices", "events", "funnel",
                  "retention", "realtime", "agents">>
PwaParts == <<"installs", "active", "platforms", "engagement">>

\* The parts of a page, in the order their errors are looked at.
Parts(q) ==
    CASE q.page = "summary" -> SummaryParts
      [] q.page = "pwa/summary" -> PwaParts
      [] OTHER -> <<q.page>>
IsSummary(q) == q.page \in {"summary", "pwa/summary"}

\* These reports name a dimension the property may not have.
WithCustomDimension == {"paywall", "engagement"}
-----------------------------------------------------------------------------
DateRange(q, now) ==
    [start |-> IF q.start = 0 THEN now - DefaultSpan ELSE q.start,
     end |-> IF q.end = 0 THEN now ELSE q.end]

\* A comparison sets the last days before its end against as many days before them.
ComparedDays(q) ==
    CASE q.days = 0 -> DefaultDays
      [] q.days < 0 -> 1
      [] OTHER -> IF q.days > MaxDays THEN MaxDays ELSE q.days
Compared(q, now, report) ==
    LET n == ComparedDays(q)
        end == IF q.end = 0 THEN now ELSE q.end
    IN IF report = "current" THEN [start |-> end - (n - 1), end |-> end]
       ELSE [start |-> end - (2 * n - 1), end |-> end - n]

\* A summary computes its dates once; the parts of the page of installs compute their own.
RangeOnce(q, now) ==
    IF q.page = "summary" THEN [q EXCEPT !.start = DateRange(q, now).start, !.end = DateRange(q, now).end] ELSE q
-----------------------------------------------------------------------------
NoQuery == [page |-> "none", start |-> 0, end |-> 0, days |-> 0, sources |-> FALSE]
NothingAnswered == [code |-> "none", shown |-> {}]
NoToken == 0
NoReport == <<"none", "none">>

AnalyticsInit ==
    /\ query = NoQuery /\ answer = NothingAnswered
    /\ parts = << >> /\ calls = << >>
    /\ cached = [token |-> NoToken, fresh |-> FALSE] /\ refresher = NoReport
    /\ today = FirstDay
    /\ google \in Worlds
    /\ count = [issued |-> 0, expired |-> 0, refused |-> 0, requests |-> 0, changes |-> 0]

\* No client is built from an incomplete credential, a key that does not parse or a bad address.
Unavailable ==
    CASE google.client = "absent" -> "GA4_NOT_CONFIGURED"
      [] google.client = "broken" -> "GA4_CLIENT_UNAVAILABLE"
      [] OTHER -> "none"

\* A request of a page: the page of the status needs no client, the others do.
AskReport(q) ==
    /\ query = NoQuery
    /\ count.requests < MaxRequests
    /\ count' = [count EXCEPT !.requests = @ + 1]
    /\ IF q.page # "status" /\ Unavailable # "none"
       THEN answer' = [code |-> Unavailable, shown |-> {}] /\ UNCHANGED query
       ELSE CASE q.page = "status" ->
                     answer' = [code |-> IF google.client = "absent" THEN "unconfigured" ELSE "configured",
                                shown |-> {}] /\ UNCHANGED query
              [] q.page = "custom" /\ q.days = 0 ->  \* no dimensions or metrics named
                     answer' = [code |-> "GA4_INVALID_QUERY", shown |-> {}] /\ UNCHANGED query
              [] OTHER -> query' = RangeOnce(q, today) /\ answer' = NothingAnswered
    /\ UNCHANGED <<parts, calls, cached, refresher, today, google>>
-----------------------------------------------------------------------------
Outcomes == {"ok", "rejected", "upstream", "invalid", "dimension"}
InStage(p) == {c \in DOMAIN calls : c[1] = p}

NewCall(p, report) ==
    [phase |-> "token", token |-> NoToken, forced |-> FALSE, outcome |-> "ok",
     window |-> IF p = "conversion" THEN Compared(query, parts'[p].now, report)
                ELSE DateRange(query, parts'[p].now)]

\* The calls of a stage of a part, those of its earlier stages gone.
StageCalls(p, reports) ==
    [c \in {c \in DOMAIN calls : c[1] # p} \cup {<<p, reports[i]>> : i \in 1..Len(reports)} |->
        IF c[1] = p THEN NewCall(p, c[2]) ELSE calls[c]]

BeginPart(p) ==
    /\ Cardinality({x \in DOMAIN parts : parts[x].outcome = "running"}) < InFlight
    /\ parts' = [x \in DOMAIN parts \cup {p} |->
                    IF x = p THEN [stage |-> 1, degraded |-> FALSE, outcome |-> "running", now |-> today]
                    ELSE parts[x]]
    /\ calls' = StageCalls(p, Stages(p, query)[1])
    /\ UNCHANGED <<query, answer, cached, refresher, today, google, count>>

\* The parts begin together; explored in their order, as parts in flight become fewer.
BeginNext ==
    \E i \in 1..Len(Parts(query)) :
        /\ Parts(query)[i] \notin DOMAIN parts
        /\ \A j \in 1..(i - 1) : Parts(query)[j] \in DOMAIN parts
        /\ query # NoQuery
        /\ BeginPart(Parts(query)[i])

PartsDone == \A i \in 1..Len(Parts(query)) :
    Parts(query)[i] \in DOMAIN parts /\ parts[Parts(query)[i]].outcome # "running"

\* The insights of a summary are read after its parts.
BeginInsights ==
    /\ query.page = "summary" /\ PartsDone
    /\ "insights" \notin DOMAIN parts
    /\ BeginPart("insights")
-----------------------------------------------------------------------------
\* accessToken: a fresh token is taken as it is, else the report queues for the refresh.
TakeToken(c) ==
    /\ calls[c].phase = "token"
    /\ calls' = [calls EXCEPT ![c].phase = IF cached.fresh THEN "post" ELSE "lock",
                              ![c].token = IF cached.fresh THEN cached.token ELSE NoToken]
    /\ UNCHANGED <<query, answer, parts, cached, refresher, today, google, count>>

\* Another report may have refreshed the token meanwhile; a forced refresh does not look.
FreshByNow(c) == ~calls[c].forced /\ cached.fresh

\* Mistaken variant: the refresh is not serialised.
LockAlwaysFree == TRUE

LockFree == refresher = NoReport

TakeLock(c) ==
    /\ calls[c].phase = "lock" /\ LockFree
    /\ IF FreshByNow(c)
       THEN calls' = [calls EXCEPT ![c].phase = "post", ![c].token = cached.token] /\ UNCHANGED refresher
       ELSE calls' = [calls EXCEPT ![c].phase = "refresh"] /\ refresher' = c
    /\ UNCHANGED <<query, answer, parts, cached, today, google, count>>

Done(c, outcome) ==
    [calls EXCEPT ![c].phase = "done", ![c].outcome = outcome, ![c].token = NoToken, ![c].forced = FALSE]

\* refreshToken: what the token endpoint answers decides; a short lifetime is never fresh.
Refresh(c) ==
    /\ calls[c].phase = "refresh"
    /\ refresher' = NoReport
    /\ IF google.up /\ google.credential
       THEN /\ count.issued < MaxTokens
            /\ count' = [count EXCEPT !.issued = @ + 1]
            /\ cached' = [token |-> count.issued + 1, fresh |-> google.lifetime]
            /\ calls' = [calls EXCEPT ![c].phase = "post", ![c].token = count.issued + 1]
       ELSE /\ calls' = Done(c, IF google.up THEN "rejected" ELSE "upstream")
            /\ UNCHANGED <<cached, count>>
    /\ UNCHANGED <<query, answer, parts, today, google>>

\* A custom report, or one with a custom dimension, may ask for what the property lacks.
GoogleAnswers(c) ==
    CASE ~google.up -> "upstream"
      [] calls[c].token \in google.refused -> "refused"
      [] c[2] \in WithCustomDimension /\ ~parts[c[1]].degraded /\ ~google.dimension -> "dimension"
      [] c[2] = "custom" /\ ~google.dimension -> "invalid"
      [] OTHER -> "ok"

\* A refused token is replaced once by force; refused again, the credential is reported.
Post(c) ==
    /\ calls[c].phase = "post"
    /\ IF GoogleAnswers(c) # "refused" THEN calls' = Done(c, GoogleAnswers(c)) /\ UNCHANGED count
       ELSE /\ calls' = IF calls[c].forced THEN Done(c, "rejected")
                        ELSE [calls EXCEPT ![c].phase = "lock", ![c].forced = TRUE]
            /\ count' = [count EXCEPT !.refused = @ + 1]
    /\ UNCHANGED <<query, answer, parts, cached, refresher, today, google>>
-----------------------------------------------------------------------------
\* Of the reports of a stage, the first that failed in their order decides.
StageOutcome(p) ==
    LET reports == Stages(p, query)[parts[p].stage]
        failed == {i \in 1..Len(reports) : calls[<<p, reports[i]>>].outcome # "ok"}
    IN IF failed = {} THEN "ok"
       ELSE calls[<<p, reports[CHOOSE i \in failed : \A j \in failed : i <= j]>>].outcome

\* Only a missing dimension is answered without it; every other failure is reported.
EndStage(p) ==
    /\ parts[p].outcome = "running"
    /\ \A c \in InStage(p) : calls[c].phase = "done"
    /\ LET out == StageOutcome(p)
           next == parts[p].stage + 1
       IN CASE out = "dimension" /\ ~parts[p].degraded ->
                    /\ parts' = [parts EXCEPT ![p].degraded = TRUE]
                    /\ calls' = StageCalls(p, Stages(p, query)[parts[p].stage])
            [] out = "ok" /\ next <= Len(Stages(p, query)) ->
                    /\ parts' = [parts EXCEPT ![p].stage = next]
                    /\ calls' = StageCalls(p, Stages(p, query)[next])
            [] OTHER ->
                    /\ parts' = [parts EXCEPT ![p].outcome = out]
                    /\ UNCHANGED calls
    /\ UNCHANGED <<query, answer, cached, refresher, today, google, count>>

\* writeFailure.
Code(outcome) ==
    CASE outcome = "ok" -> "report"
      [] outcome = "rejected" -> "GA4_CREDENTIAL_REJECTED"
      [] outcome = "upstream" -> "GA4_UPSTREAM_ERROR"
      [] OTHER -> "GA4_REPORT_INVALID"

Shown == {p \in DOMAIN parts : parts[p].outcome = "ok"} \ {"insights"}

\* A summary fails only when all of its parts did, with the error of the first; any other
\* part that failed is left out, and insights that failed are an empty list.
Respond ==
    /\ query # NoQuery /\ PartsDone
    /\ query.page = "summary" => "insights" \in DOMAIN parts /\ parts["insights"].outcome # "running"
    /\ answer' = IF Shown = {} /\ query.page # "insights"
                 THEN [code |-> Code(parts[Parts(query)[1]].outcome), shown |-> {}]
                 ELSE [code |-> IF query.page = "insights" THEN Code(parts["insights"].outcome) ELSE "report",
                       shown |-> Shown]
    /\ query' = NoQuery
    /\ parts' = << >> /\ calls' = << >>
    /\ UNCHANGED <<cached, refresher, today, google, count>>
-----------------------------------------------------------------------------
Undisturbed == count.changes < MaxDisturbances

\* The minute before a token's expiry begins.
Expire ==
    /\ Undisturbed /\ cached.fresh
    /\ cached' = [cached EXCEPT !.fresh = FALSE]
    /\ count' = [count EXCEPT !.expired = @ + 1, !.changes = @ + 1]
    /\ UNCHANGED <<query, answer, parts, calls, refresher, today, google>>

Midnight ==
    /\ Undisturbed
    /\ today' = today + 1
    /\ count' = [count EXCEPT !.changes = @ + 1]
    /\ UNCHANGED <<query, answer, parts, calls, cached, refresher, google>>

\* Google goes down or comes back, withdraws or restores the credential, or revokes the tokens.
ChangeGoogle ==
    /\ Undisturbed
    /\ count' = [count EXCEPT !.changes = @ + 1]
    /\ \/ google' = [google EXCEPT !.up = ~@]
       \/ google' = [google EXCEPT !.credential = ~@]
       \/ google' = [google EXCEPT !.refused = 1..count.issued]
    /\ UNCHANGED <<query, answer, parts, calls, cached, refresher, today>>

AnalyticsNext ==
    \/ \E q \in ReportQueries : AskReport(q)
    \/ BeginNext
    \/ BeginInsights
    \/ \E c \in DOMAIN calls : TakeToken(c) \/ TakeLock(c) \/ Refresh(c) \/ Post(c)
    \/ \E p \in DOMAIN parts : EndStage(p)
    \/ Respond
    \/ Expire
    \/ Midnight
    \/ ChangeGoogle

AnalyticsSpec == AnalyticsInit /\ [][AnalyticsNext]_analyticsVars
-----------------------------------------------------------------------------
\* Every call belongs to a part that has begun, at most one report refreshes the
\* token, and it is the one that holds the lock.
AnalyticsTypeOK ==
    /\ \A c \in DOMAIN calls :
          /\ c[1] \in DOMAIN parts /\ calls[c].outcome \in Outcomes
          /\ calls[c].phase \in {"token", "lock", "refresh", "post", "done"}
          /\ (calls[c].phase = "refresh") = (refresher = c)
    /\ refresher \in DOMAIN calls \cup {NoReport}
    /\ cached.token \in 0..count.issued

\* The client fetches tokens no faster than they end: for the first report, for
\* each expiry and for each answer that refused one, however many reports find
\* the token gone at the same moment (accessToken serialises the refresh so that
\* parallel reports do not each sign an assertion).
RefreshesJustified ==
    google.lifetime => count.issued <= 1 + count.expired + count.refused

\* The parts of a summary, its insights and the lists in them are of the same
\* days, though midnight may pass while they are read (Summary computes the range
\* and hands it to every part); the two ranges of a comparison are next to each
\* other and equally long.
WindowsAgree ==
    /\ query.page = "summary" => \A c, d \in DOMAIN calls : calls[c].window = calls[d].window
    /\ \A c, d \in DOMAIN calls : c = <<"conversion", "current">> /\ d = <<"conversion", "previous">> =>
          LET w == calls[c].window
              v == calls[d].window
          IN v.end + 1 = w.start /\ w.end - w.start = v.end - v.start

\* What the parallel reports of one answer share: the token and the days.
AnalyticsSafe == RefreshesJustified /\ WindowsAgree
=============================================================================
