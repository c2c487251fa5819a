# Verification of the AI business service

TLA+ models of this service, from its outbox to its administration, with TLC runs
on small instances and, for every safety property those runs check, TLAPS proofs for
every instance. The service sells generated images and videos:
a user buys diamonds, a creation reserves some of them, workers send its steps to
a provider, answers come back by callback and by look-up, and in the end the
diamonds are kept against a published result or returned. Everything durable is
in MongoDB, everything asynchronous goes through a transactional outbox, and no
process may be trusted to finish what it began. What can go wrong lies between
the steps, and that is what the models are made of.

## The system

| Part | State it keeps | Operations | Talks to | Hard about it | Correct when |
|---|---|---|---|---|---|
| Outbox (`data/outbox_repository.go`) | events with status, lease token and deadline, attempts, retry window | enqueue, claim, renew, deliver, requeue, fail, needs-attention | every worker | leases that expire under a working holder, takeover, two counters that make a window | only the latest claim writes, ends are final, open events wake |
| Re-drive (`biz/redrive`) | re-drive count, audit rows | observe, re-drive | outbox, terminal slot | two operators, one command twice | one audit row per re-drive, the count is capped |
| Submission workers (`worker/generation_submission*.go`) | step status, intent, job, recovery event | claim, review, permission, request, look-up, bind, reject, confiscate | provider, outbox, ledger | timeouts that are not refusals, crashes around the request, write skew | one request, no refund while a job may exist, an accepted job is found |
| Cancellation (`data/generation_cancel.go`) | creation status, cancel event | request | submission, terminal | snapshot isolation against binding and activation | a bound job of a cancelling creation is cancelled |
| Terminal slot, inbox, reconcile (`data/provider_inbox*.go`, `worker/provider_reconcile.go`) | one terminal answer per step, deliveries, recovery events | acknowledge, consume, look up, apply | outbox, provider | two sources that may contradict each other, callbacks before the binding | the first answer stands, nothing is decided on a contradicted one |
| Materialization and settlement (`worker/provider_result_materializer.go`, `worker/provider_terminal_settlement.go`) | assets, second step and its recipe, reservation gate | copy, publish, activate, refund, give up | object store, ledger, outbox | every write is conditional on what was read long before | refund excludes publication, no refund is lost |
| Creations and ledger (`biz/creations`, `biz/ledger`) | creations, reservations, balances, quota days, entries | create, reserve, reverse, confiscate | all of the above | idempotency keys decided by unique indexes | one charge per key, entries sum up to the balance |
| Payments (`biz/payments`, `data/payment_repository.go`) | orders, receipts, balances, callback nonces | checkout, bind, confirm, settle, store purchase | PayCores, app stores | confirmations before the binding, repetitions, races on one order | each payment credited once, to its user, for the frozen amount |
| Identity and sessions (`biz/identity`, `data/identity_repository.go`) | users, credentials, external identities, sessions | register, log in, bind, authenticate, change password, revoke, suspend | every request | reads before a revocation used after it, two guests and one identity | no session survives what should end it |
| Realtime hub (`realtime/hub.go`) | subscribers, bounded channels, history | publish, subscribe since | HTTP streams | channels at their limit, a restart | no gap is delivered silently |
| Legacy execution (`integrations/generation/client.go`, `integrations/generation/callback.go`, `data/generation_callback_repository.go`) | steps, receipts by nonce, second step's recipe | submit, look up, verify, link, complete, fail | the same documents as the pipeline | repeated, reordered, late callbacks | one ending per step, a second step made of the first one's result |
| Catalogs (`biz/catalog`, `data/catalog_repository.go`, `data/model_mapping.go`, `cmd/b2b-catalog-import`) | catalogs, recipes, frozen products | import, publish, admit, map | creations, submission | a new version between the reads of one request | what was frozen can be mapped |
| Media and object store (`integrations/r2`, `transport/r2media/handler.go`) | objects, multipart uploads, links, resized images | download, stream, commit, verify, audit, redirect, resize | materialization | two claims uploading one key, a lost lease in mid-stream | what is published was verified, the image behind a redirect is the one asked for |
| Gateway (`gateway`) | route switches, handlers | route, forward, run locally | the old Node service | a switch flipped between a request and its repetition | one side takes a request |
| Providers and PayCores (`integrations/generation/provider_registry.go`, `integrations/paycores`, `biz/payments/callback.go`) | configuration of two processes, nonces | start, submit, rotate, confirm | the outside | gateway and worker configured apart, clocks apart | jobs go where they were frozen to, an envelope passes once |
| What users read (`biz/notification`, `biz/feedback`, works and wallet) | notices, switches, feedback, pages | list, mark, answer, save | every writer | pages read while entries arrive | all entries in order, answers once |
| Administration (`biz/admin*`, `data/admin*.go`) | reviews, applications, links, posts, prices, images, analytics | list, decide, edit, publish, report | each other, the old site's collections | read then write by identifier alone, keys sent twice, several reads per page | versions count decisions, keys stand for one record, claims are disjoint, pages are exact |
| Upkeep (`data/migrate`, `cmd/outbox-retention`) | TTL indexes, the index over jobs, worker metrics | preflight, purge, install, replace an index | the outbox, every writer | events and writers move during the command | nothing active is removed, jobs stay unique |

`PROJECT.json` lists every component with what is modelled of it and, under
`hazards`, what in this code is hard to test, each at its line with the properties
that cover it.

## The modules

| Module | Models | State to code |
|---|---|---|
| `Outbox` | events, leases, retry windows, giving up, re-drives, with time | `events` is `outbox_events`, `held` what each `DeliverOnce` has in its hands, `uploadPending` the flag on the step row, `audits` the rows of `admin_audit` |
| `Submission` | the first submission of a step by both routes, the reconcile worker's hold of the recovery event and the user's cancellation | `db` is the creation's documents, `work` where each worker's `DeliverOnce` stands, `snap` the snapshot of an open transaction, `inflight` and `outcome` the network and the provider |
| `Terminal` | from a bound job to the end of a creation of one or two steps | one variable per collection, `work` as above, `asking` a cancellation with its snapshot read |
| `Charge` | the abstract specification: the money and the story of one creation are decided together, once | - |
| `Payments` | checkouts, confirmations, store purchases and settlement | `orders`, `receipts`, `balance`, `nonces` are the collections, `remote` what PayCores knows, `call` the HTTP requests in progress |
| `Admission` | `CreateReserved` and all that moves a wallet: reservation, reversal, confiscation, adjustment, grant, suspension | the collections by name; `call` the requests, each with the snapshot of its transaction; `answers` what clients were told |
| `Sessions` | accounts, logins, bindings, authentication, revocation | `accounts`, `credentials`, `subjects`, `sessions` are collections, `request` the requests between two of their database calls |
| `Callbacks` | the `execution.v2` route: client, verifier, linker, settlement of signed callbacks | one variable per collection, `job` and `sent` the service outside |
| `Catalog` | import and publication of catalogs, the plan of a creation, its later mapping | `catalogs`, `recipes`; `creating` the reads of a request |
| `Streams` | one result copied by claims that overlap: download, multipart upload, commit, verification; the orphan audit | `copy` each claim's stream, `upload` and `object` the store, `asset` the row |
| `Media` | redirects, refreshed links, resized images | `readings` are the requests in progress, `public` the bucket's derived images |
| `Gateway` | which side takes a request, under a switch document read for each | `document`, `handlers`, `routed` the request on its way; `did` the history of executions |
| `Providers` | which provider, account and secret a step uses; gateway and worker configured apart | `running` the configurations, `route` what was frozen, `inbox` verified deliveries |
| `PayCores` | the client's resends, the envelope's gate, what the buyer sees | `nonces` what our sends used, `consumed` the unique index, `checkout` the order being sent, `told`, `shown` histories |
| `Feeds` | works and ledger by page, notices, feedback, switches | `listed` are the documents of the list in `listing`; `notices`, `feedback`, `preferences` are collections; `reader` the pages of one reader, `tab` what each of his tabs shows and is saving |
| `Realtime` | publish, subscribe, replay, bounded channels, restart | `history` as in `Hub`, `channels` its `subs`; `got`, `excused` what a client saw and was told to expect |
| `Reviews` | import behind the fence, decisions one by one and in batches, with audit and event, and their repetition by key | `items`, `audits`, `events`, `fence` are the collections; `seen` the versions an operator listed, `answers` what he was told |
| `Apps` | registry of applications, its pages and platform configurations | `apps`, `platformConfigs`; `edits` what each request read |
| `Marketing`, `Pricing` | tracking links and posts; settings with versions | collections by name; `forms` what an editor read; `clicked` the redirects |
| `Desk` | who answers an administrators' request, whom each route admits and what it is for; changes of roles and status by requests admitted before | `staff` is `users`, `changed` the rows of `admin_audit`, `desk` the requests with the role they were admitted by |
| `Images`, `Analytics` | lists over three old collections; reports, the shared token | `list`, `batch`, `stats` the reads so far; `parts`, `refresher` |
| `Retention` | outbox retention command, TTL expiry, backlog metrics | `outbox` is `outbox_events` with their ages, `command` where the command stands, `ttl` the indexes |
| `JobIndex` | replacement of the unique index over jobs, with old and new writers | `steps`, `indexes`, `writers`; `migration` where it stands |
| `Edge` | `Gateway`, `Media`, `Providers` and `PayCores` together: what stands before the gateway's components | - |
| `Stores` | `Streams`, `Retention` and `JobIndex` together: what is kept for good | - |
| `Storefront` | `Apps`, `Marketing` and `Pricing` together: what the public meets | - |
| `Reports` | `Images` and `Analytics` together: what administrators read | - |
| `User`, `Console` | the components a user meets, and those operators work with, together: the conjunctions of their specifications and of their types | - |
| `Sorting` | what a query with a sort and a limit returns: members by rank, the first n | - |
| `OutboxProofs`, `SubmissionProofs`, `TerminalProofs`, `PaymentsProofs`, `AdmissionProofs`, `UserProofs`, `ConsoleProofs` | theorems and their proofs | - |
| `Totals` | lemmas: sums over finite sets of any size; ranks and the sequences of `Sorting` | - |
| `MCOutbox`, `MCSubmission`, `MCTerminal`, `MCPayments` | model values and symmetry for TLC | - |
| `MCUser`, `MCConsole` | `User` and `Console` for TLC: `part` says which component moves | - |

`Submission`, `Terminal` and `Outbox` are three views of one pipeline. `Outbox`
has the clock and any number of events; the other two have the documents and
treat a lease as something that may expire at any moment, so they allow at least
what `Outbox` allows. `Submission` ends where `Terminal` begins, at the binding
of the job; `Terminal` carries the second step's submission as three actions.
`Submission` and `Terminal` both implement `Charge`. `Streams` is the inside of one
step of `Terminal` (the copy), `Callbacks` the same settlement reached by the other
route, `PayCores` the wire in front of `Payments`, `Admission` what happens before
`Submission`, and `Retention` what happens to the events of `Outbox` afterwards.

**Parts that share nothing.** The components of `User`, and those of `Console`,
have no variable in common, so that every behaviour of them together is an
interleaving of one behaviour of each, and a property of one depends on no other.
That is why `UserSpec` and `ConsoleSpec` are plain conjunctions, and why theorems about
each component are theorems about them. For TLC, `Init` chooses the part that moves and
the others rest in one of their initial states: the run explores each component in full, and the sum of their
states instead of the product. The retention command and the metrics share the
outbox's events, but each only reads what the other never writes; they too are
explored one at a time. A component instantiated twice (`Guests`, `Reviewing`,
`Imported`, `Overlapping`, `Answers`, `Metrics`, `Routed`) has a second instance whose bounds
let a case happen that the first one's do not.

**Transactions.** A MongoDB transaction reads from one snapshot and aborts when a
document it *writes* has changed since; a document it only *reads* is not
protected. A transaction that writes all it depends on is one action. One that
also depends on something it only reads (`PrepareProviderSubmission`,
`BindProviderJob`, `RequestCancellation`, the settlement of an order) is two, the
snapshot and the commit, and the commit compares only what it writes.

**Mistaken variants.** Some definitions are preceded by one called a mistaken
variant: what the definition would be with a plausible bug. Nothing uses them;
each is there so that replacing the definition by it can be seen to break a
property.

**Left out of a module on purpose.** Payloads, identifiers put together from
strings, signatures, hosts and sizes of callbacks, the exponential formula of the
backoff (any delay up to its cap is taken), prices and channels of an order, the
bytes of a result (in `Terminal` a copy succeeds or fails; in `Streams` a body is a
sequence of the lengths of what is read at a time).

## The runs

Every run finishes; deadlock is checked where the cfg does not say otherwise.
`Outbox`, `Submission` and `Terminal` really stop: when every event is closed and
no operator may re-drive, nothing is left to do (and `Outbox` has a bounded clock).

| Run | Instance | Shows |
|---|---|---|
| `OutboxMaterialize` | 1 materialization event or 1 plain one, 2 workers, 2 operators, lease 2, delay 1, age 4, budget 2, 2 re-drives, clock to 6 | leases exclude, ends are final, windows and audits are right, the upload flag is truthful, nothing sleeps too long |
| `Submission` | 2 workers, both routes, a cancelling user | at most one request; no settlement while a job may exist; the documents agree; no permission once cancelling; `Charge` |
| `SubmissionLive` | 1 worker, both routes, fairness | an accepted job is bound; nobody is stranded before the permission |
| `SubmissionCancel` | 1 worker, B2B | *violation*: binding and cancelling overlap, nobody cancels at the provider |
| `Terminal` | 2 workers, 1 delivery, 1 result, 1 failure, 1 re-drive | `Charge`, the step graph, the first answer stands, no refund is lost |
| `TerminalLive` | 1 worker, 1 crash, fairness | a delivery is consumed, an answer leads on |
| `TerminalReopen` | 1 worker | *violation*: a cancellation strands the second step |
| `Payments` | 2 users, 1 request key, 1 random identifier, 2 PayCores orders and payments, 1 store transaction, 1 nonce, 2 requests at a time, 2 prices, any number of crashes | each payment credited once, balances add up, answers do not lie, checkouts converge on one frozen order |
| `PaymentsLive` | 1 user, 2 PayCores orders and payments, no store, fairness | a payment on an order that gets bound is credited |
| `User` | the components of `MCUser`, one at a time | see below |
| `Console` | the components of `MCConsole`, one at a time | see below |
| `SessionsRehash` | 1 account, 2 passwords | *violation*: a login that renews an old hash puts the old password back |

`User` checks the types of all its components (`UserTypeOK`) and, of each, what it
promises:

* `AdmissionSafe`: balances are the sum of their entries, the quota used is the sum of
  the unreversed reservations of that day, an answer to a creation says what was
  done under its key (`Admission`);
* `SessionsSafe`: an accepted session was current when it was accepted, and a bound
  identity leads to the account it was bound to (`Sessions`, with emails and
  passwords, and again with two guests who want one identity);
* `FeedsSafe`: a reader who pages to the end, by cursor or by number, is told of every
  entry there was when he began, by cursor once and newest first; answered feedback
  keeps its notice until he removes it, and then it is gone for good; a switch keeps what
  he gave it last (`Feeds`);
* `StreamTellsInOrder`: the events of a stream come in order, and what a client
  misses it has been told it may miss (`Realtime`);
* `EdgeSafe`: one side takes each request, and a purchase with all its repetitions is
  executed once while the switch is left alone (`Gateway`); the image behind a redirect is of the
  source, size, quality and format asked for, whoever of several readers made it (`Media`); a job goes to the account its step was frozen to, and no
  conclusion is drawn from an answer that is not about that step (`Providers`); a confirmation passes its gate once
  before its window ends, a resent request has a new nonce, and a buyer is told what is so (`PayCores`);
* `CallbacksAgree`: the results, receipts, refunds and endings of a creation agree in
  every state, a second step is made of the first one's image, and no later callback
  changes a terminal answer or its receipt (`Callbacks`).

`Console` checks likewise, of the components of `MCConsole` (`ConsoleTypeOK`):

* `ReviewsSafe`: an item's version counts its decisions (`VersionCountsDecisions`);
  whoever is told of a success has a record under the very key of his request, of
  that verdict and that actor, and for a batch of those items (`AnswersOnRecord`); a
  key stands for one record (`KeysAreOfOneRecord`), and a batch on record has decided
  each of its items (`BatchesWhole`). That a lone decision's record is of the same
  item is what one would expect too, and the code does not keep it
  (`KeyNamesOneDecision`, below). Two operators, who stand for one another, decide on
  what waits behind an import of two items, and one decision meets a collection that
  changes while it is imported (`Reviews`);
* `StorefrontSafe`: no two applications hold one identifier, and a legal page
  is taken down only by somebody who had read that version (`Apps`); clicks are counted,
  slugs are unmistakable, and a link that has an address is named in it by its own
  source and medium (`Marketing`); versions are audited, an offer is negative only where
  a number was stored for it that no amount can hold, and the membership never is (`Pricing`);
* `ReportsSafe`: a page of images within its caps is the page a single list would
  give, and a hidden image is not public (`Images`); tokens are fetched for a reason,
  and the parts of an answer are about the same days (`Analytics`);
* `DeskSafe`: the audit tells how every account came to its role and status, none of
  them by somebody who might not, and a route that writes is never reached by a
  reading (`Desk`);
* `CatalogSafe`: what a creation froze can be mapped for ever, a catalog is published
  whole (`Catalog`);
* `StoresSafe`: a published object is there, whole and in order, whichever claim
  completed its key, no part is under way when an upload is completed or given up,
  and a complete audit holds everything that was there when it began (`Streams`);
  nothing active is removed and TTL indexes are created only over an empty preflight
  (`Retention`); no two steps of one account share a job (`JobIndex`).

Why the bounds are enough. Each hazard needs two of something: two workers on one
event (stale holder and new one), two operators on one count, two answers for one
job (a delivery and a look-up), two payments on one order, two requests with one
key, two users for one purchase. Each instance has two where its hazards need
them. A lease of two ticks can be renewed before it runs out and missed after; an
age of four lets a window close by age as well as by its budget of two; a second
re-drive is refused only if the first was counted. In `Terminal` a lost lease is
free and stands for a crash of its holder, so that run needs no crashes; the live
run has one of its own. In `Payments` one random identifier is enough, since the
other order has the identifier of the request key; `NoTicketLeft` ends a request
that finds none, a bound and not part of the code. `MaxTxns` lets a store purchase meet one
payment at PayCores, or two payments each other. `MaxVersion` bounds the versions
of the product, `MaxTime` the clock, `MaxRedrives` and `MaxCrashes` what their names
say; `Outbox`'s `MaxRedriveCount` is the code's own limit. Only one event is ever
enqueued in `OutboxMaterialize`, so the order of claims between events is not
exercised there; nothing the properties say depends on it.

In `User` and `Console` the bounds are in the instances of `MCUser` and `MCConsole`.
`MaxChanges`, `MaxWrites`, `MaxSaves`, `MaxClicks`, `MaxDecisions` bound what
operators do (two of them where two must compete, one where one change between two
reads is the hazard); `MaxSent`, `MaxOrderSends`, `MaxEnvelopes` what the outside sends
(a callback, its repetition and its contradiction); `MaxClock`, `MaxDay`, `FirstDay`
time; `MaxEvents` = 7 with a channel of 1 lets a reconnecting client miss an event
by overflow and by restart; `MaxStarts` = 4 starts gateway and worker twice.
`Retention` counts in days: the periods of 14, 30 and 90 days for delivered, failed
and needs_attention are 1, 2 and 2, the batch of the purge is one event, and two
days are enough for an event to outlive its period while the command runs, and one event
may be from before the first. Sizes of
`Streams` are in parts: a body has at most two of at most two bytes, the queue one
place, and three redirects exceed the one that is allowed.

## Fairness

* `Submission`: workers keep polling (`worker/runner.go`), so each worker's next
  step and the expiry of a lease are weakly fair. A worker may crash, be late or
  miss a job in a look-up again and again but not every time: strong fairness of
  each step towards the job by a worker that still owns the event. The reconcile
  worker requeues what it claims with a backoff far above the length of a
  delivery; that it does not meet every single binding is put as its leaving the
  event alone in the end. Nothing makes the provider receive or accept a request,
  or the user cancel.
* `Terminal`: weak fairness of each worker's steps, of consumption and of the end of
  a retry window, strong fairness of claiming an event and of the upload mark,
  which the code retries without end. Nothing is assumed of the provider, the
  object store, the operator or the user.
* `Payments`: a request runs to its end unless it is cut off; that may happen any
  number of times but not for ever (`<>[][Calm]_vars`); the TTL index forgets nonces; PayCores repeats a confirmation with new nonces until it is heard (the
  comment at `biz/payments/callback.go:92` leaves recovery to PayCores' persistent
  outbox): strong fairness of a confirmation per order number. Nobody has to pay or
  to check out again; the property speaks of orders that get bound.

`Outbox` has no liveness property: with bounded time it would say nothing.
`WakesInTime` is the safety side of it. The parts of `User` and `Console` have none:
what they do is asked for by a person or an outside service each time, and the code
has no loop of its own that would have to come to an end.

## What is proved

For every set of workers, events, deliveries, users and so on, and every value of
the limits, under the named assumption of each module (`ConstantsAssumption`,
`SubmissionAssumption`, `TerminalAssumption`, `PaymentsAssumption`,
`AdmissionAssumption`, `SessionsAssumption`, `ReviewsAssumption`,
`CallbacksAssumption`, `RealtimeAssumption`, `CatalogAssumption`,
`RetentionAssumption`, `StreamsAssumption`, `GatewayAssumption`, `MediaAssumption`,
`PayCoresAssumption`, `AppsAssumption`, `MarketingAssumption`, `PricingAssumption`,
`AnalyticsAssumption`, `ImagesAssumption`, `FeedsAssumption`: numbers are natural, markers
such as `NoOne` or `NoFact` are not members of the sets they stand beside, kinds, statuses
and failures are of the known ones; four say more, and are explained below;
`JobIndex` needs none, and what is stated of `Desk` supposes only that everybody's first
role is a role).

* **Outbox** (`OutboxProofs`). `IInv` is inductive: besides the properties, a claimed
  event carries the number of its latest claim as its token, a worker's copy is as
  old as its token, two workers never hold one token, and a decision to give up
  that is still fenced by a live token is right for the document, not only for the
  copy. From it: `LeaseExclusive`, `AuditPerRedrive`, `UploadPendingTruthful`,
  `WakesInTime`, `ClosedIsFinal`, `WindowRespected`. The strengthening is needed
  because every one of these speaks of the document while the code decides on a
  copy; `CopyCurrentWhileOwned` ties the two together for as long as it matters.
* **Terminal** (`TerminalProofs`). `IInv` says where a creation can stand
  (`FirstUnderway`, `SecondUnderway`, `Succeeded`, `Failed`), that the reservation
  follows the creation (`MoneyFollows`), that only bound jobs have answers, and
  that a settlement event belongs to a failed step and is given up only where
  nothing is left to settle. `ImplementsCharge` follows from `MoneyFollows` and
  from ended creations never moving again; `GraphConsistent`, `FirstAnswerStands`
  and `RefundNotLost` from the positions.
* **Payments** (`PaymentsProofs`). `IInv` says what a request may rely on at each
  place (`CallMeant`: the order it carries exists, is of its user and amount, is
  bound to the number it carries; the transaction it carries was paid on that
  number), that PayCores holds what the order of the request froze (`RemoteMeant`),
  and that the order of a request key is a checkout of that user
  (`KeyOrdersMeant`). With the three facts no step takes back (`OrderKept`,
  `RemoteKept`, `ReceiptKept`) it gives `CreditedOnce`, `UrlsAgree`,
  `AcksTruthful` and `OrdersFrozen`. The strengthening is needed because a request
  acts on what it read several steps, and several other requests, ago.
  `BalanceOfPaidOrders` needs one thing more, that only finitely many orders are ever
  paid (`FinitelyPaid`): a settlement then makes a finite set of paid orders larger by
  one and the sum by its amount.

* **Submission** (`SubmissionProofs`). `IInv` counts the request
  (`RequestsCounted`: at most one has left, an answer is to one that arrived) and
  says who may still send it: on the local route only a worker that met the event
  first and was never told to come back (`LocalSendsFirst`), on the other only one
  whose own transaction granted the permission, which is granted at most once
  (`PermissionGrantedOnce`); once the money has moved no first worker is left
  (`NoFirstAfterSettlement`). `PhasesMeant` says what a worker's place in its program
  tells of the provider, the request and the snapshot it works from, of which the
  past stays true (`Older`). From it: `TypeOK`, `AtMostOnePost`, `SettledWithoutJob`,
  `StoryAgrees`, the action property `NoPermissionOnceCancelling`, and the refinement
  `ImplementsCharge`, step by step: a transaction that settles is the one step of
  `Charge` that its mapping names, every other one a stutter.
* **Admission** (`AdmissionProofs`). A creation is computed from a snapshot and
  written later; `IInv` says that what a request plans is a reservation of its user
  (`PlanMeant`) and, unless it has been overtaken by a write to what it read, still
  fits the balance and the quota (`PlanInForce`). With the books' being finite
  (`BooksFinite`) it gives `AdmissionTypeOK` and the three conjuncts of
  `AdmissionSafe`: `WalletAddsUp`, `QuotaAccounted`, `AnswersTruthful`.
* **Sessions** (`UserProofs`). `AccountsInv` ties an account's version to the changes of
  its status (`AccountMeant`), a session to the version it was issued for
  (`SessionMeant`) and each request, between two of its database calls, to what it
  has read: a stale one knows that the account has moved on (`RequestMeant`).
  An address opens one account because the unique index says so at every write
  (`AddressesOpenOne`). From it: `SessionsTypeOK` and `SessionsSafe`, that is
  `AcceptedIsCurrent` and `BoundMeansKnown`. `PasswordStands` is false and stays with
  its run.

* **Callbacks** (`UserProofs`). What TLC checks of terminals is almost inductive;
  `CallbacksInv` adds what makes it so. A callback version means a terminal and a
  terminal means a version (`StepMeant`), so the version a transaction tests protects
  what `TerminalStands` says; every receipt, under whatever nonce, speaks for a step
  that has the terminal it tells, with that very address (`ReceiptMeant`), which is
  why confirming a repetition adds nothing false; a second step has left its block
  only if the first succeeded (`OrderMeant`), which is why the last step's result may
  complete the creation without reading the first; and what is under way was sent for
  a step of the service's, with an address callbacks may carry (`SentMeant`). From it:
  `TerminalsAgree`, `SecondOfFirst` and the action property `TerminalStands`.
* **Realtime** (`UserProofs`). `RealtimeInv` says that the history is the last events
  of this process without a gap (`HistoryMeant`), that numbers of this process and
  numbers of all time differ by what earlier processes published (`GotMeant`,
  `ChannelMeant`), and that a channel holds what follows the last event its client
  has, up to the newest unless the client is excused. The history is four times as
  long as a channel, so a client no more than a channel behind finds its last event
  there (`Replayed`); a number that a restarted process gives again is replayed from
  the wrong place, but never from before what the client has. It uses
  `RealtimeAssumption`: a connection holds at least one event, as `NewHub` sees to.

* **JobIndex** (`ConsoleProofs`). Jobs are unique among the steps of one account
  (`JobsUnique`) because at every moment an index in force says so: the old one over
  all jobs until it is dropped, the scoped one from then on (`Guarded`); an index
  keeps what it promised when it was built (`Kept`), and the command drops the old
  one only after it has seen the new one (`SeenBeforeDrop`).
* **Reviews** (`ConsoleProofs`). `ReviewsInv` is inductive: audit facts and events are
  finite, each fact of one projected item, each event with its fact
  (`RecordsMeant`), a key has one fact of each kind, a batch a fact for each of its
  items, and what an operator was told has a record to go by (`KeysMeant`); and a projected item is whole and its version one more than its
  facts and its events (`ItemsMeant`). An item enters the projection without facts,
  since every fact is of an item already there (`InsertionStands`), which is why no
  later import takes a decision back; a decision adds to each of its items one fact,
  one event and one version, because its key had no fact yet (`DecisionsCounted`). From
  it: `ReviewsTypeOK` and `ReviewsSafe`, that is `VersionCountsDecisions`,
  `AnswersOnRecord`, `KeysAreOfOneRecord` and `BatchesWhole`.
* **Desk** (`ConsoleProofs`). `DeskInv` is inductive: it adds to `ChangesAreDue` that
  whoever was let in has a role the route admits, and that he was let in as a super
  administrator exactly if he has been one from the first (`AdmissionMeant`). That is
  what makes a role read at admission good for a change made later: the roles of
  super administrators cannot be changed, and for the others the target is read again
  in the transaction. One more change leaves what the audit told before and tells of
  itself (`HistoryGrows`); accounts and money are written by the view alone
  (`PurposeKnown`). From it: `DeskTypeOK` and `DeskSafe`, that is `ChangesAreDue` and
  `PurposesFit`.

* **Catalog** (`ConsoleProofs`). A creation freezes a version and is mapped by it
  later, when other manifests have been imported. `CatalogInv` says that every document
  was written by the manifest it names, which proposed it (`Written`), and that what a
  creation froze names a published catalog that accepts its first step
  (`FrozenMeant`); no import writes over a publication, so it stays so. From it:
  `CatalogTypeOK` and `CatalogSafe`, that is `FrozenMappable` and `PublishedWhole`.
* **Retention** (`ConsoleProofs`). Three statuses are counted one after another while
  events move between them. `CountedNothing` says that a preflight that has found
  nothing so far has nothing expired behind it: an event that moves is dated no
  earlier than today, and the preflight began no later. From it: `RetentionTypeOK` and
  `RetentionSafe`, that is `NothingActiveRemoved` and `CreatedOverNothing`.
* **Streams** (`ConsoleProofs`). `StreamsInv` says that a stream is quiet wherever it
  rests and that a committed one was read back as it was written (`StreamMeant`), while
  an object that is there stays as it is (`ObjectsStay`); and of an audit under way,
  that whatever it has not yet seen of what was there at first lies beyond its cursor
  (`AuditMeant`), for a page that is not the last holds every key up to its greatest
  (`PageWhole`). From it: `StreamsSafe`. With the two others it gives `StoresSafe` for
  `StoresSpec`, the conjunction of three specifications that share no variable.
* **Apps** (`ConsoleProofs`). A request writes fields computed from a document it read
  a while ago, so nothing it found free need be free any more. `AppsInv` says that
  claims are disjoint all the same, because each write that sets them passes the
  unique index; that an editor's application is still registered when it writes,
  and that a creation has its application for itself and a document without a page
  (`EditPlaced`). No other write names the field of the page (`UpdatableFields`), and
  a removal's filter names the version it had read (`PageTakenStep`).
  `AppsAssumption` is what the requests' validation lets through. From it:
  `ClaimsDisjoint`, `PageTakenByReader`, `AppsTypeOK`.
* **Marketing** (`ConsoleProofs`). `MarketingInv` says of each link that its clicks are
  those counted and that it has a source and a slug (`LinkFits`), which no other has
  (`SlugsApart`): a save names its fields, and the clicks are never one of them, nor is
  an unnamed slug. That a link's own parameters win in its address, over those of its
  target path and of its form, holds of any link whose target path parses
  (`OwnParameters`); one whose path does not has no address, and its short one all
  the same. From it: `MarketingSafe`.
* **Pricing** (`ConsoleProofs`). `PricingInv` dates every fact by the saves before it
  (`AuditsDated`), so that no save repeats a fact: the facts of a setting are one more,
  with its next version. It also says that a stored membership was converted when it
  was saved (`MembershipNormalized`), so that no amount of it is out of range when it
  is read (`MembershipIsSane`). An amount on offer is negative only where a number
  beyond the largest amount was stored for it (`AmountsKeptSane`), whatever the
  conversion makes of such a number: `PricingAssumption` says that it is the largest
  or the least amount there is, as the language leaves it to the build. The menu
  is modelled with the rest, and of it nothing is stated but its audit's bound. From it: `PricingSafe`. With the two
  before it gives `StorefrontSafe` for `StorefrontSpec`, the conjunction of three
  specifications that share no variable.
* **Images** (`ConsoleProofs`). A list reads the collections one after another, each up
  to a cap, and sorts what it read. `ImagesInv` says of a list nothing changed under
  that what it has read of the collections behind it are the leading ones of each that
  fit, and its total is their number (`ListCounts`). The rest is about ranks: an image of the page has fewer newer ones
  than the cap among all that fit, so also in its own collection, so it was read; and
  its place among what was read is its place among all (`PageAlike`). That a hidden
  image is not public holds of every generated image (`PublicNotHidden`), since each update that
  withdraws one also takes it out of the gallery. `ImagesAssumption` says that no two
  images are of one instant: the lists sort by the time alone, so that with two of one
  time the store may answer two reads in different orders, and the promise is not made
  then. From it: `ImagesSafe`.
* **Analytics** (`ConsoleProofs`). `AnalyticsInv` is sharper than what it shows: each
  report whose token was refused, and that has not fetched another yet, has a token to
  its credit, and so has a token that is no longer fresh (`Credited`); a refresh spends
  one of them, for a report that was not refused and holds the lock found the token
  gone (`OneRefreshes`). Of the days it says that a report has those of its part's
  request, and that a summary's request has both dates from the beginning, so that the
  day a part begins on does not matter (`WindowsMeant`). From it: `AnalyticsTypeOK` and `AnalyticsSafe`, that is
  `RefreshesJustified` and `WindowsAgree`. With the one before it gives `ReportsSafe`
  for `ReportsSpec`, the conjunction of two specifications that share no variable.
* **Gateway** (`UserProofs`). `GatewayInv` says that nobody has taken a request that is
  still on its way, so that no request is taken twice (`RoutedMeant`), and that while
  the switch is left alone the side a purchase went to is the side it would go to now
  (`SidesStand`): the decision looks at the document, the handlers, the path, the body
  and the application, and a repetition has them all. `GatewayAssumption` says that a
  document is put in place whole (a torn one is read only while it is being written)
  and that a key belongs to one purchase, which is sent again as it was: the promise
  is about repetitions, and a key used for something else is refused elsewhere
  (`Admission`). From it: `GatewaySafe`, `GatewayTypeOK`.
* **Media** (`UserProofs`). `MediaInv` ties an answer to what was asked, not to when: an
  image of the public bucket is what its name says (`PublicFits`), whichever of several
  simultaneous requests wrote it, and nothing takes it away: the name of an image tells
  all that tells it from another, and its first request may be answered after a
  second one has written the same. `MediaAssumption` names the four routes; of the
  settings nothing is supposed. From it: `RedirectsLead`, `MediaTypeOK`. Nothing is
  promised of how long a redirect to a signed link may be kept.
* **Providers** (`UserProofs`). `ProvidersInv` says of each task that it has at most one
  job, where its route says, bound only if there is one, and that what was delivered
  or concluded of it is how that job ended (`TaskMeant`): a job that is over stays as
  it is. Nothing is said of the two processes' configurations, which may be restarted
  apart. From it: `ProvidersSafe`, `ProvidersTypeOK`.
* **PayCores** (`UserProofs`). A nonce that has passed the gate is kept until twice the
  window after it passed, and an envelope is old by then (`GateKept`): it can pass again
  at that very instant only (`ReplayOnlyAtTheEdge`). What a buyer is told, or shown,
  is of what the order and PayCores held when it was read, and neither goes back
  (`Truthful`, `ShownFits`); a send has the next number (`SendsCounted`). From it:
  `PayCoresSafe`, `PayCoresTypeOK`. With the three before it gives `EdgeSafe` for
  `EdgeSpec`, the conjunction of four specifications that share no variable.

* **Feeds** (`UserProofs`). A page is a query of its own, and between two of them entries
  are committed and settled. `FeedsInv` has three parts. Of the reader (`ReadingInv`): what
  he was told of and knew of at first is still listed (`ToldMeant`); by cursor, whatever
  he has not been told comes after the cursor, and what he was told comes in order
  (`ByCursor`); by number, whatever he has not been told has at least as many entries
  before it as he will skip, because later entries come before the earlier ones, which can
  only sink (`BySkip`). Both rest on what one page holds (`PageRanked`): the ranks from
  its beginning on, and all the rest if it says that nothing follows. Of the notices, that
  feedback is answered exactly if its notice is there or was removed (`NoticesMeant`). Of
  the switches, that unless a flip crossed a save, one save at most is on its way and
  holds what the user wants, and that otherwise this is what is stored (`SwitchesMeant`).
  From it: `FeedsTypeOK` and `FeedsSafe`, that is `PagesTellAll`, `AnswerToldOnce` and
  `SwitchesStand`. `FeedsAssumption` says that identifiers and times are numbers and
  that a page has room for at least one entry, as the limits of the code do.

**Types.** `UserTypeOK` and `ConsoleTypeOK` hold for `UserSpec` and `ConsoleSpec`
(`UserTyped`, `ConsoleTyped`), the conjunctions of nine and of eleven components. For
most of them the type is a part of the invariant above. For six it says more, and is
inductive only together with that invariant and a further part: `PartsMeant` (a stream
hands over its parts in order, no more than it has taken in but for the one it is
handing over, and its queue has the room it has), `ImagesBounded` (a page is no longer
than the longest, and today's images are counted of the collections read so far,
`OfFirst`), `MarketingBounded` and `PricingBounded` (clicks, dates and enabled
settings), `EventsBounded` and `CallbacksBounded` (a step lacks its execution exactly while its frame is to
come).

`RedrivesSound`, `CheckoutsConverge` and `CallbacksAgree` join action properties and
an invariant that are proved one by one (`ClosedIsFinal`, `WindowRespected`,
`AuditPerRedrive`; `OrdersFrozen`, `UrlsAgree`; `TerminalStands`, `CallbacksSafe`).

**Sums and ranks.** `Totals` proves of sums over finite sets, however large, what
`BalanceOfPaidOrders` and `AdmissionSafe` need: the sum exists and is one number,
nothing adds up to nothing, one element more adds its amount, and only the elements'
own amounts count. The community modules fold by taking one chosen element off a set
after another, so this is an induction over the subsets of the set; the library's
induction theorems take an operator as a parameter and cannot be instantiated here,
and `Totals` looks at a smallest subset that fails instead (`Least`, `Picked`).

Of sets sorted by a strict total order it proves that ranks are the numbers from zero
on, each taken once, so that the sequence `Sorted` gives is the set in its order
(`RanksTaken`, `SortedByRank`), and that sorting looks at the order of the members alone
(`SortedAlike`). The lists of `Images` and of `Feeds` rest on these.

Only model-checked: every liveness property, and everything the violation runs show.
Fairness and `ENABLED` are out of reach of the proof system and stay with TLC. Every
invariant and every action property of a passing run is a theorem. No module declares a
recursive operator.

## What the models found

Shown by a run, each with its trace:

1. `SubmissionCancel`: `BindProviderJob` reads the creation, `RequestCancellation`
   reads the steps, and neither writes what the other reads. When they overlap both
   commit, and no `generation.cancel` event is ever scheduled.
2. `TerminalReopen`: the same write skew between the activation of the second step
   and a cancellation: a ready step in a cancelling creation, which may never be sent.
3. `SessionsRehash`: a login that replaces an outdated hash names the user but not
   the hash it verified, so it puts the old password back over one chosen meanwhile.

Met while modelling; the modules follow the code and state no property that says
otherwise:

* `BudgetSpentOnMediaOnly` (stated in `Outbox`, checked by no run): comments at
  `worker/provider_result_materializer.go:349` and `:400` say that dependency
  failures do not consume the material-upload budget; it is compared with the number
  of claims (`:409`), so they do. `NoMarkOnQuarantined` (stated in `Terminal`): the
  filter of `MarkProviderResultUploadPending`
  (`data/generation_callback_repository.go:545`) does not look at the quarantine its
  comment (`:523`) mirrors. Both are refuted within a few steps.
* `KeyNamesOneDecision` (stated in `Reviews`, checked by no run): the audit fact that
  answers a repetition names the item it decided, and `ApplyReview`
  (`data/admin_review_write.go:34-45`) compares the verdict and the actor only. A key
  sent again for another item is answered with success, and that item is as it was;
  `transport/adminreview/write.go:194` has an error for it ("Idempotency key was
  already used for another review operation"), and a batch does compare its items.
  One operator refutes it in the instance of `Console`.
* `DefaultsComposed` (stated in `Pricing`, checked by no run): an amount that an
  override does not name reads as the number zero and not as absent
  (`biz/adminpricing/model.go:263`, `:313`, `:584-587`), so an override of a package's
  coins alone, or of the membership's monthly price, also sets the other price to zero,
  though "Operations composes static defaults with stored overrides" (`:114`). The
  first membership saved in the instance of `Console` refutes it.
* A materialization that is abandoned for good leaves its creation pre-terminal with
  its diamonds held; nothing but an operator refunds it.
* The product of a video's second step is validated before its first image exists,
  with the rules for that image left out; one that passes may be refused when it is
  mapped with the image, after the user has paid (`ValidateDeferredImageToVideoProduct`,
  against the comment above `ValidateProduct` in `mapper.go`). A newer catalog that
  omits a product makes older templates inadmissible.
* A switch flipped between a request and its repetition sends the repetition to the
  other side (`gateway/proxy.go:282` promises otherwise). Switches of notifications
  saved in two tabs at once: the later write wins whole.
* Native identifiers are unique only as claims of one collection; bundle and client
  identifiers other than Android's have no index, and a stale save of the native
  configuration brings a taken-down page's address back.
* An operator who sends no version with a review decides on whatever the item has
  become by the time the transaction reads it (`biz/adminreview/model.go:186-189`), and
  two requests that send neither a key nor a version are repetitions of each other if
  they ask the same: the second is answered from the record of the first, though
  another decision may have come between. A link whose target path does not parse
  (`/%zz`) is listed with no address (`data/admin_utm.go:363-366`). A price sent as null is stored as
  zero, and one beyond 64 bits as what the build converts it to, which may be
  negative (`biz/adminpricing/model.go:578`).
* A multipart upload holds the parts in its queue, one in each worker's hands and the
  one being filled, more than the `(queueSize + 1)` parts of
  `integrations/r2/client.go:322-324`. A result served with another content
  type gets another key, and the first object is an orphan for the audit; another
  body under the same key is refused until the budget is used up.
* `ErrCreateOrderRejected` says "explicitly rejected, not unknown network state"
  (`integrations/paycores/client.go:33`), but a 5xx, a malformed and an over-long
  answer give it too; an envelope may pass the gate twice at the one instant at which
  its window ends; "payment received" may be withdrawn while PayCores does not answer.
* Parallel reports that are each refused a token each fetch one
  (`integrations/ga4/client.go:429`); parts of an install summary compute dates
  of their own.
* The redirect to a private object is kept for 3600 seconds
  (`transport/r2media/handler.go:144`), or as long as its setting says, and its link is good for
  what `MEDIA_PROXY_SIGNED_URL_EXPIRES_SECONDS` says: below the age of the redirect, browsers
  keep it for longer than its link is good. Nothing relates the two, in the code or
  in the model.
* Gateway and worker read configurations of their own: an account pointed elsewhere
  in one of them ends in `ErrProviderInboxStepMismatch`, a retired secret in refusal.
* The purge re-checks an event's status but not its age when it deletes what it
  found: one re-driven and given up again in between is removed young. The comment
  promises only that active events are left alone.
* The preflight of the scoped job index looks at steps that have a job; an old step
  that gets its job afterwards without a route stays outside the index.
* `GrantSubscription` has no idempotency key and sets a monthly period; the quota
  documents of a day are created by local fixtures only, and one with another limit
  than the subscription's is not used. A lost answer of a feedback makes its
  repetition a second feedback. A deletion of a setting, repeated, counts a version.

## Not modelled, and what comes next

Each component's note in `PROJECT.json` says what of it is left out. In general:
what only reads and formats (the figures of dashboards, counts, overview pages, the
wallet's summary; `Desk` has their routes), the decoding and validation of request fields, generated code
(`conf.pb.go`), server construction and middleware, the cryptography behind
signatures and hashes, the review of contents (a choice in `Submission`), the
counters and health routes of the outbox, and the command-line tools that check
contracts or load fixtures. `ReauthorizeProviderSubmission`, `ApplyReceipt`,
`NewTaskProvider`, and the object client's copy, delete and presigned uploads are
called by nothing in the service. `CallbackUsecase` and `Hub.Publish` are wired by no
command either; they are modelled, since the code around them is written for them.

Worth doing next: the subscriptions' renewal notices, uploads of users, the dashboards' figures.
