------------------------------ MODULE Payments ------------------------------
(***************************************************************************)
(* Buying diamonds: checkouts that freeze a local order and bind it to an  *)
(* order of PayCores, the confirmations PayCores sends for it, and         *)
(* purchases verified with an app store (biz/payments, data/               *)
(* payment_repository.go, data/paycores_callback_nonce_repository.go).     *)
(*                                                                         *)
(* A call is one HTTP request in progress.  It reads and writes in several *)
(* steps: the transaction that freezes the order, the call to PayCores,    *)
(* the binding, the nonce, the search for the order, and the transaction   *)
(* that settles it, whose reads are one step (its snapshot) and whose      *)
(* commit is another.  A transaction that finds a document it writes       *)
(* changed since its snapshot is run again by the driver, or, when the     *)
(* unique index speaks first, gives up and reads what the winner left.     *)
(*                                                                         *)
(* An order of a checkout with a client request id has the identifier      *)
(* <<user, key>>, which stands for the digest of both; any other order     *)
(* gets a ticket, a random identifier.  Version v of the product is sold   *)
(* for v diamonds.  A receipt stands for itself and the payment_credit     *)
(* entry of the same key, user and amount written with it.                 *)
(***************************************************************************)
EXTENDS Integers, FiniteSetsExt

CONSTANTS
    Users,
    Keys,          \* client request ids
    Tickets,       \* random order identifiers
    Refs,          \* order numbers of PayCores
    PayCoresTxns,  \* transaction numbers of PayCores
    StoreTxns,     \* transaction numbers of the app stores
    Nonces,
    Calls,         \* requests in progress at a time
    NoKey, NoId, NoRef, NoTxn, NoUser,
    MaxVersion,    \* bound: versions of the product
    MaxTxns        \* bound: transactions paid or under way in one behaviour

VARIABLES
    product,   \* the latest published version
    orders,    \* payment_orders
    receipts,  \* payment_receipts with their ledger entries
    balance,   \* diamond_balance of each account
    nonces,    \* payment_callback_nonces
    remote,    \* the orders PayCores holds, with the transactions paid on them
    call,
    urls,      \* history: checkout URLs returned, with the order they are for
    acks       \* history: successful answers to a confirmation or a purchase

vars == <<product, orders, receipts, balance, nonces, remote, call, urls, acks>>
----------------------------------------------------------------------------
Txns == PayCoresTxns \cup StoreTxns
Ids == (Users \X Keys) \cup Tickets
Local == "local"                         \* local-paycores-<order id>

NoOrder == [user |-> NoUser, ref |-> NoRef, amount |-> 0, status |-> "none"]
NoReceipt == [order |-> NoId, user |-> NoUser, amount |-> 0]
NoRemote == [request |-> NoId, user |-> NoUser, amount |-> 0, paid |-> {}]
Idle == [at |-> "idle", user |-> NoUser, id |-> NoId, ref |-> NoRef,
         txn |-> NoTxn, amount |-> 0]

ASSUME PaymentsAssumption ==
    /\ NoKey \notin Keys
    /\ NoId \notin Ids
    /\ NoUser \notin Users
    /\ NoTxn \notin Txns
    /\ {NoRef, Local} \cap (Refs \cup StoreTxns) = {} /\ NoRef # Local
    /\ Refs \cap StoreTxns = {}
    /\ PayCoresTxns \cap StoreTxns = {}
    /\ Tickets \cap (Users \X Keys) = {}
    /\ MaxVersion \in Nat \ {0}
    /\ MaxTxns \in Nat

Order == [user : Users, ref : {Local} \cup Refs \cup StoreTxns,
          amount : 1 .. MaxVersion, status : {"pending", "paid"}]
Receipt == [order : Ids, user : Users, amount : 1 .. MaxVersion]
Remote == [request : Ids, user : Users, amount : 1 .. MaxVersion,
           paid : SUBSET PayCoresTxns]

CheckoutPlaces == {"freeze", "lookup", "request", "bind", "converge"}
CallbackPlaces == {"find", "findAgain"}
StorePlaces == {"storeFreeze", "storeLookup"}
SettlePlaces == {"settle", "commit", "resolve"}
Places == CheckoutPlaces \cup CallbackPlaces \cup StorePlaces
             \cup SettlePlaces \cup {"idle"}

Call == [at : Places, user : Users \cup {NoUser}, id : Ids \cup {NoId},
         ref : {Local, NoRef} \cup Refs \cup StoreTxns,
         txn : Txns \cup {NoTxn}, amount : 0 .. MaxVersion]

TypeOK ==
    /\ product \in 1 .. MaxVersion
    /\ orders \in [Ids -> Order \cup {NoOrder}]
    /\ receipts \in [Txns -> Receipt \cup {NoReceipt}]
    /\ balance \in [Users -> Nat]
    /\ nonces \subseteq Nonces
    /\ remote \in [Refs -> Remote \cup {NoRemote}]
    /\ call \in [Calls -> Call]
    /\ urls \subseteq Ids \X Refs
    /\ acks \subseteq Users \X Txns

Init ==
    /\ product = 1
    /\ orders = [id \in Ids |-> NoOrder]
    /\ receipts = [t \in Txns |-> NoReceipt]
    /\ balance = [u \in Users |-> 0]
    /\ nonces = {}
    /\ remote = [r \in Refs |-> NoRemote]
    /\ call = [c \in Calls |-> Idle]
    /\ urls = {}
    /\ acks = {}
----------------------------------------------------------------------------
Goto(c, place) == call' = [call EXCEPT ![c].at = place]
Answer(c) == call' = [call EXCEPT ![c] = Idle]

Frozen(u, ref, amount) ==
    [user |-> u, ref |-> ref, amount |-> amount, status |-> "pending"]

\* Mistaken variant: a draft version counts as well.
LatestDrafted == product + 1

\* FindLatestPublishedProduct
LatestPublished == product

\* FindOrderByProviderOrder: the unique index leaves at most one.
Bound(ref) == {id \in Ids : orders[id].ref = ref}

\* Bound: what was paid, and the store purchases that are under way or have
\* left an order, with one more.
WithTxn(t) ==
    {t} \cup UNION {remote[r].paid : r \in Refs}
        \cup {s \in StoreTxns : \/ \E id \in Tickets : orders[id].ref = s
                                \/ \E c \in Calls : call[c].txn = s}

Acked(c) == acks' = acks \cup {<<call[c].user, call[c].txn>>}
----------------------------------------------------------------------------
(* Checkout: createPendingPayCoresOrder, CreatePayCoresCheckoutForChannel  *)

Checkout(c, u, k) ==
    /\ call[c] = Idle
    /\ call' = [call EXCEPT ![c] = [Idle EXCEPT
                   !.at = "freeze", !.user = u, !.amount = LatestPublished,
                   !.id = IF k = NoKey THEN NoId ELSE <<u, k>>]]
    /\ UNCHANGED <<product, orders, receipts, balance, nonces, remote, urls,
                   acks>>

\* Mistaken variant: the order is upserted instead of inserted.
FreezeByUpsert(c) ==
    /\ call[c].at = "freeze"
    /\ \E id \in IF call[c].id = NoId THEN Tickets ELSE {call[c].id} :
          /\ orders' = [orders EXCEPT
                ![id] = Frozen(call[c].user, Local, call[c].amount)]
          /\ call' = [call EXCEPT ![c].at = "request", ![c].id = id,
                                  ![c].ref = Local]
    /\ UNCHANGED <<product, receipts, balance, nonces, remote, urls, acks>>

FreezeOrder(c) ==
    /\ call[c].at = "freeze"
    /\ \E id \in IF call[c].id = NoId THEN Tickets ELSE {call[c].id} :
          /\ orders[id] = NoOrder
          /\ orders' = [orders EXCEPT
                ![id] = Frozen(call[c].user, Local, call[c].amount)]
          /\ call' = [call EXCEPT ![c].at = "request", ![c].id = id,
                                  ![c].ref = Local]
    /\ UNCHANGED <<product, receipts, balance, nonces, remote, urls, acks>>

\* The unique _id is taken: ErrPaymentOrderAlreadyExists.
FreezeDuplicate(c) ==
    /\ call[c].at = "freeze"
    /\ call[c].id # NoId
    /\ orders[call[c].id] # NoOrder
    /\ Goto(c, "lookup")
    /\ UNCHANGED <<product, orders, receipts, balance, nonces, remote, urls,
                   acks>>

LookupOrder(c) ==
    /\ call[c].at = "lookup"
    /\ LET found == orders[call[c].id] IN
          call' = [call EXCEPT ![c].at = "request", ![c].ref = found.ref,
                               ![c].amount = found.amount]
    /\ UNCHANGED <<product, orders, receipts, balance, nonces, remote, urls,
                   acks>>

\* PayCores answers with an order it has for this request of this user, or
\* with a new one: the code does not rely on the first.  A call whose copy is
\* already bound only accepts the number it is bound to.
RequestOrder(c, r) ==
    /\ call[c].at = "request"
    /\ remote[r].request \in {NoId, call[c].id}
    /\ remote' = IF remote[r] # NoRemote THEN remote
                 ELSE [remote EXCEPT
                         ![r] = [request |-> call[c].id, user |-> call[c].user,
                                 amount |-> call[c].amount, paid |-> {}]]
    /\ \/ /\ call[c].ref = Local
          /\ call' = [call EXCEPT ![c].at = "bind", ![c].ref = r]
          /\ UNCHANGED urls
       \/ /\ call[c].ref = r
          /\ Answer(c)
          /\ urls' = urls \cup {<<call[c].id, r>>}
       \/ /\ call[c].ref \notin {Local, r}                \* ErrPaymentOrderMismatch
          /\ Answer(c)
          /\ UNCHANGED urls
    /\ UNCHANGED <<product, orders, receipts, balance, nonces, acks>>

\* PayCores refuses, or does not answer in time.
RequestRefused(c) ==
    /\ call[c].at = "request"
    /\ Answer(c)
    /\ UNCHANGED <<product, orders, receipts, balance, nonces, remote, urls,
                   acks>>

\* The filter of BindPayCoresProviderOrder.
MayBind(id) == orders[id].ref = Local /\ orders[id].status = "pending"

BindOrder(c) ==
    /\ call[c].at = "bind"
    /\ LET id == call[c].id
           r == call[c].ref
       IN \/ /\ MayBind(id)
             /\ Bound(r) = {}
             /\ orders' = [orders EXCEPT ![id].ref = r]
             /\ urls' = urls \cup {<<id, r>>}
             /\ Answer(c)
          \/ /\ MayBind(id)
             /\ Bound(r) # {}                             \* duplicate key
             /\ Answer(c)
             /\ UNCHANGED <<orders, urls>>
          \/ /\ ~MayBind(id)
             /\ Goto(c, "converge")
             /\ UNCHANGED <<orders, urls>>
    /\ UNCHANGED <<product, receipts, balance, nonces, remote, acks>>

\* Somebody else bound the order: only the same number is a success.
Converge(c) ==
    /\ call[c].at = "converge"
    /\ urls' = IF orders[call[c].id].ref = call[c].ref
               THEN urls \cup {<<call[c].id, call[c].ref>>}
               ELSE urls
    /\ Answer(c)
    /\ UNCHANGED <<product, orders, receipts, balance, nonces, remote, acks>>
----------------------------------------------------------------------------
(* Confirmations: ConfirmedCallbackUsecase.Handle                          *)

\* Somebody pays an order PayCores holds, bound or not yet.
Pay(r, t) ==
    /\ Cardinality(WithTxn(t)) <= MaxTxns
    /\ remote[r] # NoRemote
    /\ \A q \in Refs : t \notin remote[q].paid
    /\ remote' = [remote EXCEPT ![r].paid = @ \cup {t}]
    /\ UNCHANGED <<product, orders, receipts, balance, nonces, call, urls,
                   acks>>

\* A confirmation with a nonce that is not in the store; one whose nonce is
\* there is refused and changes nothing.
Confirm(c, r, t, n) ==
    /\ call[c] = Idle
    /\ t \in remote[r].paid
    /\ n \notin nonces
    /\ nonces' = nonces \cup {n}
    /\ call' = [call EXCEPT ![c] = [Idle EXCEPT
                   !.at = "find", !.user = remote[r].user,
                   !.ref = r, !.txn = t]]
    /\ UNCHANGED <<product, orders, receipts, balance, remote, urls, acks>>

\* The TTL index of the nonce store.
ExpireNonce(n) ==
    /\ n \in nonces
    /\ nonces' = nonces \ {n}
    /\ UNCHANGED <<product, orders, receipts, balance, remote, call, urls,
                   acks>>

\* The search, and once more after the grace period.
FindOrder(c) ==
    /\ call[c].at \in CallbackPlaces
    /\ \/ \E id \in Bound(call[c].ref) :
             call' = [call EXCEPT ![c].at = "settle", ![c].id = id]
       \/ /\ Bound(call[c].ref) = {}
          /\ call[c].at = "find"
          /\ Goto(c, "findAgain")
       \/ /\ Bound(call[c].ref) = {}
          /\ call[c].at = "findAgain"                     \* ErrPaymentOrderNotFound
          /\ Answer(c)
    /\ UNCHANGED <<product, orders, receipts, balance, nonces, remote, urls,
                   acks>>
----------------------------------------------------------------------------
(* Purchases in an app store: SettleVerifiedStorePurchase                  *)

VerifyPurchase(c, u, t) ==
    /\ call[c] = Idle
    /\ Cardinality(WithTxn(t)) <= MaxTxns
    /\ call' = [call EXCEPT ![c] = [Idle EXCEPT
                   !.at = "storeFreeze", !.user = u, !.ref = t, !.txn = t,
                   !.amount = LatestPublished]]
    /\ UNCHANGED <<product, orders, receipts, balance, nonces, remote, urls,
                   acks>>

FreezeStoreOrder(c) ==
    /\ call[c].at = "storeFreeze"
    /\ \/ /\ Bound(call[c].ref) = {}
          /\ \E id \in Tickets :
                /\ orders[id] = NoOrder
                /\ orders' = [orders EXCEPT ![id] =
                      Frozen(call[c].user, call[c].ref, call[c].amount)]
                /\ call' = [call EXCEPT ![c].at = "settle", ![c].id = id]
       \/ /\ Bound(call[c].ref) # {}           \* ErrPaymentOrderAlreadyExists
          /\ Goto(c, "storeLookup")
          /\ UNCHANGED orders
    /\ UNCHANGED <<product, receipts, balance, nonces, remote, urls, acks>>

LookupStoreOrder(c) ==
    /\ call[c].at = "storeLookup"
    /\ \E id \in Bound(call[c].ref) :
          IF orders[id].user = call[c].user
          THEN call' = [call EXCEPT ![c].at = "settle", ![c].id = id]
          ELSE Answer(c)                       \* ErrPaymentOrderMismatch
    /\ UNCHANGED <<product, orders, receipts, balance, nonces, remote, urls,
                   acks>>
----------------------------------------------------------------------------
(* Settlement: SettleVerifiedOrder                                         *)

\* What the settlement of this call would record.
Fact(c) == [order |-> call[c].id, user |-> orders[call[c].id].user,
            amount |-> orders[call[c].id].amount]

\* Mistaken variant: the number is compared with the one frozen at creation.
MatchesAsFrozen(c) ==
    orders[call[c].id].user = call[c].user /\ orders[call[c].id].ref = Local

Matches(c) ==
    LET order == orders[call[c].id] IN
    order.user = call[c].user /\ order.ref = call[c].ref

\* Mistaken variant: whatever is confirmed on a paid order is a replay.
ReplayedIfPaid(c) == orders[call[c].id].status = "paid"

\* The receipt is there and says the same: a replay, answered with success.
Replayed(c) ==
    orders[call[c].id].status = "paid" /\ receipts[call[c].txn] = Fact(c)

\* Mistaken variant: only the receipt is looked at.
UnsettledByReceipt(c) == receipts[call[c].txn] = NoReceipt

\* Nothing is there yet.
Unsettled(c) ==
    orders[call[c].id].status = "pending" /\ receipts[call[c].txn] = NoReceipt

\* The reads of the transaction.
ReadSettlement(c) ==
    /\ call[c].at = "settle"
    /\ \/ /\ Matches(c) /\ Unsettled(c)
          /\ Goto(c, "commit")
          /\ UNCHANGED acks
       \/ /\ Matches(c) /\ Replayed(c)
          /\ Answer(c)
          /\ Acked(c)
       \/ /\ ~(Matches(c) /\ (Unsettled(c) \/ Replayed(c)))
          /\ Answer(c)                         \* mismatch, conflict, inconsistent
          /\ UNCHANGED acks
    /\ UNCHANGED <<product, orders, receipts, balance, nonces, remote, urls>>

\* MarkOrderPaid, CreateReceipt, CreditDiamonds and AppendPaymentCredit.
CommitSettlement(c) ==
    /\ call[c].at = "commit"
    /\ Unsettled(c)
    /\ orders' = [orders EXCEPT ![call[c].id].status = "paid"]
    /\ receipts' = [receipts EXCEPT ![call[c].txn] = Fact(c)]
    /\ balance' = [balance EXCEPT ![Fact(c).user] = @ + Fact(c).amount]
    /\ Acked(c)
    /\ Answer(c)
    /\ UNCHANGED <<product, nonces, remote, urls>>

\* Another settlement committed first: a write conflict sends the callback
\* around again, a duplicate receipt to the look-up outside the transaction.
SettlementConflict(c) ==
    /\ call[c].at = "commit"
    /\ ~Unsettled(c)
    /\ \/ Goto(c, "settle")
       \/ receipts[call[c].txn] # NoReceipt /\ Goto(c, "resolve")
    /\ UNCHANGED <<product, orders, receipts, balance, nonces, remote, urls,
                   acks>>

\* resolveVerifiedOrderSettlement
ResolveSettlement(c) ==
    /\ call[c].at = "resolve"
    /\ IF Matches(c) /\ Replayed(c) THEN Acked(c) ELSE UNCHANGED acks
    /\ Answer(c)
    /\ UNCHANGED <<product, orders, receipts, balance, nonces, remote, urls>>
----------------------------------------------------------------------------
\* A crash, a lost connection or an error of the database.
Fail(c) ==
    /\ call[c] # Idle
    /\ Answer(c)
    /\ UNCHANGED <<product, orders, receipts, balance, nonces, remote, urls,
                   acks>>

\* Bound: the random identifiers of the instance are used up.
NoTicketLeft(c) ==
    /\ \/ call[c].at = "freeze" /\ call[c].id = NoId
       \/ call[c].at = "storeFreeze" /\ Bound(call[c].ref) = {}
    /\ \A id \in Tickets : orders[id] # NoOrder
    /\ Answer(c)
    /\ UNCHANGED <<product, orders, receipts, balance, nonces, remote, urls,
                   acks>>

\* A new version of the product, imported from outside.
PublishVersion ==
    /\ product < MaxVersion
    /\ product' = product + 1
    /\ UNCHANGED <<orders, receipts, balance, nonces, remote, call, urls, acks>>

Progress(c) ==
    \/ FreezeOrder(c) \/ FreezeDuplicate(c) \/ LookupOrder(c)
    \/ (\E r \in Refs : RequestOrder(c, r)) \/ RequestRefused(c)
    \/ BindOrder(c) \/ Converge(c)
    \/ FindOrder(c) \/ FreezeStoreOrder(c) \/ LookupStoreOrder(c)
    \/ ReadSettlement(c) \/ CommitSettlement(c) \/ SettlementConflict(c)
    \/ ResolveSettlement(c) \/ NoTicketLeft(c)

Calm ==
    \/ \E c \in Calls :
          \/ Progress(c)
          \/ \E u \in Users, k \in Keys \cup {NoKey} : Checkout(c, u, k)
          \/ \E r \in Refs, t \in PayCoresTxns, n \in Nonces : Confirm(c, r, t, n)
          \/ \E u \in Users, t \in StoreTxns : VerifyPurchase(c, u, t)
    \/ \E r \in Refs, t \in PayCoresTxns : Pay(r, t)
    \/ \E n \in Nonces : ExpireNonce(n)
    \/ PublishVersion

Next == Calm \/ \E c \in Calls : Fail(c)

Spec == Init /\ [][Next]_vars
----------------------------------------------------------------------------
\* A request runs to its end, PayCores repeats a confirmation with nonces of
\* its own until it is heard, and the TTL index forgets old nonces.  Calls are
\* cut off any number of times, but not for ever.
Fairness ==
    /\ \A c \in Calls : WF_vars(Progress(c))
    /\ \A r \in Refs : SF_vars(\E c \in Calls, t \in PayCoresTxns, n \in Nonces :
                                Confirm(c, r, t, n))
    /\ \A n \in Nonces : WF_vars(ExpireNonce(n))
    /\ <>[][Calm]_vars

FairSpec == Spec /\ Fairness
----------------------------------------------------------------------------
ReceiptsOf(id) == {t \in Txns : receipts[t].order = id}

PaidOn(t, ref) == IF ref \in Refs THEN t \in remote[ref].paid ELSE t = ref

CreditedFor(id) ==
    IF orders[id].status = "paid"
    THEN \E t \in Txns :
            /\ ReceiptsOf(id) = {t}
            /\ receipts[t].user = orders[id].user
            /\ receipts[t].amount = orders[id].amount
            /\ PaidOn(t, orders[id].ref)
    ELSE ReceiptsOf(id) = {}

\* An order is paid exactly when one receipt names it, for the order's own
\* user and amount and for a transaction that was paid on the number it is
\* bound to - over redelivered confirmations, nonces the store has forgotten,
\* a second payment on the same order, store purchases two users present, and
\* settlements that race (payments/service.go, data/payment_repository.go).
CreditedOnce == \A id \in Ids : CreditedFor(id)

\* A balance is the sum of the amounts frozen in the user's paid orders, each
\* taken once, whatever was confirmed how often (CreditDiamonds).
BalanceOfPaidOrders ==
    \A u \in Users :
        balance[u] = MapThenSumSet(LAMBDA id : orders[id].amount,
                        {id \in Ids : orders[id].user = u /\ orders[id].status = "paid"})

\* A checkout URL is only ever returned for the number its order is bound to,
\* and what PayCores charges for is what the order will credit - over
\* repeated and concurrent requests with one key, versions published between
\* them, and a PayCores that answers a repetition with a new number
\* (payments/checkout.go).
UrlsAgree ==
    \A url \in urls :
        LET order == orders[url[1]]
            there == remote[url[2]]
        IN /\ order.ref = url[2]
           /\ there.request = url[1]
           /\ there.user = order.user
           /\ there.amount = order.amount

\* Success is answered only for money that is on the account of the user it
\* is answered to, also when it was another request that put it there
\* (resolveVerifiedOrderSettlement and the replay branch).
AcksTruthful ==
    \A ack \in acks : receipts[ack[2]].user = ack[1]

\* An order keeps what it froze, is bound once and paid once, and a receipt is
\* never changed (FreezeOrder, BindPayCoresProviderOrder, MarkOrderPaid).
OrdersFrozen ==
    [][/\ \A id \in Ids : orders[id] # NoOrder =>
             /\ orders'[id].user = orders[id].user
             /\ orders'[id].amount = orders[id].amount
             /\ orders[id].ref # Local => orders'[id].ref = orders[id].ref
             /\ orders[id].status = "paid" => orders'[id].status = "paid"
       /\ \A t \in Txns : receipts[t] # NoReceipt => receipts'[t] = receipts[t]]_vars

\* However a request is repeated, its checkouts converge on one order that
\* stays what it was when its URL was handed out.
CheckoutsConverge == OrdersFrozen /\ []UrlsAgree

----------------------------------------------------------------------------
(* The inductive invariant behind them.                                    *)

\* An order of a request key is its user's, and is no store purchase.
KeyOrdersMeant ==
    \A u \in Users, k \in Keys : orders[<<u, k>>] # NoOrder =>
        orders[<<u, k>>].user = u /\ orders[<<u, k>>].ref \in {Local} \cup Refs

\* PayCores holds what the order of the request froze.
RemoteMeant ==
    \A r \in Refs : remote[r] # NoRemote =>
        LET order == orders[remote[r].request]
        IN  /\ order # NoOrder
            /\ order.user = remote[r].user
            /\ order.amount = remote[r].amount

\* What a request may rely on at each place.
CallMeant(c) ==
    LET id == call[c].id
        ref == call[c].ref
    IN  /\ call[c].at # "idle" => call[c].user \in Users
        /\ call[c].at \in {"freeze"} \cup StorePlaces => call[c].amount \in 1 .. MaxVersion
        /\ call[c].at = "freeze" => id \in {NoId} \cup ({call[c].user} \X Keys)
        /\ call[c].at = "lookup" => id \in {call[c].user} \X Keys
        /\ call[c].at \in {"lookup", "request", "bind", "converge"} \cup SettlePlaces =>
              id \in Ids /\ orders[id] # NoOrder
        /\ call[c].at \in {"request", "bind", "converge"} =>
              orders[id].user = call[c].user /\ orders[id].amount = call[c].amount
        /\ call[c].at = "request" => ref = Local \/ (ref \in Refs /\ orders[id].ref = ref)
        /\ call[c].at \in {"bind", "converge"} => ref \in Refs /\ remote[ref].request = id
        /\ call[c].at \in CallbackPlaces => ref \in Refs
        /\ call[c].at \in StorePlaces => ref \in StoreTxns
        /\ call[c].at \in CallbackPlaces \cup StorePlaces \cup SettlePlaces =>
              call[c].txn \in Txns /\ PaidOn(call[c].txn, ref)
        /\ call[c].at \in SettlePlaces =>
              ref \in Refs \cup StoreTxns /\ orders[id].ref = ref
        /\ call[c].at \in {"commit", "resolve"} => orders[id].user = call[c].user

CallsMeant == \A c \in Calls : CallMeant(c)

IInv == TypeOK /\ KeyOrdersMeant /\ RemoteMeant /\ CallsMeant
           /\ CreditedOnce /\ UrlsAgree /\ AcksTruthful
----------------------------------------------------------------------------
\* A payment on an order that gets bound is credited, even when every
\* confirmation before the binding used up its nonce in vain
\* (ConfirmedCallbackUsecase.Handle).
PaidIsCredited ==
    \A r \in Refs :
        (remote[r].paid # {} /\ Bound(r) # {})
            ~> (\E id \in Bound(r) : orders[id].status = "paid")
=============================================================================
