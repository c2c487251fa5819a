------------------------------ MODULE PayCores ------------------------------
(***************************************************************************)
(* The wire between this program and PayCores: the client that creates an  *)
(* order there (integrations/paycores/client.go), the verified envelope of *)
(* a confirmation and the gate its nonce passes (callback.go,              *)
(* transport/paymentcallback, biz/payments/callback.go), and what a buyer  *)
(* is told of his order meanwhile (biz/payments/read.go,                   *)
(* transport/localpayment).  The orders, receipts and the balance behind   *)
(* the wire are in Payments; here an order is its status and its binding.  *)
(***************************************************************************)
EXTENDS Naturals, Integers, FiniteSets

CONSTANTS
    Orders,          \* local orders, one per request of a buyer
    Buyers,
    Owner,           \* the buyer of each order
    Shapes,          \* how a delivery may be built: method, path, headers, body
    Discounted,      \* whether PayCores may take another amount than was asked
    Skews,           \* the clock of PayCores less ours
    CallbackWindow,  \* callbackTimestampWindow
    MaxNow,          \* bound: the last time
    MaxOrderSends,   \* bound: requests sent to PayCores
    MaxEnvelopes     \* bound: envelopes PayCores sends

ASSUME PayCoresAssumption ==
    MaxNow \in Nat /\ MaxEnvelopes \in Nat /\ CallbackWindow \in Nat /\ Skews \subseteq Int

VARIABLES
    now,
    orders,    \* payment_orders: status, and the provider order it names
    remote,    \* the orders PayCores holds, keyed by clientRequestId
    checkout,  \* a CreateOrder in flight, or none
    nonces,    \* nonces of our sends, seen by PayCores or not
    told,      \* the answer to the buyer's checkout
    mail,      \* envelopes PayCores has sent; any may arrive, again too
    consumed,  \* payment_callback_nonces
    handling,  \* callbacks past the gate
    passed,    \* history: which envelope passed the gate, and when
    acked,     \* envelopes answered 200
    looking,   \* an OrderStatus that has read its order, or none
    shown      \* what buyers were told of their orders

paycoresVars == <<now, orders, remote, checkout, nonces, told, mail, consumed, handling,
                  passed, acked, looking, shown>>
-----------------------------------------------------------------------------
None == [order |-> "none"]

PayCoresTypeOK ==
    /\ now \in 0..MaxNow
    /\ orders \in [Orders -> [status : {"none", "pending", "paid"}, bound : {"local", "remote"}]]
    /\ remote \in [Orders -> {"none", "open", "paid", "paid less"}]
    /\ checkout = None \/ checkout \in [order : Orders, nonce : Nat, sends : 1..2]
    /\ nonces \subseteq Nat
    /\ told \in [Orders -> {"nothing", "checkout", "local only", "unavailable"}]
    /\ \A m \in mail : m.nonce \in 1..MaxEnvelopes /\ m.order \in Orders
    /\ \A n \in consumed : n.nonce \in 1..MaxEnvelopes /\ n.expires \in 0..(MaxNow + 2 * CallbackWindow)
    /\ \A h \in handling : h.envelope \in mail /\ h.looks \in 1..2
    /\ acked \subseteq mail
    /\ looking = None \/ looking.order \in Orders

PayCoresInit ==
    /\ now = 0
    /\ orders = [o \in Orders |-> [status |-> "none", bound |-> "local"]]
    /\ remote = [o \in Orders |-> "none"]
    /\ checkout = None /\ nonces = {} /\ told = [o \in Orders |-> "nothing"]
    /\ mail = {} /\ consumed = {} /\ handling = {} /\ passed = {} /\ acked = {}
    /\ looking = None /\ shown = {}
-----------------------------------------------------------------------------
(* Creating an order at PayCores.                                           *)

\* The nonce of a send: one that was never used.
FreshNonce(used) == Cardinality(used) + 1

Froze(o) == [orders EXCEPT ![o].status = IF @ = "none" THEN "pending" ELSE @]

\* In a gateway that was given no PayCores client a checkout stops at the
\* local order.
LocalCheckout(o) ==
    /\ told[o] # "checkout"
    /\ orders' = Froze(o)
    /\ told' = [told EXCEPT ![o] = "local only"]
    /\ UNCHANGED <<now, remote, checkout, nonces, mail, consumed, handling,
                  passed, acked, looking, shown>>

\* With one the frozen order is sent; a repetition of the request sends it
\* again under the same key.
Checkout(o) ==
    /\ checkout = None /\ told[o] # "checkout" /\ Cardinality(nonces) < MaxOrderSends
    /\ orders' = Froze(o)
    /\ checkout' = [order |-> o, nonce |-> FreshNonce(nonces), sends |-> 1]
    /\ UNCHANGED <<now, remote, nonces, told, mail, consumed, handling,
                  passed, acked, looking, shown>>

\* PayCores holds one order per key, and takes no nonce twice.
TakenByPayCores ==
    /\ nonces' = nonces \cup {checkout.nonce}
    /\ IF checkout.nonce \in nonces
       THEN UNCHANGED remote
       ELSE remote' = [remote EXCEPT ![checkout.order] = IF @ = "none" THEN "open" ELSE @]

\* Neither a lost request nor a lost answer is known: both are sent once more,
\* unless the deadline has passed.
Resent ==
    IF checkout.sends = 1
    THEN \/ checkout' = [checkout EXCEPT !.sends = 2, !.nonce = FreshNonce(nonces')] /\ UNCHANGED told
         \/ checkout' = None /\ told' = [told EXCEPT ![checkout.order] = "unavailable"]
    ELSE checkout' = None /\ told' = [told EXCEPT ![checkout.order] = "unavailable"]

RequestLost ==
    /\ checkout # None
    /\ nonces' = nonces \cup {checkout.nonce} /\ UNCHANGED remote
    /\ Resent
    /\ UNCHANGED <<now, orders, mail, consumed, handling, passed, acked,
                  looking, shown>>

AnswerLost ==
    /\ checkout # None
    /\ TakenByPayCores /\ Resent
    /\ UNCHANGED <<now, orders, mail, consumed, handling, passed, acked,
                  looking, shown>>

\* A usable answer binds the order; one that is too long, malformed, not a
\* success, or without an order ends the checkout whatever PayCores holds.
Answered ==
    /\ checkout # None
    /\ TakenByPayCores /\ checkout' = None
    /\ \/ /\ remote'[checkout.order] # "none" /\ checkout.nonce \notin nonces
          /\ orders' = [orders EXCEPT ![checkout.order].bound = "remote"]
          /\ told' = [told EXCEPT ![checkout.order] = "checkout"]
       \/ /\ told' = [told EXCEPT ![checkout.order] = "unavailable"]
          /\ UNCHANGED orders
    /\ UNCHANGED <<now, mail, consumed, handling, passed, acked, looking,
                  shown>>

\* The buyer pays on the pages of PayCores.
Pay(o) ==
    /\ remote[o] = "open"
    /\ remote' \in {[remote EXCEPT ![o] = s] : s \in IF Discounted THEN {"paid", "paid less"} ELSE {"paid"}}
    /\ UNCHANGED <<now, orders, checkout, nonces, told, mail, consumed,
                  handling, passed, acked, looking, shown>>
-----------------------------------------------------------------------------
(* A confirmation.                                                          *)

\* PayCores signs a confirmation anew for every delivery of its own.
Notify(o) ==
    /\ remote[o] \in {"paid", "paid less"} /\ Cardinality(mail) < MaxEnvelopes
    /\ \E skew \in Skews :
          /\ now + skew >= 0
          /\ mail' = mail \cup {[nonce |-> Cardinality(mail) + 1, order |-> o, at |-> now + skew]}
    /\ UNCHANGED <<now, orders, remote, checkout, nonces, told, consumed,
                  handling, passed, acked, looking, shown>>

\* The two paths a confirmation may come on.
KnownPath(path) == path \in {"payment-confirmed", "v1/payment-confirmed"}

\* freshTimestamp: no further from the clock than the window, either way.
FreshTimestamp(at) == at - now \in (-CallbackWindow)..CallbackWindow

\* Each header once, and without padding.
HeadersRead(headers) == \A h \in {"timestamp", "nonce", "signature"} : headers[h] = "once"

\* The three fields, once each, and no other; every value a text that is not
\* blank or padded, and that has no half of a surrogate pair.
BodyRead(body) ==
    /\ DOMAIN body = {"orderId", "userId", "providerTxnId"}
    /\ \A f \in DOMAIN body : body[f] = "text"

\* The signature is over the fields as Node would write them: another spelling
\* of the same fields verifies, another order of them does not.
Signed(s) == s.signed = s.fields

\* What the handler lets to the gate: a POST on a known path without a query,
\* a body that is not too large, and an envelope in which all is well.
EnvelopeVerified(e, s) ==
    /\ s.method = "POST" /\ KnownPath(s.path) /\ ~s.query /\ ~s.large
    /\ HeadersRead(s.headers) /\ FreshTimestamp(e.at) /\ BodyRead(s.body) /\ Signed(s)

\* The nonce is kept for twice the window.
NonceExpiry == now + 2 * CallbackWindow

\* The gate: the nonce is consumed first, and stays so whatever comes after.
\* The nonces of both paths are in one collection.
Pass(e, s) ==
    /\ EnvelopeVerified(e, s) /\ \A n \in consumed : n.nonce # e.nonce
    /\ consumed' = consumed \cup {[nonce |-> e.nonce, expires |-> NonceExpiry]}
    /\ handling' = handling \cup {[envelope |-> e, looks |-> 1]}
    /\ passed' = passed \cup {[envelope |-> e, at |-> now]}
    /\ UNCHANGED <<now, orders, remote, checkout, nonces, told, mail, acked,
                  looking, shown>>

\* An order not yet bound is looked for once more, after a moment in which the
\* answer to its creation may come in.
LookAgain(h) ==
    /\ h.looks = 1 /\ orders[h.envelope.order].bound = "local"
    /\ handling' = (handling \ {h}) \cup {[h EXCEPT !.looks = 2]}
    /\ UNCHANGED <<now, orders, remote, checkout, nonces, told, mail, consumed,
                  passed, acked, looking, shown>>

\* It is settled (Payments) and acknowledged.
SettleConfirmed(h) ==
    /\ orders[h.envelope.order].bound = "remote"
    /\ handling' = handling \ {h}
    /\ orders' = [orders EXCEPT ![h.envelope.order].status = "paid"]
    /\ acked' = acked \cup {h.envelope}
    /\ UNCHANGED <<now, remote, checkout, nonces, told, mail, consumed, passed,
                  looking, shown>>

\* The order is not found the second time, or a repository fails: 500, and
\* PayCores has to deliver with another nonce.
FailCallback(h) ==
    /\ handling' = handling \ {h}
    /\ UNCHANGED <<now, orders, remote, checkout, nonces, told, mail, consumed,
                  passed, acked, looking, shown>>

\* The TTL index removes a nonce at its expiry, or later.
Forget(n) ==
    /\ n.expires <= now
    /\ consumed' = consumed \ {n}
    /\ UNCHANGED <<now, orders, remote, checkout, nonces, told, mail, handling,
                  passed, acked, looking, shown>>

TimePasses ==
    /\ now < MaxNow /\ now' = now + 1
    /\ UNCHANGED <<orders, remote, checkout, nonces, told, mail, consumed,
                  handling, passed, acked, looking, shown>>
-----------------------------------------------------------------------------
(* What the buyer is told.                                                  *)

Show(u, o, received, ready) ==
    shown' = shown \cup {[user |-> u, order |-> o, received |-> received, ready |-> ready]}

\* A paid order needs no question, and one that PayCores was never asked for
\* has no answer there.
AsksPayCores(order) == order.status = "pending" /\ order.bound = "remote"

\* Another's order is not found.
Look(u, o) ==
    /\ looking = None /\ orders[o].status # "none" /\ Owner[o] = u
    /\ IF AsksPayCores(orders[o])
       THEN looking' = [order |-> o, user |-> u] /\ UNCHANGED shown
       ELSE Show(u, o, orders[o].status = "paid", orders[o].status = "paid") /\ UNCHANGED looking
    /\ UNCHANGED <<now, orders, remote, checkout, nonces, told, mail, consumed,
                  handling, passed, acked>>

\* The answer of PayCores counts when it is of that order, product and amount.
Received(status) == status = "paid"

\* PayCores answers, or no answer comes in two seconds.  The order read before
\* is what is shown.
TellBuyer ==
    /\ looking # None /\ looking' = None
    /\ \/ Show(looking.user, looking.order, Received(remote[looking.order]), FALSE)
       \/ Show(looking.user, looking.order, FALSE, FALSE)
    /\ UNCHANGED <<now, orders, remote, checkout, nonces, told, mail, consumed,
                  handling, passed, acked>>
-----------------------------------------------------------------------------
PayCoresNext ==
    \/ \E o \in Orders : LocalCheckout(o) \/ Checkout(o) \/ Pay(o) \/ Notify(o)
    \/ RequestLost
    \/ AnswerLost
    \/ Answered
    \/ \E e \in mail, s \in Shapes : Pass(e, s)
    \/ \E h \in handling : LookAgain(h) \/ SettleConfirmed(h) \/ FailCallback(h)
    \/ \E n \in consumed : Forget(n)
    \/ \E u \in Buyers, o \in Orders : Look(u, o)
    \/ TellBuyer
    \/ TimePasses

PayCoresSpec == PayCoresInit /\ [][PayCoresNext]_paycoresVars
-----------------------------------------------------------------------------
\* An envelope passes the gate twice at most at the very instant its window
\* ends: a timestamp one window ahead is fresh until the nonce expires, and
\* the index may remove it then (callback.go: freshTimestamp against
\* paymentCallbackNonceTTL).
ReplayOnlyAtTheEdge ==
    \A p, q \in passed :
        p.envelope = q.envelope /\ p.at < q.at
        => p.at = q.at - 2 * CallbackWindow /\ q.at = p.envelope.at + CallbackWindow

\* No send of ours is one PayCores has seen: a repetition of a lost send is
\* taken as a request, not as a replay (client.go: CreateOrder).
SendsAreNew == checkout # None => checkout.nonce \notin nonces

\* What was acknowledged is settled, what is settled was paid there, and a
\* checkout told to the buyer is an order PayCores holds and his names.
AckedIsSettled ==
    /\ \A e \in acked : orders[e.order].status = "paid"
    /\ \A o \in Orders :
          /\ orders[o].status = "paid" => remote[o] \in {"paid", "paid less"} /\ orders[o].bound = "remote"
          /\ told[o] = "checkout" => remote[o] # "none" /\ orders[o].bound = "remote"
          /\ orders[o].bound = "remote" => remote[o] # "none"

\* A buyer who is told his payment was received paid the amount of his order,
\* or was credited; he is told it is credited only when it is
\* (read.go: OrderStatus).
ShownIsTrue ==
    \A s \in shown :
        /\ s.ready => orders[s.order].status = "paid"
        /\ s.received => remote[s.order] = "paid" \/ orders[s.order].status = "paid"
        /\ s.user = Owner[s.order]

PayCoresSafe == ReplayOnlyAtTheEdge /\ SendsAreNew /\ AckedIsSettled /\ ShownIsTrue
=============================================================================
