--------------------------- MODULE PaymentsProofs ---------------------------
(***************************************************************************)
(* Proofs about Payments, for any users, request keys, order numbers,      *)
(* transactions and requests in progress.                                  *)
(***************************************************************************)
EXTENDS Payments, Totals, TLAPS

\* The markers are none of the values they stand in for.
LEMMA Markers ==
    ASSUME PaymentsAssumption
    PROVE  /\ NoOrder.status = "none" /\ NoOrder.ref = NoRef /\ NoOrder.user \notin Users
           /\ NoReceipt.order \notin Ids
           /\ NoRemote.request \notin Ids /\ NoRemote.paid = {} /\ NoRemote.user \notin Users
           /\ Idle \in Call /\ Idle.at = "idle"
<1>1. Idle \in Call /\ Idle.at = "idle"
  <2>1. "idle" \in Places /\ 0 \in 0 .. MaxVersion
    BY DEF Places, PaymentsAssumption
  <2>2. QED
    BY <2>1 DEF Idle, Call
<1>2. QED
  BY <1>1 DEF NoOrder, NoReceipt, NoRemote, PaymentsAssumption

\* A request and what it writes of itself.
LEMMA CallFields ==
    ASSUME PaymentsAssumption, TypeOK, NEW c \in Calls
    PROVE  /\ call[c] \in Call
           /\ call[c].at \in Places
           /\ call[c].user \in Users \cup {NoUser}
           /\ call[c].id \in Ids \cup {NoId}
           /\ call[c].ref \in {Local, NoRef} \cup Refs \cup StoreTxns
           /\ call[c].txn \in Txns \cup {NoTxn}
           /\ call[c].amount \in 0 .. MaxVersion
  BY DEF TypeOK, Call

\* Every way a request writes of itself keeps its type.
LEMMA CallWrites ==
    ASSUME PaymentsAssumption, TypeOK, NEW c \in Calls
    PROVE  /\ Answer(c) => call' \in [Calls -> Call]
           /\ \A place \in Places : Goto(c, place) => call' \in [Calls -> Call]
           /\ \A place \in Places, id \in Ids :
                call' = [call EXCEPT ![c].at = place, ![c].id = id] => call' \in [Calls -> Call]
<1>1. Answer(c) => call' \in [Calls -> Call]
  BY Markers DEF Answer, TypeOK
<1>2. ASSUME NEW place \in Places, Goto(c, place)
      PROVE  call' \in [Calls -> Call]
  <2>1. [call[c] EXCEPT !.at = place] \in Call
    BY CallFields DEF Call
  <2>2. QED
    BY <1>2, <2>1 DEF Goto, TypeOK
<1>3. ASSUME NEW place \in Places, NEW id \in Ids,
             call' = [call EXCEPT ![c].at = place, ![c].id = id]
      PROVE  call' \in [Calls -> Call]
  <2>1. [call[c] EXCEPT !.at = place, !.id = id] \in Call
    BY CallFields DEF Call
  <2>2. QED
    BY <1>3, <2>1 DEF TypeOK
<1>4. QED
  BY <1>1, <1>2, <1>3

\* An order that exists, and when it does.
LEMMA OrderFields ==
    ASSUME PaymentsAssumption, TypeOK, NEW id \in Ids
    PROVE  /\ orders[id] # NoOrder =>
                /\ orders[id] \in Order
                /\ orders[id].user \in Users
                /\ orders[id].ref \in {Local} \cup Refs \cup StoreTxns
                /\ orders[id].amount \in 1 .. MaxVersion
                /\ orders[id].status \in {"pending", "paid"}
           /\ orders[id].status \in {"pending", "paid"} => orders[id] # NoOrder
           /\ orders[id].ref # NoRef => orders[id] # NoOrder
<1>1. orders[id] \in Order \cup {NoOrder}
  BY DEF TypeOK
<1>2. QED
  BY <1>1, Markers DEF Order

\* What PayCores holds, and when it does.
LEMMA RemoteFields ==
    ASSUME PaymentsAssumption, TypeOK, NEW r \in Refs
    PROVE  /\ remote[r].request \in Ids => remote[r] # NoRemote
           /\ remote[r].paid # {} => remote[r] # NoRemote
           /\ remote[r] # NoRemote =>
                /\ remote[r] \in Remote
                /\ remote[r].request \in Ids
                /\ remote[r].user \in Users
                /\ remote[r].paid \subseteq PayCoresTxns
<1>1. remote[r] \in Remote \cup {NoRemote}
  BY DEF TypeOK
<1>2. QED
  BY <1>1, Markers DEF Remote

\* What is frozen is an order.
LEMMA FrozenType ==
    ASSUME NEW u \in Users, NEW ref \in {Local} \cup StoreTxns, NEW amount \in 1 .. MaxVersion
    PROVE  Frozen(u, ref, amount) \in Order
  BY DEF Frozen, Order
----------------------------------------------------------------------------
(* Every step keeps the types.                                             *)

\* The initial state is well-formed.
LEMMA TypeInit ==
    ASSUME PaymentsAssumption, Init
    PROVE  TypeOK
<1>1. 1 \in 1 .. MaxVersion
  BY DEF PaymentsAssumption
<1>2. QED
  BY <1>1, Markers DEF Init, TypeOK

\* A step keeps every type, as long as requests hold what CallMeant says.
LEMMA TypeStep ==
    ASSUME PaymentsAssumption, TypeOK, CallsMeant, [Next]_vars
    PROVE  TypeOK'
<1>0. CASE UNCHANGED vars
  BY <1>0 DEF TypeOK, vars
<1>1. ASSUME NEW c \in Calls, NEW u \in Users, NEW k \in Keys \cup {NoKey}, Checkout(c, u, k)
      PROVE  TypeOK'
  <2>1. [Idle EXCEPT !.at = "freeze", !.user = u, !.amount = LatestPublished,
                     !.id = IF k = NoKey THEN NoId ELSE <<u, k>>] \in Call
    <3> DEFINE id == IF k = NoKey THEN NoId ELSE <<u, k>>
    <3>1. /\ id \in Ids \cup {NoId}
          /\ LatestPublished \in 0 .. MaxVersion
          /\ "freeze" \in Places
      BY DEF Ids, LatestPublished, TypeOK, PaymentsAssumption, Places, CheckoutPlaces
    <3> HIDE DEF id
    <3>2. [Idle EXCEPT !.at = "freeze", !.user = u, !.amount = LatestPublished, !.id = id] \in Call
      BY <3>1, Markers DEF Call
    <3>3. QED
      BY <3>2 DEF id
  <2>2. QED
    BY <1>1, <2>1 DEF Checkout, TypeOK
<1>2. ASSUME NEW c \in Calls, FreezeOrder(c)
      PROVE  TypeOK'
  <2>1. PICK id \in IF call[c].id = NoId THEN Tickets ELSE {call[c].id} :
           /\ orders' = [orders EXCEPT ![id] = Frozen(call[c].user, Local, call[c].amount)]
           /\ call' = [call EXCEPT ![c].at = "request", ![c].id = id, ![c].ref = Local]
    BY <1>2 DEF FreezeOrder
  <2>2. id \in Ids
    BY <2>1, CallFields DEF Ids
  <2>3. call[c].user \in Users /\ call[c].amount \in 1 .. MaxVersion
    BY <1>2 DEF FreezeOrder, CallsMeant, CallMeant
  <2>4. [call[c] EXCEPT !.at = "request", !.id = id, !.ref = Local] \in Call
    BY <2>2, CallFields DEF Call, Places, CheckoutPlaces
  <2>5. orders' \in [Ids -> Order \cup {NoOrder}] /\ call' \in [Calls -> Call]
    BY <2>1, <2>2, <2>3, <2>4, FrozenType DEF TypeOK
  <2>6. QED
    BY <1>2, <2>5 DEF FreezeOrder, TypeOK
<1>3. ASSUME NEW c \in Calls, FreezeDuplicate(c) \/ SettlementConflict(c)
      PROVE  TypeOK'
  <2>1. PICK place \in Places : Goto(c, place)
    BY <1>3 DEF FreezeDuplicate, SettlementConflict, Places, CheckoutPlaces, SettlePlaces
  <2>2. call' \in [Calls -> Call]
    BY <2>1, CallWrites
  <2>3. QED
    BY <1>3, <2>2 DEF FreezeDuplicate, SettlementConflict, TypeOK
<1>4. ASSUME NEW c \in Calls, LookupOrder(c)
      PROVE  TypeOK'
  <2>1. call[c].id \in Ids /\ orders[call[c].id] \in Order
    BY <1>4, OrderFields DEF LookupOrder, CallsMeant, CallMeant
  <2> DEFINE found == orders[call[c].id]
  <2>2. found.ref \in {Local, NoRef} \cup Refs \cup StoreTxns /\ found.amount \in 0 .. MaxVersion
    BY <2>1 DEF Order, PaymentsAssumption
  <2>3. [call[c] EXCEPT !.at = "request", !.ref = found.ref, !.amount = found.amount] \in Call
    <3> HIDE DEF found
    <3>1. QED
      BY <2>2, CallFields DEF Call, Places, CheckoutPlaces
  <2>4. QED
    BY <1>4, <2>3 DEF LookupOrder, TypeOK
<1>5. ASSUME NEW c \in Calls, NEW r \in Refs, RequestOrder(c, r)
      PROVE  TypeOK'
  <2>1. /\ call[c].id \in Ids /\ call[c].user \in Users
        /\ call[c].amount \in 1 .. MaxVersion
    BY <1>5, OrderFields DEF RequestOrder, CallsMeant, CallMeant
  <2>2. [request |-> call[c].id, user |-> call[c].user,
         amount |-> call[c].amount, paid |-> {}] \in Remote
    BY <2>1 DEF Remote
  <2>3. remote' \in [Refs -> Remote \cup {NoRemote}]
    BY <1>5, <2>2 DEF RequestOrder, TypeOK
  <2>4. [call[c] EXCEPT !.at = "bind", !.ref = r] \in Call
    BY CallFields DEF Call, Places, CheckoutPlaces
  <2>5. Answer(c) \/ call' = [call EXCEPT ![c].at = "bind", ![c].ref = r]
    BY <1>5 DEF RequestOrder
  <2>6. call' \in [Calls -> Call]
    BY <2>4, <2>5, CallWrites DEF TypeOK
  <2>7. urls' = urls \/ urls' = urls \cup {<<call[c].id, r>>}
    BY <1>5 DEF RequestOrder
  <2>8. urls' \subseteq Ids \X Refs
    BY <2>1, <2>7 DEF TypeOK
  <2>9. QED
    BY <1>5, <2>3, <2>6, <2>8 DEF RequestOrder, TypeOK
<1>6. ASSUME NEW c \in Calls, RequestRefused(c) \/ NoTicketLeft(c)
      PROVE  TypeOK'
  <2>1. call' \in [Calls -> Call]
    BY <1>6, CallWrites DEF RequestRefused, NoTicketLeft
  <2>2. QED
    BY <1>6, <2>1 DEF RequestRefused, NoTicketLeft, TypeOK
<1>7. ASSUME NEW c \in Calls, BindOrder(c)
      PROVE  TypeOK'
  <2>1. call[c].id \in Ids /\ orders[call[c].id] \in Order /\ call[c].ref \in Refs
    BY <1>7, OrderFields DEF BindOrder, CallsMeant, CallMeant
  <2>2. [orders[call[c].id] EXCEPT !.ref = call[c].ref] \in Order
    BY <2>1 DEF Order
  <2>3. orders' \in [Ids -> Order \cup {NoOrder}]
    BY <1>7, <2>1, <2>2 DEF BindOrder, TypeOK
  <2>4. "converge" \in Places
    BY DEF Places, CheckoutPlaces
  <2>5. call' \in [Calls -> Call]
    BY <1>7, <2>4, CallWrites DEF BindOrder
  <2>6. urls' = urls \/ urls' = urls \cup {<<call[c].id, call[c].ref>>}
    BY <1>7 DEF BindOrder
  <2>7. urls' \subseteq Ids \X Refs
    BY <2>1, <2>6 DEF TypeOK
  <2>8. QED
    BY <1>7, <2>3, <2>5, <2>7 DEF BindOrder, TypeOK
<1>8. ASSUME NEW c \in Calls, Converge(c)
      PROVE  TypeOK'
  <2>1. call[c].id \in Ids /\ call[c].ref \in Refs
    BY <1>8 DEF Converge, CallsMeant, CallMeant
  <2>2. urls' \subseteq Ids \X Refs
    BY <1>8, <2>1 DEF Converge, TypeOK
  <2>3. call' \in [Calls -> Call]
    BY <1>8, CallWrites DEF Converge
  <2>4. QED
    BY <1>8, <2>2, <2>3 DEF Converge, TypeOK
<1>9. ASSUME NEW r \in Refs, NEW t \in PayCoresTxns, Pay(r, t)
      PROVE  TypeOK'
  <2>1. remote[r] \in Remote
    BY <1>9, RemoteFields DEF Pay
  <2>2. [remote[r] EXCEPT !.paid = @ \cup {t}] \in Remote
    BY <2>1 DEF Remote
  <2>3. QED
    BY <1>9, <2>2 DEF Pay, TypeOK
<1>10. ASSUME NEW c \in Calls, NEW r \in Refs, NEW t \in PayCoresTxns, NEW n \in Nonces,
              Confirm(c, r, t, n)
       PROVE  TypeOK'
  <2>1. remote[r].user \in Users
    BY <1>10, RemoteFields DEF Confirm
  <2>2. [Idle EXCEPT !.at = "find", !.user = remote[r].user, !.ref = r, !.txn = t] \in Call
    BY <2>1, Markers DEF Call, Places, CallbackPlaces, Txns
  <2>3. QED
    BY <1>10, <2>2 DEF Confirm, TypeOK
<1>11. ASSUME NEW n \in Nonces, ExpireNonce(n)
       PROVE  TypeOK'
  BY <1>11 DEF ExpireNonce, TypeOK
<1>12. ASSUME NEW c \in Calls, FindOrder(c)
       PROVE  TypeOK'
  <2>1. {"settle", "findAgain"} \subseteq Places /\ Bound(call[c].ref) \subseteq Ids
    BY DEF Places, SettlePlaces, CallbackPlaces, Bound
  <2>2. call' \in [Calls -> Call]
    BY <1>12, <2>1, CallWrites DEF FindOrder
  <2>3. QED
    BY <1>12, <2>2 DEF FindOrder, TypeOK
<1>13. ASSUME NEW c \in Calls, NEW u \in Users, NEW t \in StoreTxns, VerifyPurchase(c, u, t)
       PROVE  TypeOK'
  <2>1. [Idle EXCEPT !.at = "storeFreeze", !.user = u, !.ref = t, !.txn = t,
                     !.amount = LatestPublished] \in Call
    <3>1. LatestPublished \in 0 .. MaxVersion /\ "storeFreeze" \in Places /\ t \in Txns
      BY DEF LatestPublished, TypeOK, PaymentsAssumption, Places, StorePlaces, Txns
    <3>2. QED
      BY <3>1, Markers DEF Call
  <2>2. QED
    BY <1>13, <2>1 DEF VerifyPurchase, TypeOK
<1>14. ASSUME NEW c \in Calls, FreezeStoreOrder(c)
       PROVE  TypeOK'
  <2>1. /\ call[c].user \in Users /\ call[c].amount \in 1 .. MaxVersion
        /\ call[c].ref \in StoreTxns
    BY <1>14 DEF FreezeStoreOrder, CallsMeant, CallMeant, StorePlaces
  <2>2. Tickets \subseteq Ids /\ {"settle", "storeLookup"} \subseteq Places
    BY DEF Ids, Places, SettlePlaces, StorePlaces
  <2>3. Frozen(call[c].user, call[c].ref, call[c].amount) \in Order
    BY <2>1, FrozenType
  <2>4. orders' \in [Ids -> Order \cup {NoOrder}]
    BY <1>14, <2>2, <2>3 DEF FreezeStoreOrder, TypeOK
  <2>5. call' \in [Calls -> Call]
    BY <1>14, <2>2, CallWrites DEF FreezeStoreOrder
  <2>6. QED
    BY <1>14, <2>4, <2>5 DEF FreezeStoreOrder, TypeOK
<1>15. ASSUME NEW c \in Calls, LookupStoreOrder(c)
       PROVE  TypeOK'
  <2>1. "settle" \in Places /\ Bound(call[c].ref) \subseteq Ids
    BY DEF Places, SettlePlaces, Bound
  <2>2. call' \in [Calls -> Call]
    BY <1>15, <2>1, CallWrites DEF LookupStoreOrder
  <2>3. QED
    BY <1>15, <2>2 DEF LookupStoreOrder, TypeOK
<1>16. ASSUME NEW c \in Calls, ReadSettlement(c) \/ ResolveSettlement(c)
       PROVE  TypeOK'
  <2>1. "commit" \in Places
    BY DEF Places, SettlePlaces
  <2>2. call' \in [Calls -> Call]
    BY <1>16, <2>1, CallWrites DEF ReadSettlement, ResolveSettlement
  <2>3. call[c].user \in Users /\ call[c].txn \in Txns
    BY <1>16 DEF ReadSettlement, ResolveSettlement, CallsMeant, CallMeant, SettlePlaces
  <2>4. acks' = acks \/ Acked(c)
    BY <1>16 DEF ReadSettlement, ResolveSettlement
  <2>5. acks' \subseteq Users \X Txns
    BY <2>3, <2>4 DEF Acked, TypeOK
  <2>6. QED
    BY <1>16, <2>2, <2>5 DEF ReadSettlement, ResolveSettlement, TypeOK
<1>17. ASSUME NEW c \in Calls, CommitSettlement(c)
       PROVE  TypeOK'
  <2>1. /\ call[c].id \in Ids /\ orders[call[c].id] \in Order
        /\ call[c].user \in Users /\ call[c].txn \in Txns
    BY <1>17, OrderFields DEF CommitSettlement, CallsMeant, CallMeant, SettlePlaces
  <2>2. /\ Fact(c) \in Receipt /\ Fact(c).user \in Users
        /\ Fact(c).amount \in Nat
        /\ [orders[call[c].id] EXCEPT !.status = "paid"] \in Order
    BY <2>1, OrderFields DEF Fact, Receipt, Order, PaymentsAssumption
  <2>3. orders' \in [Ids -> Order \cup {NoOrder}]
    BY <1>17, <2>1, <2>2 DEF CommitSettlement, TypeOK
  <2>4. receipts' \in [Txns -> Receipt \cup {NoReceipt}]
    BY <1>17, <2>1, <2>2 DEF CommitSettlement, TypeOK
  <2>5. balance' \in [Users -> Nat]
    <3>1. balance' = [balance EXCEPT ![Fact(c).user] = @ + Fact(c).amount]
      BY <1>17 DEF CommitSettlement
    <3>2. balance[Fact(c).user] + Fact(c).amount \in Nat
      BY <2>2 DEF TypeOK
    <3>3. QED
      BY <2>2, <3>1, <3>2 DEF TypeOK
  <2>6. call' \in [Calls -> Call] /\ acks' \subseteq Users \X Txns
    BY <1>17, <2>1, CallWrites DEF CommitSettlement, Acked, TypeOK
  <2>7. QED
    BY <1>17, <2>3, <2>4, <2>5, <2>6 DEF CommitSettlement, TypeOK
<1>18. ASSUME NEW c \in Calls, Fail(c)
       PROVE  TypeOK'
  BY <1>18, CallWrites DEF Fail, TypeOK
<1>19. ASSUME PublishVersion
       PROVE  TypeOK'
  <2>1. product' \in 1 .. MaxVersion
    BY <1>19 DEF PublishVersion, TypeOK, PaymentsAssumption
  <2>2. QED
    BY <1>19, <2>1 DEF PublishVersion, TypeOK
<1>20. QED
  BY <1>0, <1>1, <1>2, <1>3, <1>4, <1>5, <1>6, <1>7, <1>8, <1>9, <1>10, <1>11, <1>12,
     <1>13, <1>14, <1>15, <1>16, <1>17, <1>18, <1>19
  DEF Next, Calm, Progress
----------------------------------------------------------------------------
(* What no step takes back.                                                *)

\* Who writes the orders, what PayCores holds, the receipts, the addresses and
\* the successes.
LEMMA Writers ==
    ASSUME [Next]_vars
    PROVE  /\ \/ UNCHANGED <<orders, receipts, balance>>
              \/ \E c \in Calls : FreezeOrder(c) \/ FreezeStoreOrder(c) \/ BindOrder(c) \/ CommitSettlement(c)
           /\ \/ UNCHANGED remote
              \/ \E c \in Calls, r \in Refs : RequestOrder(c, r)
              \/ \E r \in Refs, t \in PayCoresTxns : Pay(r, t)
           /\ UNCHANGED receipts \/ \E c \in Calls : CommitSettlement(c)
           /\ \/ UNCHANGED urls
              \/ \E c \in Calls : (\E r \in Refs : RequestOrder(c, r)) \/ BindOrder(c) \/ Converge(c)
           /\ \/ UNCHANGED acks
              \/ \E c \in Calls : ReadSettlement(c) \/ ResolveSettlement(c) \/ CommitSettlement(c)
<1>1. ASSUME NEW c \in Calls, FreezeOrder(c) \/ FreezeStoreOrder(c)
      PROVE  UNCHANGED <<remote, receipts, urls, acks>>
  BY <1>1 DEF FreezeOrder, FreezeStoreOrder
<1>2. ASSUME NEW c \in Calls, NEW r \in Refs, RequestOrder(c, r)
      PROVE  UNCHANGED <<orders, receipts, balance, acks>>
  BY <1>2 DEF RequestOrder
<1>3. ASSUME NEW c \in Calls, BindOrder(c)
      PROVE  UNCHANGED <<remote, receipts, acks>>
  BY <1>3 DEF BindOrder
<1>4. ASSUME NEW c \in Calls, Converge(c)
      PROVE  UNCHANGED <<orders, receipts, balance, remote, acks>>
  BY <1>4 DEF Converge
<1>5. ASSUME NEW c \in Calls, CommitSettlement(c)
      PROVE  UNCHANGED <<remote, urls>>
  BY <1>5 DEF CommitSettlement
<1>6. ASSUME NEW c \in Calls, ReadSettlement(c) \/ ResolveSettlement(c)
      PROVE  UNCHANGED <<orders, receipts, balance, remote, urls>>
  BY <1>6 DEF ReadSettlement, ResolveSettlement
<1>7. ASSUME NEW r \in Refs, NEW t \in PayCoresTxns, Pay(r, t)
      PROVE  UNCHANGED <<orders, receipts, balance, urls, acks>>
  BY <1>7 DEF Pay
<1>8. ASSUME NEW c \in Calls,
             \/ FreezeDuplicate(c) \/ LookupOrder(c) \/ RequestRefused(c) \/ FindOrder(c) \/ LookupStoreOrder(c)
             \/ SettlementConflict(c) \/ NoTicketLeft(c) \/ Fail(c)
             \/ \E u \in Users, k \in Keys \cup {NoKey} : Checkout(c, u, k)
             \/ \E r \in Refs, t \in PayCoresTxns, n \in Nonces : Confirm(c, r, t, n)
             \/ \E u \in Users, t \in StoreTxns : VerifyPurchase(c, u, t)
      PROVE  UNCHANGED <<orders, receipts, balance, remote, urls, acks>>
  <2>1. CASE FreezeDuplicate(c) \/ LookupOrder(c) \/ RequestRefused(c) \/ FindOrder(c) \/ LookupStoreOrder(c)
    BY <2>1 DEF FreezeDuplicate, LookupOrder, RequestRefused, FindOrder, LookupStoreOrder
  <2>2. CASE SettlementConflict(c) \/ NoTicketLeft(c) \/ Fail(c)
    BY <2>2 DEF SettlementConflict, NoTicketLeft, Fail
  <2>3. CASE \E u \in Users, k \in Keys \cup {NoKey} : Checkout(c, u, k)
    BY <2>3 DEF Checkout
  <2>4. CASE \E r \in Refs, t \in PayCoresTxns, n \in Nonces : Confirm(c, r, t, n)
    BY <2>4 DEF Confirm
  <2>5. CASE \E u \in Users, t \in StoreTxns : VerifyPurchase(c, u, t)
    BY <2>5 DEF VerifyPurchase
  <2> QED
    BY <1>8, <2>1, <2>2, <2>3, <2>4, <2>5
<1>9. CASE (\E n \in Nonces : ExpireNonce(n)) \/ PublishVersion \/ UNCHANGED vars
  BY <1>9 DEF ExpireNonce, PublishVersion, vars
<1>10. CASE \E c \in Calls : FreezeOrder(c) \/ FreezeStoreOrder(c)
  BY <1>1, <1>10
<1>11. CASE \E c \in Calls, r \in Refs : RequestOrder(c, r)
  BY <1>2, <1>11
<1>12. CASE \E c \in Calls : BindOrder(c)
  BY <1>3, <1>12
<1>13. CASE \E c \in Calls : Converge(c)
  BY <1>4, <1>13
<1>14. CASE \E c \in Calls : CommitSettlement(c)
  BY <1>5, <1>14
<1>15. CASE \E c \in Calls : ReadSettlement(c) \/ ResolveSettlement(c)
  BY <1>6, <1>15
<1>16. CASE \E r \in Refs, t \in PayCoresTxns : Pay(r, t)
  BY <1>7, <1>16
<1>17. CASE \E c \in Calls :
             \/ FreezeDuplicate(c) \/ LookupOrder(c) \/ RequestRefused(c) \/ FindOrder(c) \/ LookupStoreOrder(c)
             \/ SettlementConflict(c) \/ NoTicketLeft(c) \/ Fail(c)
             \/ \E u \in Users, k \in Keys \cup {NoKey} : Checkout(c, u, k)
             \/ \E r \in Refs, t \in PayCoresTxns, n \in Nonces : Confirm(c, r, t, n)
             \/ \E u \in Users, t \in StoreTxns : VerifyPurchase(c, u, t)
  BY <1>8, <1>17
<1>18. QED
  BY <1>9, <1>10, <1>11, <1>12, <1>13, <1>14, <1>15, <1>16, <1>17 DEF Next, Calm, Progress

OrderKept(id) ==
    orders[id] # NoOrder =>
        /\ orders'[id] # NoOrder
        /\ orders'[id].user = orders[id].user
        /\ orders'[id].amount = orders[id].amount
        /\ orders[id].ref # Local => orders'[id].ref = orders[id].ref
        /\ orders[id].status = "paid" => orders'[id].status = "paid"

RemoteKept(r) ==
    remote[r] # NoRemote =>
        /\ remote'[r].request = remote[r].request
        /\ remote'[r].user = remote[r].user
        /\ remote'[r].amount = remote[r].amount
        /\ remote[r].paid \subseteq remote'[r].paid

ReceiptKept(t) == receipts[t] # NoReceipt => receipts'[t] = receipts[t]

\* No step takes back what an order froze, its number or its payment.
LEMMA OrdersKept ==
    ASSUME PaymentsAssumption, TypeOK, TypeOK', CallsMeant, [Next]_vars
    PROVE  \A id \in Ids : OrderKept(id)
<1> SUFFICES ASSUME NEW id \in Ids PROVE OrderKept(id)
  OBVIOUS
<1>0. CASE UNCHANGED orders
  BY <1>0 DEF OrderKept
<1>1. ASSUME NEW c \in Calls, FreezeOrder(c) \/ FreezeStoreOrder(c)
      PROVE  OrderKept(id)
  <2>1. \/ UNCHANGED orders
        \/ \E new \in Ids, order \in Order :
              orders[new] = NoOrder /\ orders' = [orders EXCEPT ![new] = order]
    <3>1. CASE FreezeOrder(c)
      <4>1. call[c].user \in Users /\ call[c].amount \in 1 .. MaxVersion
        BY <3>1 DEF FreezeOrder, CallsMeant, CallMeant
      <4>2. PICK new \in IF call[c].id = NoId THEN Tickets ELSE {call[c].id} :
                /\ orders[new] = NoOrder
                /\ orders' = [orders EXCEPT ![new] = Frozen(call[c].user, Local, call[c].amount)]
        BY <3>1 DEF FreezeOrder
      <4>3. new \in Ids
        BY <4>2, CallFields DEF Ids
      <4>4. QED
        BY <4>1, <4>2, <4>3, FrozenType
    <3>2. CASE FreezeStoreOrder(c)
      <4>1. /\ call[c].user \in Users /\ call[c].amount \in 1 .. MaxVersion
            /\ call[c].ref \in StoreTxns
        BY <3>2 DEF FreezeStoreOrder, CallsMeant, CallMeant, StorePlaces
      <4>2. Tickets \subseteq Ids
        BY DEF Ids
      <4>3. QED
        BY <3>2, <4>1, <4>2, FrozenType DEF FreezeStoreOrder
    <3>3. QED
      BY <1>1, <3>1, <3>2
  <2>2. QED
    BY <2>1, Markers DEF OrderKept, TypeOK, Order
<1>2. ASSUME NEW c \in Calls, BindOrder(c)
      PROVE  OrderKept(id)
  <2>1. call[c].id \in Ids /\ orders[call[c].id] \in Order /\ call[c].ref \in Refs
    BY <1>2, OrderFields DEF BindOrder, CallsMeant, CallMeant
  <2>2. \/ UNCHANGED orders
        \/ /\ orders[call[c].id].ref = Local
           /\ orders' = [orders EXCEPT ![call[c].id].ref = call[c].ref]
    BY <1>2 DEF BindOrder, MayBind
  <2>3. orders'[id] # NoOrder \/ orders[id] = NoOrder
    BY <2>1, <2>2, Markers DEF TypeOK, Order
  <2>4. QED
    BY <2>1, <2>2, <2>3 DEF OrderKept, TypeOK, Order
<1>3. ASSUME NEW c \in Calls, CommitSettlement(c)
      PROVE  OrderKept(id)
  <2>1. call[c].id \in Ids /\ orders[call[c].id] \in Order
    BY <1>3, OrderFields DEF CommitSettlement, CallsMeant, CallMeant, SettlePlaces
  <2>2. orders' = [orders EXCEPT ![call[c].id].status = "paid"]
    BY <1>3 DEF CommitSettlement
  <2>3. orders'[id] # NoOrder \/ orders[id] = NoOrder
    BY <2>1, <2>2, Markers DEF TypeOK, Order
  <2>4. QED
    BY <2>1, <2>2, <2>3 DEF OrderKept, TypeOK, Order
<1>4. QED
  BY <1>0, <1>1, <1>2, <1>3, Writers

\* PayCores changes nothing of an order but the payments on it.
LEMMA RemotesKept ==
    ASSUME PaymentsAssumption, TypeOK, [Next]_vars
    PROVE  \A r \in Refs : RemoteKept(r)
<1> SUFFICES ASSUME NEW r \in Refs PROVE RemoteKept(r)
  OBVIOUS
<1>0. CASE UNCHANGED remote
  BY <1>0 DEF RemoteKept
<1>1. ASSUME NEW c \in Calls, NEW q \in Refs, RequestOrder(c, q)
      PROVE  RemoteKept(r)
  BY <1>1 DEF RequestOrder, RemoteKept, TypeOK
<1>2. ASSUME NEW q \in Refs, NEW t \in PayCoresTxns, Pay(q, t)
      PROVE  RemoteKept(r)
  <2>1. remote[q] \in Remote /\ remote' = [remote EXCEPT ![q].paid = @ \cup {t}]
    BY <1>2, RemoteFields DEF Pay
  <2>2. QED
    BY <2>1 DEF RemoteKept, TypeOK, Remote
<1>3. QED
  BY <1>0, <1>1, <1>2, Writers

\* A receipt is written once.
LEMMA ReceiptsKept ==
    ASSUME PaymentsAssumption, TypeOK, [Next]_vars
    PROVE  \A t \in Txns : ReceiptKept(t)
<1> SUFFICES ASSUME NEW t \in Txns PROVE ReceiptKept(t)
  OBVIOUS
<1>0. CASE UNCHANGED receipts
  BY <1>0 DEF ReceiptKept
<1>1. ASSUME NEW c \in Calls, CommitSettlement(c)
      PROVE  ReceiptKept(t)
  <2>1. receipts[call[c].txn] = NoReceipt /\ receipts' = [receipts EXCEPT ![call[c].txn] = Fact(c)]
    BY <1>1 DEF CommitSettlement, Unsettled
  <2>2. QED
    BY <2>1 DEF ReceiptKept, TypeOK
<1>2. QED
  BY <1>0, <1>1, Writers
----------------------------------------------------------------------------
(* The parts of the invariant.                                             *)

\* The order of a request key stays a checkout of its user.
LEMMA KeyOrdersStep ==
    ASSUME PaymentsAssumption, TypeOK, CallsMeant, KeyOrdersMeant, [Next]_vars
    PROVE  KeyOrdersMeant'
<1> SUFFICES ASSUME NEW u \in Users, NEW k \in Keys, orders'[<<u, k>>] # NoOrder
             PROVE  orders'[<<u, k>>].user = u /\ orders'[<<u, k>>].ref \in {Local} \cup Refs
  BY DEF KeyOrdersMeant
<1> DEFINE id == <<u, k>>
<1>id. id \in Ids /\ id \notin Tickets
  BY DEF Ids, PaymentsAssumption
<1>0. CASE UNCHANGED orders
  BY <1>0 DEF KeyOrdersMeant
<1>1. ASSUME NEW c \in Calls, FreezeOrder(c)
      PROVE  orders'[id].user = u /\ orders'[id].ref \in {Local} \cup Refs
  <2>1. PICK new \in IF call[c].id = NoId THEN Tickets ELSE {call[c].id} :
           orders' = [orders EXCEPT ![new] = Frozen(call[c].user, Local, call[c].amount)]
    BY <1>1 DEF FreezeOrder
  <2>2. CASE new = id
    <3>1. call[c].id = id /\ id \in {call[c].user} \X Keys
      BY <1>1, <1>id, <2>1, <2>2 DEF FreezeOrder, CallsMeant, CallMeant, PaymentsAssumption
    <3>2. call[c].user = u
      BY <3>1
    <3>3. QED
      BY <1>id, <2>1, <2>2, <3>2 DEF TypeOK, Frozen
  <2>3. CASE new # id
    BY <1>id, <2>1, <2>3 DEF TypeOK, KeyOrdersMeant
  <2>4. QED
    BY <2>2, <2>3
<1>2. ASSUME NEW c \in Calls, FreezeStoreOrder(c)
      PROVE  orders'[id].user = u /\ orders'[id].ref \in {Local} \cup Refs
  <2>1. orders'[id] = orders[id]
    BY <1>2, <1>id DEF FreezeStoreOrder, TypeOK
  <2>2. QED
    BY <2>1 DEF KeyOrdersMeant
<1>3. ASSUME NEW c \in Calls, BindOrder(c)
      PROVE  orders'[id].user = u /\ orders'[id].ref \in {Local} \cup Refs
  <2>1. call[c].id \in Ids /\ orders[call[c].id] \in Order /\ call[c].ref \in Refs
    BY <1>3, OrderFields DEF BindOrder, CallsMeant, CallMeant
  <2>2. UNCHANGED orders \/ orders' = [orders EXCEPT ![call[c].id].ref = call[c].ref]
    BY <1>3 DEF BindOrder
  <2>3. CASE call[c].id = id
    <3>1. orders[id] # NoOrder
      BY <1>3, <2>3 DEF BindOrder, CallsMeant, CallMeant
    <3>2. QED
      BY <1>id, <2>1, <2>2, <2>3, <3>1 DEF TypeOK, KeyOrdersMeant, Order
  <2>4. CASE call[c].id # id
    BY <1>id, <2>1, <2>2, <2>4 DEF TypeOK, KeyOrdersMeant
  <2>5. QED
    BY <2>3, <2>4
<1>4. ASSUME NEW c \in Calls, CommitSettlement(c)
      PROVE  orders'[id].user = u /\ orders'[id].ref \in {Local} \cup Refs
  <2>1. call[c].id \in Ids /\ orders[call[c].id] \in Order /\ orders[call[c].id] # NoOrder
    BY <1>4, OrderFields DEF CommitSettlement, CallsMeant, CallMeant, SettlePlaces
  <2>2. orders' = [orders EXCEPT ![call[c].id].status = "paid"]
    BY <1>4 DEF CommitSettlement
  <2>3. QED
    BY <1>id, <2>1, <2>2 DEF TypeOK, KeyOrdersMeant, Order
<1>5. QED
  BY <1>0, <1>1, <1>2, <1>3, <1>4, Writers

\* What PayCores holds stays what the order froze.
LEMMA RemoteStep ==
    ASSUME PaymentsAssumption, TypeOK, CallsMeant, RemoteMeant, [Next]_vars,
           \A id \in Ids : OrderKept(id), \A r \in Refs : RemoteKept(r)
    PROVE  RemoteMeant'
<1> SUFFICES ASSUME NEW r \in Refs, remote'[r] # NoRemote
             PROVE  LET order == orders'[remote'[r].request]
                    IN  /\ order # NoOrder
                        /\ order.user = remote'[r].user
                        /\ order.amount = remote'[r].amount
  BY DEF RemoteMeant
<1>1. CASE remote[r] # NoRemote
  <2>1. remote[r].request \in Ids
    BY <1>1, RemoteFields
  <2>2. QED
    BY <1>1, <2>1 DEF RemoteMeant, OrderKept, RemoteKept
<1>2. CASE remote[r] = NoRemote
  <2>1. PICK c \in Calls, q \in Refs : RequestOrder(c, q)
    <3>1. ASSUME NEW q \in Refs, NEW t \in PayCoresTxns, Pay(q, t)
          PROVE  FALSE
      BY <1>2, <3>1 DEF Pay, TypeOK
    <3>2. UNCHANGED remote => FALSE
      BY <1>2
    <3>3. QED
      BY <3>1, <3>2, Writers
  <2>2. /\ remote'[r].request = call[c].id
        /\ remote'[r].user = call[c].user
        /\ remote'[r].amount = call[c].amount
    BY <1>2, <2>1 DEF RequestOrder, TypeOK
  <2>3. /\ call[c].id \in Ids /\ orders[call[c].id] # NoOrder
        /\ orders[call[c].id].user = call[c].user
        /\ orders[call[c].id].amount = call[c].amount
    BY <2>1 DEF RequestOrder, CallsMeant, CallMeant
  <2>4. UNCHANGED orders
    BY <2>1 DEF RequestOrder
  <2>5. QED
    BY <2>2, <2>3, <2>4
<1>3. QED
  BY <1>1, <1>2

\* A returned URL stays, and a new one is, for the order it names.
LEMMA UrlsStep ==
    ASSUME PaymentsAssumption, TypeOK, CallsMeant, RemoteMeant, UrlsAgree, [Next]_vars,
           TypeOK', RemoteMeant',
           \A id \in Ids : OrderKept(id), \A r \in Refs : RemoteKept(r)
    PROVE  UrlsAgree'
<1> SUFFICES ASSUME NEW url \in urls'
             PROVE  /\ orders'[url[1]].ref = url[2]
                    /\ remote'[url[2]].request = url[1]
                    /\ remote'[url[2]].user = orders'[url[1]].user
                    /\ remote'[url[2]].amount = orders'[url[1]].amount
  BY DEF UrlsAgree
<1>1. url[1] \in Ids /\ url[2] \in Refs
  BY DEF TypeOK
<1>2. ASSUME orders'[url[1]].ref = url[2], remote'[url[2]].request = url[1]
      PROVE  /\ remote'[url[2]].user = orders'[url[1]].user
             /\ remote'[url[2]].amount = orders'[url[1]].amount
  <2>1. remote'[url[2]] # NoRemote
    BY <1>1, <1>2, Markers
  <2>2. QED
    BY <1>1, <1>2, <2>1 DEF RemoteMeant
<1>3. orders'[url[1]].ref = url[2] /\ remote'[url[2]].request = url[1]
  <2>1. CASE url \in urls
    <3>1. orders[url[1]].ref = url[2] /\ remote[url[2]].request = url[1]
      BY <2>1 DEF UrlsAgree
    <3>2. url[2] # NoRef /\ url[2] # Local
      BY <1>1 DEF PaymentsAssumption
    <3>3. orders[url[1]] # NoOrder /\ remote[url[2]] # NoRemote
      BY <1>1, <3>1, <3>2, OrderFields, RemoteFields
    <3>4. QED
      BY <1>1, <3>1, <3>2, <3>3 DEF OrderKept, RemoteKept
  <2>2. CASE url \notin urls
    <3>1. ASSUME NEW c \in Calls, NEW r \in Refs, RequestOrder(c, r)
          PROVE  orders'[url[1]].ref = url[2] /\ remote'[url[2]].request = url[1]
      <4>1. url = <<call[c].id, r>> /\ call[c].ref = r /\ UNCHANGED orders
        BY <2>2, <3>1 DEF RequestOrder
      <4>2. call[c].id \in Ids /\ orders[call[c].id].ref = r
        <5>1. r # Local
          BY DEF PaymentsAssumption
        <5>2. QED
          BY <3>1, <4>1, <5>1 DEF RequestOrder, CallsMeant, CallMeant
      <4>3. remote'[r].request = call[c].id
        BY <3>1, <4>2, Markers, RemoteFields DEF RequestOrder, TypeOK, PaymentsAssumption
      <4>4. QED
        BY <4>1, <4>2, <4>3
    <3>2. ASSUME NEW c \in Calls, BindOrder(c)
          PROVE  orders'[url[1]].ref = url[2] /\ remote'[url[2]].request = url[1]
      <4>1. url = <<call[c].id, call[c].ref>> /\ UNCHANGED remote
            /\ orders' = [orders EXCEPT ![call[c].id].ref = call[c].ref]
        BY <2>2, <3>2 DEF BindOrder
      <4>2. /\ call[c].id \in Ids /\ orders[call[c].id] \in Order
            /\ remote[call[c].ref].request = call[c].id
        BY <3>2, OrderFields DEF BindOrder, CallsMeant, CallMeant
      <4>3. QED
        BY <4>1, <4>2 DEF TypeOK, Order
    <3>3. ASSUME NEW c \in Calls, Converge(c)
          PROVE  orders'[url[1]].ref = url[2] /\ remote'[url[2]].request = url[1]
      <4>1. /\ url = <<call[c].id, call[c].ref>> /\ UNCHANGED <<orders, remote>>
            /\ orders[call[c].id].ref = call[c].ref
        BY <2>2, <3>3 DEF Converge
      <4>2. remote[call[c].ref].request = call[c].id
        BY <3>3 DEF Converge, CallsMeant, CallMeant
      <4>3. QED
        BY <4>1, <4>2
    <3>4. UNCHANGED urls => FALSE
      BY <2>2
    <3>5. QED
      BY <3>1, <3>2, <3>3, <3>4, Writers
  <2>3. QED
    BY <2>1, <2>2
<1>4. QED
  BY <1>2, <1>3

\* A success stays, and a new one is, for money on the account.
LEMMA AcksStep ==
    ASSUME PaymentsAssumption, TypeOK, CallsMeant, AcksTruthful, [Next]_vars,
           TypeOK', \A t \in Txns : ReceiptKept(t)
    PROVE  AcksTruthful'
<1> SUFFICES ASSUME NEW ack \in acks'
             PROVE  receipts'[ack[2]].user = ack[1]
  BY DEF AcksTruthful
<1>1. ack[1] \in Users /\ ack[2] \in Txns
  BY DEF TypeOK
<1>2. CASE ack \in acks
  <2>1. receipts[ack[2]].user = ack[1]
    BY <1>2 DEF AcksTruthful
  <2>2. receipts[ack[2]] # NoReceipt
    BY <1>1, <2>1 DEF NoReceipt, PaymentsAssumption
  <2>3. QED
    BY <1>1, <2>1, <2>2 DEF ReceiptKept
<1>3. CASE ack \notin acks
  <2>1. ASSUME NEW c \in Calls, ReadSettlement(c) \/ ResolveSettlement(c)
        PROVE  receipts'[ack[2]].user = ack[1]
    <3>1. Matches(c) /\ Replayed(c) /\ ack = <<call[c].user, call[c].txn>> /\ UNCHANGED receipts
      BY <1>3, <2>1 DEF ReadSettlement, ResolveSettlement, Acked
    <3>2. QED
      BY <3>1 DEF Matches, Replayed, Fact
  <2>2. ASSUME NEW c \in Calls, CommitSettlement(c)
        PROVE  receipts'[ack[2]].user = ack[1]
    <3>1. ack = <<call[c].user, call[c].txn>> /\ receipts' = [receipts EXCEPT ![call[c].txn] = Fact(c)]
      BY <1>3, <2>2 DEF CommitSettlement, Acked
    <3>2. orders[call[c].id].user = call[c].user
      BY <2>2 DEF CommitSettlement, CallsMeant, CallMeant
    <3>3. QED
      BY <1>1, <3>1, <3>2 DEF Fact, TypeOK
  <2>3. UNCHANGED acks => FALSE
    BY <1>3
  <2>4. QED
    BY <2>1, <2>2, <2>3, Writers
<1>4. QED
  BY <1>2, <1>3

\* What was paid on a number stays paid on it.
LEMMA PaidOnKept ==
    ASSUME PaymentsAssumption, TypeOK, \A r \in Refs : RemoteKept(r),
           NEW t \in Txns, NEW ref, PaidOn(t, ref)
    PROVE  IF ref \in Refs THEN t \in remote'[ref].paid ELSE t = ref
<1>1. CASE ref \in Refs
  <2>1. t \in remote[ref].paid
    BY <1>1 DEF PaidOn
  <2>2. remote[ref] # NoRemote
    BY <1>1, <2>1, RemoteFields
  <2>3. QED
    BY <1>1, <2>1, <2>2 DEF RemoteKept
<1>2. CASE ref \notin Refs
  BY <1>2 DEF PaidOn
<1>3. QED
  BY <1>1, <1>2

\* The receipts stay and no order is paid: a step that credits nothing.
LEMMA NothingCredited ==
    ASSUME PaymentsAssumption, TypeOK, CreditedOnce, UNCHANGED receipts,
           \A r \in Refs : RemoteKept(r),
           NEW id \in Ids,
           \/ orders'[id] = orders[id]
           \/ orders[id].status # "paid" /\ orders'[id].status # "paid"
    PROVE  CreditedFor(id)'
<1>1. ReceiptsOf(id)' = ReceiptsOf(id)
  BY DEF ReceiptsOf
<1>2. CASE orders'[id].status = "paid"
  <2>1. orders'[id] = orders[id]
    BY <1>2
  <2>2. PICK t \in Txns : /\ ReceiptsOf(id) = {t}
                          /\ receipts[t].user = orders[id].user
                          /\ receipts[t].amount = orders[id].amount
                          /\ PaidOn(t, orders[id].ref)
    BY <1>2, <2>1 DEF CreditedOnce, CreditedFor
  <2>3. PaidOn(t, orders[id].ref)'
    BY <2>1, <2>2, PaidOnKept DEF PaidOn
  <2>4. QED
    BY <1>1, <1>2, <2>1, <2>2, <2>3 DEF CreditedFor
<1>3. CASE orders'[id].status # "paid"
  BY <1>1, <1>3 DEF CreditedOnce, CreditedFor
<1>4. QED
  BY <1>2, <1>3

\* Only a settlement credits, and it credits an order once.
LEMMA CreditedStep ==
    ASSUME PaymentsAssumption, TypeOK, CallsMeant, CreditedOnce, [Next]_vars,
           \A r \in Refs : RemoteKept(r)
    PROVE  CreditedOnce'
<1> SUFFICES ASSUME NEW id \in Ids PROVE CreditedFor(id)'
  BY DEF CreditedOnce
<1>0. CASE UNCHANGED <<orders, receipts>>
  BY <1>0, NothingCredited
<1>1. ASSUME NEW c \in Calls, FreezeOrder(c) \/ FreezeStoreOrder(c)
      PROVE  CreditedFor(id)'
  <2>1. \/ UNCHANGED orders
        \/ \E new, u, ref, amount :
              orders[new] = NoOrder /\ orders' = [orders EXCEPT ![new] = Frozen(u, ref, amount)]
    BY <1>1 DEF FreezeOrder, FreezeStoreOrder
  <2>2. \/ orders'[id] = orders[id]
        \/ orders[id].status # "paid" /\ orders'[id].status # "paid"
    BY <2>1, Markers DEF TypeOK, Frozen
  <2>3. UNCHANGED receipts
    BY <1>1 DEF FreezeOrder, FreezeStoreOrder
  <2>4. QED
    BY <2>2, <2>3, NothingCredited
<1>2. ASSUME NEW c \in Calls, BindOrder(c)
      PROVE  CreditedFor(id)'
  <2>1. call[c].id \in Ids /\ orders[call[c].id] \in Order
    BY <1>2, OrderFields DEF BindOrder, CallsMeant, CallMeant
  <2>2. \/ UNCHANGED orders
        \/ /\ orders[call[c].id].status = "pending"
           /\ orders' = [orders EXCEPT ![call[c].id].ref = call[c].ref]
    BY <1>2 DEF BindOrder, MayBind
  <2>3. \/ orders'[id] = orders[id]
        \/ orders[id].status # "paid" /\ orders'[id].status # "paid"
    BY <2>1, <2>2 DEF TypeOK, Order
  <2>4. UNCHANGED receipts
    BY <1>2 DEF BindOrder
  <2>5. QED
    BY <2>3, <2>4, NothingCredited
<1>3. ASSUME NEW c \in Calls, CommitSettlement(c)
      PROVE  CreditedFor(id)'
  <2>0. PICK mine \in Ids, txn \in Txns : mine = call[c].id /\ txn = call[c].txn
    BY <1>3 DEF CommitSettlement, CallsMeant, CallMeant, SettlePlaces
  <2>1. /\ orders[mine] \in Order
        /\ orders[mine].ref = call[c].ref /\ PaidOn(txn, call[c].ref)
    BY <1>3, <2>0, OrderFields DEF CommitSettlement, CallsMeant, CallMeant, SettlePlaces
  <2>2. /\ orders[mine].status = "pending" /\ receipts[txn] = NoReceipt
        /\ orders' = [orders EXCEPT ![mine].status = "paid"]
        /\ receipts' = [receipts EXCEPT ![txn] = Fact(c)]
        /\ UNCHANGED remote
    BY <1>3, <2>0 DEF CommitSettlement, Unsettled
  <2>3. \A t \in Txns : receipts'[t] = IF t = txn THEN Fact(c) ELSE receipts[t]
    BY <2>1, <2>2 DEF TypeOK
  <2>4. receipts[txn].order \notin Ids
    BY <2>2, Markers
  <2>5. CASE id = mine
    <3>1. ReceiptsOf(id) = {}
      BY <2>2, <2>5 DEF CreditedOnce, CreditedFor
    <3>2. ReceiptsOf(id)' = {txn}
      BY <2>0, <2>3, <2>5, <3>1 DEF ReceiptsOf, Fact
    <3>3. orders'[id] = [orders[id] EXCEPT !.status = "paid"]
      BY <2>1, <2>2, <2>5 DEF TypeOK
    <3>4. /\ orders'[id].status = "paid"
          /\ orders'[id].user = orders[id].user /\ orders'[id].amount = orders[id].amount
          /\ orders'[id].ref = call[c].ref
      BY <2>1, <2>5, <3>3 DEF Order
    <3>5. /\ receipts'[txn].user = orders'[id].user
          /\ receipts'[txn].amount = orders'[id].amount
      BY <2>0, <2>3, <2>5, <3>4 DEF Fact
    <3>6. PaidOn(txn, orders[id].ref)'
      BY <2>1, <2>2, <3>4 DEF PaidOn
    <3>7. QED
      BY <2>1, <3>2, <3>4, <3>5, <3>6 DEF CreditedFor
  <2>6. CASE id # mine
    <3>1. orders'[id] = orders[id]
      BY <2>1, <2>2, <2>6 DEF TypeOK
    <3>2. ReceiptsOf(id)' = ReceiptsOf(id)
      BY <2>0, <2>3, <2>4, <2>6 DEF ReceiptsOf, Fact
    <3>3. \A t \in Txns : t \in ReceiptsOf(id) => receipts'[t] = receipts[t]
      BY <2>3, <2>4 DEF ReceiptsOf
    <3>4. \A t \in Txns : PaidOn(t, orders[id].ref)' <=> PaidOn(t, orders[id].ref)
      BY <2>2, <3>1 DEF PaidOn
    <3>5. CreditedFor(id)
      BY DEF CreditedOnce
    <3>6. CASE orders[id].status = "paid"
      <4>1. PICK t \in Txns : /\ ReceiptsOf(id) = {t}
                              /\ receipts[t].user = orders[id].user
                              /\ receipts[t].amount = orders[id].amount
                              /\ PaidOn(t, orders[id].ref)
        BY <3>5, <3>6 DEF CreditedFor
      <4>2. receipts'[t] = receipts[t] /\ PaidOn(t, orders[id].ref)'
        BY <3>3, <3>4, <4>1
      <4>3. QED
        BY <3>1, <3>2, <3>6, <4>1, <4>2 DEF CreditedFor
    <3>7. CASE orders[id].status # "paid"
      BY <3>1, <3>2, <3>5, <3>7 DEF CreditedFor
    <3>8. QED
      BY <3>6, <3>7
  <2>7. QED
    BY <2>5, <2>6
<1>4. QED
  BY <1>0, <1>1, <1>2, <1>3, Writers

\* A request that does not move may go on relying on what it relied on.
LEMMA CallStays ==
    ASSUME PaymentsAssumption, TypeOK, NEW c \in Calls, CallMeant(c), call'[c] = call[c],
           \A id \in Ids : OrderKept(id), \A r \in Refs : RemoteKept(r)
    PROVE  CallMeant(c)'
<1>0. PICK id, ref, txn : id = call[c].id /\ ref = call[c].ref /\ txn = call[c].txn
  OBVIOUS
<1>1. id \in Ids /\ orders[id] # NoOrder =>
          /\ orders'[id] # NoOrder
          /\ orders'[id].user = orders[id].user
          /\ orders'[id].amount = orders[id].amount
          /\ orders[id].ref \in Refs \cup StoreTxns => orders'[id].ref = orders[id].ref
  BY DEF OrderKept, PaymentsAssumption
<1>2. id \in Ids /\ ref \in Refs /\ remote[ref].request = id => remote'[ref].request = id
  BY RemoteFields DEF RemoteKept
<1>3. txn \in Txns /\ PaidOn(txn, ref) => PaidOn(txn, ref)'
  BY PaidOnKept DEF PaidOn
<1>4. PaidOn(call[c].txn, call[c].ref)' <=> PaidOn(txn, ref)'
  BY <1>0 DEF PaidOn
<1>5. /\ call'[c].at = call[c].at /\ call'[c].user = call[c].user /\ call'[c].id = id
      /\ call'[c].ref = ref /\ call'[c].txn = txn /\ call'[c].amount = call[c].amount
  BY <1>0
<1>6. /\ call[c].at \in {"lookup", "request", "bind", "converge"} \cup SettlePlaces =>
            id \in Ids /\ orders'[id] # NoOrder
      /\ call[c].at \in {"request", "bind", "converge"} =>
            orders'[id].user = call[c].user /\ orders'[id].amount = call[c].amount
      /\ call[c].at = "request" => ref = Local \/ (ref \in Refs /\ orders'[id].ref = ref)
  BY <1>0, <1>1 DEF CallMeant
<1>7. /\ call[c].at \in {"bind", "converge"} => ref \in Refs /\ remote'[ref].request = id
      /\ call[c].at \in CallbackPlaces \cup StorePlaces \cup SettlePlaces =>
            txn \in Txns /\ PaidOn(txn, ref)'
  BY <1>0, <1>2, <1>3 DEF CallMeant
<1>8. /\ call[c].at \in SettlePlaces =>
            ref \in Refs \cup StoreTxns /\ orders'[id].ref = ref
      /\ call[c].at \in {"commit", "resolve"} => orders'[id].user = call[c].user
  BY <1>0, <1>1 DEF CallMeant, SettlePlaces
<1>9. QED
  BY <1>0, <1>4, <1>5, <1>6, <1>7, <1>8 DEF CallMeant

\* A request that ended relies on nothing.
LEMMA CallEnds ==
    ASSUME PaymentsAssumption, NEW c \in Calls, call'[c] = Idle
    PROVE  CallMeant(c)'
<1>1. call'[c].at = "idle"
  BY Markers
<1>2. QED
  BY <1>1 DEF CallMeant, CallbackPlaces, StorePlaces, SettlePlaces

\* A request that only changes its place.
LEMMA CallGoes ==
    ASSUME PaymentsAssumption, TypeOK, NEW c \in Calls, NEW place \in Places, Goto(c, place)
    PROVE  /\ call'[c].at = place /\ call'[c].user = call[c].user /\ call'[c].id = call[c].id
           /\ call'[c].ref = call[c].ref /\ call'[c].txn = call[c].txn
           /\ call'[c].amount = call[c].amount
<1>1. call'[c] = [call[c] EXCEPT !.at = place]
  BY DEF Goto, TypeOK
<1>2. QED
  BY <1>1, CallFields DEF Call

\* A step of one request leaves the others where they are.
LEMMA OthersStay ==
    ASSUME TypeOK, NEW c \in Calls, NEW d \in Calls, d # c,
           \/ Progress(c)
           \/ \E u \in Users, k \in Keys \cup {NoKey} : Checkout(c, u, k)
           \/ \E r \in Refs, t \in PayCoresTxns, n \in Nonces : Confirm(c, r, t, n)
           \/ \E u \in Users, t \in StoreTxns : VerifyPurchase(c, u, t)
           \/ Fail(c)
    PROVE  call'[d] = call[d]
<1>1. CASE \/ \E u \in Users, k \in Keys \cup {NoKey} : Checkout(c, u, k)
           \/ \E r \in Refs, t \in PayCoresTxns, n \in Nonces : Confirm(c, r, t, n)
           \/ \E u \in Users, t \in StoreTxns : VerifyPurchase(c, u, t)
           \/ Fail(c)
  BY <1>1 DEF Checkout, Confirm, VerifyPurchase, Fail, Answer, TypeOK
<1>2. CASE FreezeOrder(c) \/ FreezeDuplicate(c) \/ LookupOrder(c) \/ RequestRefused(c)
  BY <1>2 DEF FreezeOrder, FreezeDuplicate, LookupOrder, RequestRefused, Goto, Answer, TypeOK
<1>3. CASE (\E r \in Refs : RequestOrder(c, r)) \/ BindOrder(c) \/ Converge(c)
  BY <1>3 DEF RequestOrder, BindOrder, Converge, Goto, Answer, TypeOK
<1>4. CASE FindOrder(c) \/ FreezeStoreOrder(c) \/ LookupStoreOrder(c)
  BY <1>4 DEF FindOrder, FreezeStoreOrder, LookupStoreOrder, Goto, Answer, TypeOK
<1>5. CASE \/ ReadSettlement(c) \/ CommitSettlement(c) \/ SettlementConflict(c)
           \/ ResolveSettlement(c) \/ NoTicketLeft(c)
  BY <1>5 DEF ReadSettlement, CommitSettlement, SettlementConflict, ResolveSettlement,
              NoTicketLeft, Goto, Answer, TypeOK
<1>6. QED
  BY <1>1, <1>2, <1>3, <1>4, <1>5 DEF Progress

\* A checkout moves on.
LEMMA CheckoutMeant ==
    ASSUME PaymentsAssumption, TypeOK, TypeOK', KeyOrdersMeant, RemoteMeant,
           NEW c \in Calls, CallMeant(c),
           \A id \in Ids : OrderKept(id), \A r \in Refs : RemoteKept(r),
           \/ \E u \in Users, k \in Keys \cup {NoKey} : Checkout(c, u, k)
           \/ FreezeOrder(c) \/ FreezeDuplicate(c) \/ LookupOrder(c)
           \/ (\E r \in Refs : RequestOrder(c, r)) \/ RequestRefused(c)
           \/ BindOrder(c) \/ Converge(c)
    PROVE  CallMeant(c)'
<1>0. ASSUME Answer(c)
      PROVE  CallMeant(c)'
  <2>1. call'[c] = Idle
    BY <1>0 DEF Answer, TypeOK
  <2>2. QED
    BY <2>1, CallEnds
<1>1. ASSUME NEW u \in Users, NEW k \in Keys \cup {NoKey}, Checkout(c, u, k)
      PROVE  CallMeant(c)'
  <2>1. /\ call'[c].at = "freeze" /\ call'[c].user = u /\ call'[c].amount = product
        /\ call'[c].id = (IF k = NoKey THEN NoId ELSE <<u, k>>)
    BY <1>1 DEF Checkout, TypeOK, Idle, LatestPublished
  <2>2. call'[c].id \in {NoId} \cup ({u} \X Keys) /\ product \in 1 .. MaxVersion
    BY <2>1 DEF TypeOK
  <2>3. QED
    BY <2>1, <2>2 DEF CallMeant, CallbackPlaces, StorePlaces, SettlePlaces
<1>2. ASSUME FreezeOrder(c)
      PROVE  CallMeant(c)'
  <2>1. PICK id \in IF call[c].id = NoId THEN Tickets ELSE {call[c].id} :
           /\ orders' = [orders EXCEPT ![id] = Frozen(call[c].user, Local, call[c].amount)]
           /\ call' = [call EXCEPT ![c].at = "request", ![c].id = id, ![c].ref = Local]
    BY <1>2 DEF FreezeOrder
  <2>2. id \in Ids
    BY <2>1, CallFields DEF Ids
  <2>3. /\ call'[c].at = "request" /\ call'[c].id = id /\ call'[c].ref = Local
        /\ call'[c].user = call[c].user /\ call'[c].amount = call[c].amount
    BY <2>1, CallFields DEF TypeOK, Call
  <2>4. orders'[id] = Frozen(call[c].user, Local, call[c].amount)
    BY <2>1, <2>2 DEF TypeOK
  <2>5. call[c].user \in Users
    BY <1>2 DEF FreezeOrder, CallMeant
  <2>6. orders'[id].user = call[c].user /\ orders'[id].amount = call[c].amount /\ orders'[id] # NoOrder
    BY <2>4, <2>5, Markers DEF Frozen
  <2>7. QED
    BY <2>2, <2>3, <2>5, <2>6 DEF CallMeant, CallbackPlaces, StorePlaces, SettlePlaces
<1>3. ASSUME FreezeDuplicate(c)
      PROVE  CallMeant(c)'
  <2>1. Goto(c, "lookup") /\ "lookup" \in Places
    BY <1>3 DEF FreezeDuplicate, Places, CheckoutPlaces
  <2>2. /\ call'[c].at = "lookup" /\ call'[c].user = call[c].user /\ call'[c].id = call[c].id
    BY <2>1, CallGoes
  <2>3. /\ call[c].user \in Users /\ call[c].id \in {call[c].user} \X Keys
        /\ orders[call[c].id] # NoOrder /\ UNCHANGED orders
    BY <1>3 DEF FreezeDuplicate, CallMeant
  <2>4. call[c].id \in Ids
    BY <2>3 DEF Ids
  <2>5. QED
    BY <2>2, <2>3, <2>4 DEF CallMeant, CallbackPlaces, StorePlaces, SettlePlaces
<1>4. ASSUME LookupOrder(c)
      PROVE  CallMeant(c)'
  <2>1. PICK id \in Ids : id = call[c].id /\ orders[id] # NoOrder /\ id \in {call[c].user} \X Keys
    BY <1>4 DEF LookupOrder, CallMeant
  <2>2. call[c].user \in Users /\ UNCHANGED orders
    BY <1>4 DEF LookupOrder, CallMeant
  <2>3. orders[id].user = call[c].user /\ orders[id].ref \in {Local} \cup Refs
    BY <2>1, <2>2 DEF KeyOrdersMeant
  <2>4. /\ call'[c].at = "request" /\ call'[c].user = call[c].user /\ call'[c].id = id
        /\ call'[c].ref = orders[id].ref /\ call'[c].amount = orders[id].amount
    <3>1. orders[id].ref \in {Local} \cup Refs /\ call[c] \in Call
      BY <2>3, CallFields
    <3>2. call' = [call EXCEPT ![c].at = "request", ![c].ref = orders[id].ref, ![c].amount = orders[id].amount]
      BY <1>4, <2>1 DEF LookupOrder
    <3>3. call'[c] = [call[c] EXCEPT !.at = "request", !.ref = orders[id].ref, !.amount = orders[id].amount]
      BY <3>2 DEF TypeOK
    <3> QED
      BY <2>1, <3>1, <3>3 DEF Call
  <2>5. QED
    BY <2>1, <2>2, <2>3, <2>4 DEF CallMeant, CallbackPlaces, StorePlaces, SettlePlaces
<1>5. ASSUME NEW r \in Refs, RequestOrder(c, r), ~Answer(c)
      PROVE  CallMeant(c)'
  <2>1. PICK id \in Ids : id = call[c].id /\ orders[id] # NoOrder /\ UNCHANGED orders
    BY <1>5 DEF RequestOrder, CallMeant
  <2>2. /\ call[c].user \in Users
        /\ orders[id].user = call[c].user /\ orders[id].amount = call[c].amount
    BY <1>5, <2>1 DEF RequestOrder, CallMeant
  <2>3. call' = [call EXCEPT ![c].at = "bind", ![c].ref = r]
    BY <1>5 DEF RequestOrder
  <2>4. /\ call'[c].at = "bind" /\ call'[c].user = call[c].user /\ call'[c].id = id
        /\ call'[c].ref = r /\ call'[c].amount = call[c].amount
    BY <2>1, <2>3, CallFields DEF TypeOK, Call
  <2>5. remote'[r].request = id
    BY <1>5, <2>1, RemoteFields DEF RequestOrder, TypeOK
  <2>6. QED
    BY <2>1, <2>2, <2>4, <2>5 DEF CallMeant, CallbackPlaces, StorePlaces, SettlePlaces
<1>6. ASSUME BindOrder(c), ~Answer(c)
      PROVE  CallMeant(c)'
  <2>1. Goto(c, "converge") /\ "converge" \in Places /\ UNCHANGED <<orders, remote>>
    BY <1>6 DEF BindOrder, Places, CheckoutPlaces
  <2>2. /\ call'[c].at = "converge" /\ call'[c].user = call[c].user /\ call'[c].id = call[c].id
        /\ call'[c].ref = call[c].ref /\ call'[c].amount = call[c].amount
    BY <2>1, CallGoes
  <2>3. call[c].at = "bind"
    BY <1>6 DEF BindOrder
  <2>4. QED
    BY <2>1, <2>2, <2>3 DEF CallMeant, CallbackPlaces, StorePlaces, SettlePlaces
<1>7. CASE RequestRefused(c) \/ Converge(c)
  BY <1>0, <1>7 DEF RequestRefused, Converge
<1>8. QED
  BY <1>0, <1>1, <1>2, <1>3, <1>4, <1>5, <1>6, <1>7

\* A confirmation or a purchase in an app store moves on.
LEMMA SettlementMeant ==
    ASSUME PaymentsAssumption, TypeOK, NEW c \in Calls, CallMeant(c),
           \A id \in Ids : OrderKept(id), \A r \in Refs : RemoteKept(r),
           \/ \E r \in Refs, t \in PayCoresTxns, n \in Nonces : Confirm(c, r, t, n)
           \/ \E u \in Users, t \in StoreTxns : VerifyPurchase(c, u, t)
           \/ FindOrder(c) \/ FreezeStoreOrder(c) \/ LookupStoreOrder(c)
           \/ ReadSettlement(c) \/ CommitSettlement(c) \/ SettlementConflict(c)
           \/ ResolveSettlement(c) \/ NoTicketLeft(c) \/ Fail(c)
    PROVE  CallMeant(c)'
<1>0. ASSUME Answer(c)
      PROVE  CallMeant(c)'
  <2>1. call'[c] = Idle
    BY <1>0 DEF Answer, TypeOK
  <2>2. QED
    BY <2>1, CallEnds
<1>1. ASSUME NEW r \in Refs, NEW t \in PayCoresTxns, NEW n \in Nonces, Confirm(c, r, t, n)
      PROVE  CallMeant(c)'
  <2>1. /\ call'[c].at = "find" /\ call'[c].user = remote[r].user
        /\ call'[c].ref = r /\ call'[c].txn = t /\ UNCHANGED remote
    BY <1>1 DEF Confirm, TypeOK, Idle
  <2>2. t \in remote[r].paid /\ remote[r].user \in Users /\ t \in Txns
    BY <1>1, RemoteFields DEF Confirm, Txns
  <2>3. PaidOn(call[c].txn, call[c].ref)'
    BY <2>1, <2>2 DEF PaidOn
  <2>4. QED
    BY <2>1, <2>2, <2>3 DEF CallMeant, StorePlaces, SettlePlaces
<1>2. ASSUME NEW u \in Users, NEW t \in StoreTxns, VerifyPurchase(c, u, t)
      PROVE  CallMeant(c)'
  <2>1. /\ call'[c].at = "storeFreeze" /\ call'[c].user = u /\ call'[c].ref = t
        /\ call'[c].txn = t /\ call'[c].amount = product
    BY <1>2 DEF VerifyPurchase, TypeOK, Idle, LatestPublished
  <2>2. product \in 1 .. MaxVersion /\ t \in Txns /\ t \notin Refs
    BY DEF TypeOK, Txns, PaymentsAssumption
  <2>3. PaidOn(call[c].txn, call[c].ref)'
    BY <2>1, <2>2 DEF PaidOn
  <2>4. QED
    BY <2>1, <2>2, <2>3 DEF CallMeant, CallbackPlaces, SettlePlaces
\* From here the request goes on to settle.
<1>3. ASSUME NEW id \in Ids, orders'[id].ref = call[c].ref, orders'[id] # NoOrder,
             call' = [call EXCEPT ![c].at = "settle", ![c].id = id],
             UNCHANGED remote, call[c].at \in CallbackPlaces \cup StorePlaces
      PROVE  CallMeant(c)'
  <2>1. /\ call'[c].at = "settle" /\ call'[c].user = call[c].user /\ call'[c].id = id
        /\ call'[c].ref = call[c].ref /\ call'[c].txn = call[c].txn
    BY <1>3, CallFields DEF TypeOK, Call
  <2>2. /\ call[c].user \in Users /\ call[c].ref \in Refs \cup StoreTxns
        /\ call[c].txn \in Txns /\ PaidOn(call[c].txn, call[c].ref)
    BY <1>3 DEF CallMeant, CallbackPlaces, StorePlaces
  <2>3. PaidOn(call[c].txn, call[c].ref)'
    BY <1>3, <2>1, <2>2 DEF PaidOn
  <2>4. QED
    BY <1>3, <2>1, <2>2, <2>3 DEF CallMeant, CallbackPlaces, StorePlaces
<1>4. ASSUME NEW place \in {"findAgain", "storeLookup", "settle", "commit", "resolve"},
             Goto(c, place), UNCHANGED <<orders, remote>>,
             \/ place = "findAgain" /\ call[c].at \in CallbackPlaces
             \/ place = "storeLookup" /\ call[c].at = "storeFreeze"
             \/ place \in SettlePlaces /\ call[c].at \in SettlePlaces,
             place \in {"commit", "resolve"} => orders[call[c].id].user = call[c].user
      PROVE  CallMeant(c)'
  <2>1. place \in Places
    BY DEF Places, CallbackPlaces, StorePlaces, SettlePlaces
  <2>2. /\ call'[c].at = place /\ call'[c].user = call[c].user /\ call'[c].id = call[c].id
        /\ call'[c].ref = call[c].ref /\ call'[c].txn = call[c].txn
        /\ call'[c].amount = call[c].amount
    BY <1>4, <2>1, CallGoes
  <2>3. PaidOn(call[c].txn, call[c].ref)' <=> PaidOn(call[c].txn, call[c].ref)
    BY <1>4, <2>2 DEF PaidOn
  <2>4. QED
    BY <1>4, <2>2, <2>3 DEF CallMeant, CallbackPlaces, StorePlaces, SettlePlaces
<1>5. ASSUME FindOrder(c)
      PROVE  CallMeant(c)'
  <2>1. call[c].ref \in Refs /\ UNCHANGED <<orders, remote>> /\ call[c].at \in CallbackPlaces
    BY <1>5 DEF FindOrder, CallMeant
  <2>2. \A id \in Bound(call[c].ref) :
           id \in Ids /\ orders[id].ref = call[c].ref /\ orders[id] # NoOrder
    BY <2>1, OrderFields DEF Bound, PaymentsAssumption
  <2>3. QED
    BY <1>0, <1>3, <1>4, <1>5, <2>1, <2>2 DEF FindOrder
<1>6. ASSUME FreezeStoreOrder(c)
      PROVE  CallMeant(c)'
  <2>1. /\ call[c].at = "storeFreeze" /\ UNCHANGED remote
        /\ call[c].user \in Users
    BY <1>6 DEF FreezeStoreOrder, CallMeant
  <2>2. ASSUME NEW id \in Tickets,
               orders' = [orders EXCEPT ![id] = Frozen(call[c].user, call[c].ref, call[c].amount)],
               call' = [call EXCEPT ![c].at = "settle", ![c].id = id]
        PROVE  CallMeant(c)'
    <3>1. id \in Ids
      BY DEF Ids
    <3>2. orders'[id] = Frozen(call[c].user, call[c].ref, call[c].amount)
      BY <2>2, <3>1 DEF TypeOK
    <3>3. orders'[id].ref = call[c].ref /\ orders'[id] # NoOrder
      BY <2>1, <3>2, Markers DEF Frozen
    <3>4. QED
      BY <1>3, <2>1, <2>2, <3>1, <3>3 DEF StorePlaces
  <2>3. QED
    BY <1>4, <1>6, <2>1, <2>2 DEF FreezeStoreOrder
<1>7. ASSUME LookupStoreOrder(c)
      PROVE  CallMeant(c)'
  <2>1. /\ call[c].at = "storeLookup" /\ UNCHANGED <<orders, remote>>
        /\ call[c].ref \in StoreTxns
    BY <1>7 DEF LookupStoreOrder, CallMeant, StorePlaces
  <2>2. \A id \in Bound(call[c].ref) :
           id \in Ids /\ orders[id].ref = call[c].ref /\ orders[id] # NoOrder
    BY <2>1, OrderFields DEF Bound, PaymentsAssumption
  <2>3. QED
    BY <1>0, <1>3, <1>7, <2>1, <2>2 DEF LookupStoreOrder, StorePlaces
<1>8. ASSUME ReadSettlement(c)
      PROVE  CallMeant(c)'
  <2>1. call[c].at = "settle" /\ UNCHANGED <<orders, remote>>
    BY <1>8 DEF ReadSettlement
  <2>2. Answer(c) \/ (Goto(c, "commit") /\ orders[call[c].id].user = call[c].user)
    BY <1>8 DEF ReadSettlement, Matches
  <2>3. QED
    BY <1>0, <1>4, <2>1, <2>2 DEF SettlePlaces
<1>9. ASSUME SettlementConflict(c)
      PROVE  CallMeant(c)'
  <2>1. call[c].at = "commit" /\ UNCHANGED <<orders, remote>> /\ (Goto(c, "settle") \/ Goto(c, "resolve"))
    BY <1>9 DEF SettlementConflict
  <2>2. orders[call[c].id].user = call[c].user
    BY <2>1 DEF CallMeant
  <2>3. QED
    BY <1>4, <2>1, <2>2 DEF SettlePlaces
<1>10. CASE CommitSettlement(c) \/ ResolveSettlement(c) \/ NoTicketLeft(c) \/ Fail(c)
  BY <1>0, <1>10 DEF CommitSettlement, ResolveSettlement, NoTicketLeft, Fail
<1>11. QED
  BY <1>1, <1>2, <1>5, <1>6, <1>7, <1>8, <1>9, <1>10

\* Every request may go on relying on what its place says.
LEMMA CallsStep ==
    ASSUME PaymentsAssumption, TypeOK, TypeOK', KeyOrdersMeant, RemoteMeant, CallsMeant,
           [Next]_vars,
           \A id \in Ids : OrderKept(id), \A r \in Refs : RemoteKept(r)
    PROVE  CallsMeant'
<1> SUFFICES ASSUME NEW d \in Calls PROVE CallMeant(d)'
  BY DEF CallsMeant
<1>1. CallMeant(d)
  BY DEF CallsMeant
<1>2. CASE call'[d] = call[d]
  BY <1>1, <1>2, CallStays
<1>3. CASE \/ Progress(d)
           \/ \E u \in Users, k \in Keys \cup {NoKey} : Checkout(d, u, k)
           \/ \E r \in Refs, t \in PayCoresTxns, n \in Nonces : Confirm(d, r, t, n)
           \/ \E u \in Users, t \in StoreTxns : VerifyPurchase(d, u, t)
           \/ Fail(d)
  BY <1>1, <1>3, CheckoutMeant, SettlementMeant DEF Progress
<1>4. CASE call'[d] # call[d]
  <2>1. PICK c \in Calls :
           \/ Progress(c)
           \/ \E u \in Users, k \in Keys \cup {NoKey} : Checkout(c, u, k)
           \/ \E r \in Refs, t \in PayCoresTxns, n \in Nonces : Confirm(c, r, t, n)
           \/ \E u \in Users, t \in StoreTxns : VerifyPurchase(c, u, t)
           \/ Fail(c)
    BY <1>4 DEF Next, Calm, vars, Pay, ExpireNonce, PublishVersion
  <2>2. c = d
    BY <1>4, <2>1, OthersStay
  <2>3. QED
    BY <1>3, <2>1, <2>2
<1>5. QED
  BY <1>2, <1>4
----------------------------------------------------------------------------
\* The inductive invariant holds initially.
LEMMA InvariantInit ==
    ASSUME PaymentsAssumption, Init
    PROVE  IInv
<1>1. TypeOK
  BY TypeInit
<1>2. KeyOrdersMeant
  <2>1. \A u \in Users, k \in Keys : <<u, k>> \in Ids
    BY DEF Ids
  <2>2. QED
    BY <2>1 DEF Init, KeyOrdersMeant
<1>3. RemoteMeant /\ UrlsAgree /\ AcksTruthful
  BY DEF Init, RemoteMeant, UrlsAgree, AcksTruthful
<1>4. CallsMeant
  BY Markers DEF Init, CallsMeant, CallMeant, CallbackPlaces, StorePlaces, SettlePlaces
<1>5. CreditedOnce
  BY Markers DEF Init, CreditedOnce, CreditedFor, ReceiptsOf
<1>6. QED
  BY <1>1, <1>2, <1>3, <1>4, <1>5 DEF IInv

\* The facts a step keeps, together.
LEMMA InvariantStep ==
    ASSUME PaymentsAssumption, IInv, [Next]_vars
    PROVE  /\ IInv'
           /\ \A id \in Ids : OrderKept(id)
           /\ \A r \in Refs : RemoteKept(r)
           /\ \A t \in Txns : ReceiptKept(t)
<1> USE PaymentsAssumption
<1>1. /\ TypeOK /\ KeyOrdersMeant /\ RemoteMeant /\ CallsMeant
      /\ CreditedOnce /\ UrlsAgree /\ AcksTruthful
  BY DEF IInv
<1>2. TypeOK'
  BY <1>1, TypeStep
<1>3. \A id \in Ids : OrderKept(id)
  BY <1>1, <1>2, OrdersKept
<1>4. (\A r \in Refs : RemoteKept(r)) /\ (\A t \in Txns : ReceiptKept(t))
  BY <1>1, RemotesKept, ReceiptsKept
<1>5. KeyOrdersMeant' /\ RemoteMeant'
  BY <1>1, <1>3, <1>4, KeyOrdersStep, RemoteStep
<1>6. CallsMeant'
  BY <1>1, <1>2, <1>3, <1>4, CallsStep
<1>7. CreditedOnce'
  BY <1>1, <1>4, CreditedStep
<1>8. UrlsAgree'
  BY <1>1, <1>2, <1>3, <1>4, <1>5, UrlsStep
<1>9. AcksTruthful'
  BY <1>1, <1>2, <1>4, AcksStep
<1>10. QED
  BY <1>2, <1>3, <1>4, <1>5, <1>6, <1>7, <1>8, <1>9 DEF IInv

\* Every reachable state satisfies the inductive invariant: at each place of a
\* checkout, a confirmation and a purchase the request may rely on the order,
\* the number and the transaction it carries, and no order is credited twice.
THEOREM InvariantHolds == Spec => []IInv
<1>1. Init => IInv
  BY InvariantInit, PaymentsAssumption
<1>2. IInv /\ [Next]_vars => IInv'
  BY InvariantStep, PaymentsAssumption
<1>3. QED
  BY <1>1, <1>2, PTL DEF Spec

\* Every variable keeps its type, for any users, keys, numbers and requests.
THEOREM TypeCorrect == Spec => []TypeOK
<1>1. IInv => TypeOK
  BY DEF IInv
<1>2. QED
  BY <1>1, InvariantHolds, PTL

\* Whatever is confirmed how often, by whom and in which order, a paid order
\* has one receipt, for its own user and amount and for a payment on its own
\* number, and an order that is not paid has none.
THEOREM OrdersCreditedOnce == Spec => []CreditedOnce
<1>1. IInv => CreditedOnce
  BY DEF IInv
<1>2. QED
  BY <1>1, InvariantHolds, PTL

\* A user who follows a checkout URL pays for the order it was returned for:
\* its number, its user and its amount.
THEOREM UrlsNeverLie == Spec => []UrlsAgree
<1>1. IInv => UrlsAgree
  BY DEF IInv
<1>2. QED
  BY <1>1, InvariantHolds, PTL

\* A confirmation or a purchase is never answered with success before the
\* credit of its transaction is committed, nor to another user than its own.
THEOREM AcksNeverLie == Spec => []AcksTruthful
<1>1. IInv => AcksTruthful
  BY DEF IInv
<1>2. QED
  BY <1>1, InvariantHolds, PTL

\* No step changes what an order froze, rebinds it, takes back its payment or
\* rewrites a receipt.
THEOREM OrdersStayFrozen == Spec => OrdersFrozen
<1>1. IInv /\ [Next]_vars =>
        [/\ \A id \in Ids : orders[id] # NoOrder =>
              /\ orders'[id].user = orders[id].user
              /\ orders'[id].amount = orders[id].amount
              /\ orders[id].ref # Local => orders'[id].ref = orders[id].ref
              /\ orders[id].status = "paid" => orders'[id].status = "paid"
         /\ \A t \in Txns : receipts[t] # NoReceipt => receipts'[t] = receipts[t]]_vars
  BY InvariantStep, PaymentsAssumption DEF OrderKept, ReceiptKept
<1>2. QED
  BY <1>1, InvariantHolds, PTL DEF Spec, OrdersFrozen

\* The checkouts of a request converge on one order, whose facts stay.
THEOREM CheckoutsDoConverge == Spec => CheckoutsConverge
  BY OrdersStayFrozen, UrlsNeverLie, PTL DEF CheckoutsConverge
----------------------------------------------------------------------------
(* Balances are sums over a set of orders of any size: a finite one, which *)
(* a settlement makes larger by one.                                       *)

\* The sum of the amounts g gives the members of S, and the function Totals
\* sums up.
Amounts(g, S) == MapThenSumSet(LAMBDA id : g[id].amount, S)
AmountIn(g, T) == [x \in T |-> g[x].amount]

\* Orders whose amounts are numbers.
Priced(g, S) == \A x \in S : g[x].amount \in Int

\* Both sums are the same.
LEMMA AmountsAdd ==
    ASSUME NEW g, NEW T, NEW S \in SUBSET T, IsFiniteSet(S), Priced(g, S)
    PROVE  Amounts(g, S) = Total(AmountIn(g, T), S)
<1> DEFINE f == AmountIn(g, T)
           Solves(F) == F = [s \in SUBSET S |-> IF s = {} THEN 0
                                                ELSE g[Pick(s)].amount + F[s \ {Pick(s)}]]
           C == CHOOSE F : Solves(F)
<1>1. Amounts(g, S) = C[S]
  BY Zenon DEF Amounts, MapThenSumSet, MapThenFoldSet, Pick
<1>2. \A s \in SUBSET S : s # {} => Pick(s) \in S /\ f[Pick(s)] = g[Pick(s)].amount
  BY DEF Pick, AmountIn
<1>3. Numbered(f, S)
  BY DEF Priced, Numbered, AmountIn
<1> HIDE DEF f
<1>4. PICK F \in Tables(S) : Summed(f, F)
  BY <1>3, Summable
<1>5. Solves(F)
  <2> DEFINE G == [s \in SUBSET S |-> IF s = {} THEN 0
                                      ELSE g[Pick(s)].amount + F[s \ {Pick(s)}]]
  <2>1. \A s \in SUBSET S : G[s] = F[s]
    BY <1>2, <1>4, TableOf DEF Summed, SumsAt
  <2>2. QED
    BY <2>1 DEF Tables
<1>6. Solves(C)
  BY <1>5, Zenon
<1> HIDE DEF C
<1>7. DOMAIN C = SUBSET S /\ Summed(f, C)
  BY <1>2, <1>6 DEF Summed, SumsAt
<1>8. Total(f, S) = C[S]
  BY <1>7, TotalOf
<1>9. QED
  BY <1>1, <1>8 DEF f

\* So nothing adds up to nothing,
LEMMA NothingAmounts == ASSUME NEW g PROVE Amounts(g, {}) = 0
<1>1. Amounts(g, {}) = Total(AmountIn(g, {}), {})
  BY AmountsAdd, FS_EmptySet DEF Priced
<1>2. QED
  BY <1>1, NothingTotals

\* one order more adds its amount,
LEMMA OneOrderMore ==
    ASSUME NEW g, NEW S, NEW x, IsFiniteSet(S), x \notin S, Priced(g, S \cup {x})
    PROVE  Amounts(g, S \cup {x}) = Amounts(g, S) + g[x].amount
<1> DEFINE T == S \cup {x}
           f == AmountIn(g, T)
<1>1. IsFiniteSet(T) /\ S \in SUBSET T /\ T \in SUBSET T /\ Priced(g, S)
  BY FS_AddElement DEF Priced
<1>2. Amounts(g, S) = Total(f, S) /\ Amounts(g, T) = Total(f, T)
  BY <1>1, AmountsAdd
<1>3. f[x] = g[x].amount /\ Numbered(f, T)
  BY DEF AmountIn, Numbered, Priced
<1> HIDE DEF f
<1>4. Total(f, T) = Total(f, S) + f[x]
  BY <1>3, OneMore
<1>5. QED
  BY <1>2, <1>3, <1>4

\* and only the amounts of the orders summed up count.
LEMMA SameAmounts ==
    ASSUME NEW g, NEW h, NEW S, IsFiniteSet(S), Priced(g, S),
           \A x \in S : h[x].amount = g[x].amount
    PROVE  Amounts(g, S) = Amounts(h, S)
<1>1. AmountIn(g, S) = AmountIn(h, S)
  BY DEF AmountIn
<1>2. S \in SUBSET S /\ Priced(h, S)
  BY DEF Priced
<1>3. Amounts(g, S) = Total(AmountIn(g, S), S) /\ Amounts(h, S) = Total(AmountIn(h, S), S)
  BY <1>2, AmountsAdd
<1>4. QED
  BY <1>1, <1>3

\* What a user has paid.
PaidBy(u) == {id \in Ids : orders[id].user = u /\ orders[id].status = "paid"}

\* Only finitely many orders are ever paid, one by one.
FinitelyPaid == IsFiniteSet({id \in Ids : orders[id].status = "paid"})

\* What a settlement preserves.
BInv == FinitelyPaid /\ BalanceOfPaidOrders

\* The balances as the sums those lemmas are about, now
LEMMA BalanceIsSum ==
    BalanceOfPaidOrders <=> \A u \in Users : balance[u] = Amounts(orders, PaidBy(u))
  BY Zenon DEF BalanceOfPaidOrders, Amounts, PaidBy

\* and after a step.
LEMMA NextBalanceIsSum ==
    BalanceOfPaidOrders' <=> \A u \in Users : balance'[u] = Amounts(orders', PaidBy(u)')
  BY Zenon DEF BalanceOfPaidOrders, Amounts, PaidBy, MapThenSumSet, MapThenFoldSet

\* What a user has paid can be summed up.
LEMMA PaidByFinite ==
    ASSUME PaymentsAssumption, TypeOK, FinitelyPaid, NEW u \in Users
    PROVE  IsFiniteSet(PaidBy(u)) /\ Priced(orders, PaidBy(u))
<1>1. IsFiniteSet(PaidBy(u))
  BY FS_Subset DEF FinitelyPaid, PaidBy
<1>2. \A id \in PaidBy(u) : orders[id].amount \in Nat
  BY OrderFields DEF PaidBy
<1>3. QED
  BY <1>1, <1>2 DEF Priced

\* A step that pays no order and changes no paid one keeps the sums.
LEMMA SamePaid ==
    ASSUME PaymentsAssumption, TypeOK, BInv,
           balance' = balance,
           \A id \in Ids : orders'[id].status = "paid" <=> orders[id].status = "paid",
           \A id \in Ids : orders[id].status = "paid" => orders'[id] = orders[id]
    PROVE  BInv'
<1>1. FinitelyPaid'
  BY DEF BInv, FinitelyPaid
<1>2. ASSUME NEW u \in Users PROVE balance'[u] = Amounts(orders', PaidBy(u)')
  <2>1. PaidBy(u)' = PaidBy(u)
    BY DEF PaidBy
  <2>2. \A id \in PaidBy(u) : orders'[id].amount = orders[id].amount
    BY DEF PaidBy
  <2>3. IsFiniteSet(PaidBy(u)) /\ Priced(orders, PaidBy(u))
    BY PaidByFinite DEF BInv
  <2>4. Amounts(orders, PaidBy(u)) = Amounts(orders', PaidBy(u))
    BY <2>2, <2>3, SameAmounts
  <2>5. balance[u] = Amounts(orders, PaidBy(u))
    BY BalanceIsSum DEF BInv
  <2>6. QED
    BY <2>1, <2>4, <2>5
<1>3. QED
  BY <1>1, <1>2, NextBalanceIsSum DEF BInv

\* A settlement credits the order it pays, to its user and to nobody else.
LEMMA SettlementAddsUp ==
    ASSUME PaymentsAssumption, IInv, BInv, NEW c \in Calls, CommitSettlement(c)
    PROVE  BInv'
<1> DEFINE x == call[c].id
           buyer == orders[x].user
<1>1. x \in Ids /\ orders[x] \in Order /\ orders[x].status = "pending" /\ TypeOK
  BY OrderFields DEF CommitSettlement, Unsettled, IInv, CallsMeant, CallMeant, SettlePlaces
<1>2. /\ orders' = [orders EXCEPT ![x].status = "paid"]
      /\ balance' = [balance EXCEPT ![buyer] = @ + orders[x].amount]
  BY DEF CommitSettlement, Fact
<1>3. /\ orders'[x] = [orders[x] EXCEPT !.status = "paid"]
      /\ \A id \in Ids \ {x} : orders'[id] = orders[id]
  BY <1>1, <1>2 DEF TypeOK
<1>4. /\ orders'[x].user = buyer /\ orders'[x].status = "paid"
      /\ orders'[x].amount = orders[x].amount
      /\ buyer \in Users /\ orders[x].amount \in Nat
  BY <1>1, <1>3 DEF Order
<1> HIDE DEF x, buyer
<1>5. FinitelyPaid'
  <2>1. {id \in Ids : orders'[id].status = "paid"} =
           {id \in Ids : orders[id].status = "paid"} \cup {x}
    BY <1>1, <1>3, <1>4
  <2>2. QED
    BY <2>1, FS_AddElement DEF BInv, FinitelyPaid
<1>6. ASSUME NEW u \in Users PROVE balance'[u] = Amounts(orders', PaidBy(u)')
  <2>1. balance[u] = Amounts(orders, PaidBy(u))
    BY BalanceIsSum DEF BInv
  <2>2. IsFiniteSet(PaidBy(u)) /\ Priced(orders, PaidBy(u))
    BY <1>1, PaidByFinite DEF BInv
  <2>3. x \notin PaidBy(u) /\ \A id \in PaidBy(u) : orders'[id].amount = orders[id].amount
    BY <1>1, <1>3 DEF PaidBy
  <2>4. Amounts(orders, PaidBy(u)) = Amounts(orders', PaidBy(u))
    BY <2>2, <2>3, SameAmounts
  <2>5. balance'[u] = IF u = buyer THEN balance[u] + orders[x].amount ELSE balance[u]
    BY <1>1, <1>2, <1>4 DEF TypeOK
  <2>6. CASE u = buyer
    <3>1. PaidBy(u)' = PaidBy(u) \cup {x}
      BY <1>1, <1>3, <1>4, <2>6 DEF PaidBy
    <3>2. Priced(orders', PaidBy(u) \cup {x})
      BY <1>4, <2>2, <2>3 DEF Priced
    <3>3. Amounts(orders', PaidBy(u) \cup {x}) = Amounts(orders', PaidBy(u)) + orders'[x].amount
      BY <2>2, <2>3, <3>2, OneOrderMore
    <3>4. QED
      BY <1>4, <2>1, <2>4, <2>5, <2>6, <3>1, <3>3
  <2>7. CASE u # buyer
    <3>1. PaidBy(u)' = PaidBy(u)
      BY <1>1, <1>3, <1>4, <2>7 DEF PaidBy
    <3>2. QED
      BY <2>1, <2>4, <2>5, <2>7, <3>1
  <2>8. QED
    BY <2>6, <2>7
<1>7. QED
  BY <1>5, <1>6, NextBalanceIsSum DEF BInv

\* Every step keeps the sums: only a settlement pays an order, and creating
\* or binding one touches none that is paid.
LEMMA BalanceStep ==
    ASSUME PaymentsAssumption, IInv, BInv, [Next]_vars
    PROVE  BInv'
<1> USE PaymentsAssumption
<1>0. TypeOK /\ CallsMeant
  BY DEF IInv
<1> DEFINE Same == /\ balance' = balance
                   /\ \A id \in Ids : orders'[id].status = "paid" <=> orders[id].status = "paid"
                   /\ \A id \in Ids : orders[id].status = "paid" => orders'[id] = orders[id]
<1>1. CASE UNCHANGED orders /\ UNCHANGED balance
  <2>1. Same
    BY <1>1
  <2>2. QED
    BY <1>0, <2>1, SamePaid
<1>2. ASSUME NEW c \in Calls, CommitSettlement(c) PROVE BInv'
  BY <1>2, SettlementAddsUp
<1>3. ASSUME NEW c \in Calls, FreezeOrder(c) \/ FreezeStoreOrder(c) \/ BindOrder(c),
             orders' # orders
      PROVE  Same
  <2>1. \E id \in Ids : /\ orders[id].status # "paid" /\ orders'[id].status # "paid"
                        /\ \A other \in Ids \ {id} : orders'[other] = orders[other]
    <3>1. CASE FreezeOrder(c)
      <4>1. PICK id \in IF call[c].id = NoId THEN Tickets ELSE {call[c].id} :
                /\ orders[id] = NoOrder
                /\ orders' = [orders EXCEPT ![id] = Frozen(call[c].user, Local, call[c].amount)]
        BY <3>1 DEF FreezeOrder
      <4>2. id \in Ids
        BY <1>0, <4>1, CallFields DEF Ids
      <4>3. orders'[id] = Frozen(call[c].user, Local, call[c].amount)
        BY <1>0, <4>1, <4>2 DEF TypeOK
      <4>4. QED
        BY <1>0, <4>1, <4>2, <4>3, Markers DEF Frozen, TypeOK
    <3>2. CASE FreezeStoreOrder(c)
      <4>1. Tickets \subseteq Ids
        BY DEF Ids
      <4>2. PICK id \in Tickets :
                /\ orders[id] = NoOrder
                /\ orders' = [orders EXCEPT ![id] = Frozen(call[c].user, call[c].ref, call[c].amount)]
        BY <1>3, <3>2 DEF FreezeStoreOrder
      <4>3. orders'[id] = Frozen(call[c].user, call[c].ref, call[c].amount)
        BY <1>0, <4>1, <4>2 DEF TypeOK
      <4>4. QED
        BY <1>0, <4>1, <4>2, <4>3, Markers DEF Frozen, TypeOK
    <3>3. CASE BindOrder(c)
      <4>1. call[c].id \in Ids /\ orders[call[c].id] \in Order
        BY <1>0, <3>3, OrderFields DEF BindOrder, CallsMeant, CallMeant
      <4>2. /\ orders[call[c].id].status = "pending"
            /\ orders' = [orders EXCEPT ![call[c].id] = [orders[call[c].id] EXCEPT !.ref = call[c].ref]]
        BY <1>3, <3>3 DEF BindOrder, MayBind
      <4>3. [orders[call[c].id] EXCEPT !.ref = call[c].ref].status = "pending"
        BY <4>1, <4>2 DEF Order
      <4>4. QED
        BY <1>0, <4>1, <4>2, <4>3 DEF TypeOK
    <3>4. QED
      BY <1>3, <3>1, <3>2, <3>3
  <2>2. balance' = balance
    BY <1>3 DEF FreezeOrder, FreezeStoreOrder, BindOrder
  <2>3. QED
    BY <1>0, <2>1, <2>2 DEF TypeOK
<1>4. ASSUME NEW c \in Calls, FreezeOrder(c) \/ FreezeStoreOrder(c) \/ BindOrder(c)
      PROVE  BInv'
  <2>1. CASE orders' # orders
    BY <1>0, <1>3, <1>4, <2>1, SamePaid
  <2>2. CASE orders' = orders
    BY <1>1, <1>4, <2>2 DEF FreezeOrder, FreezeStoreOrder, BindOrder
  <2>3. QED
    BY <2>1, <2>2
<1> HIDE DEF Same
<1>5. QED
  BY <1>1, <1>2, <1>4, Writers

\* Nothing is paid and nobody has a balance at first.
LEMMA BalanceInit ==
    ASSUME PaymentsAssumption, Init
    PROVE  BInv
<1>1. \A id \in Ids : orders[id].status # "paid"
  BY Markers DEF Init
<1>2. FinitelyPaid
  <2>1. {id \in Ids : orders[id].status = "paid"} = {}
    BY <1>1
  <2>2. QED
    BY <2>1, FS_EmptySet DEF FinitelyPaid
<1>3. ASSUME NEW u \in Users PROVE balance[u] = Amounts(orders, PaidBy(u))
  <2>1. PaidBy(u) = {}
    BY <1>1 DEF PaidBy
  <2>2. QED
    BY <2>1, NothingAmounts DEF Init
<1>4. QED
  BY <1>2, <1>3, BalanceIsSum DEF BInv

\* A balance is what its user has paid for, each order once, over any number of
\* orders, confirmations and settlements that race.
THEOREM BalancesAreSums == Spec => []BalanceOfPaidOrders
<1>1. Init => BInv
  BY BalanceInit, PaymentsAssumption
<1>2. IInv /\ BInv /\ [Next]_vars => BInv'
  BY BalanceStep, PaymentsAssumption
<1>3. BInv => BalanceOfPaidOrders
  BY DEF BInv
<1>4. QED
  BY <1>1, <1>2, <1>3, InvariantHolds, PTL DEF Spec
=============================================================================
