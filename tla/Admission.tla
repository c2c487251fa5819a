------------------------------ MODULE Admission ------------------------------
(***************************************************************************)
(* From a client's request to a reserved creation, and every other way the *)
(* wallet moves: the reservation of diamonds or daily quota, its reversal  *)
(* or confiscation, an operator's adjustment, a granted subscription, a    *)
(* suspended account.                                                      *)
(*                                                                         *)
(* CreateReserved looks for the idempotency key outside any transaction,   *)
(* freezes the business time, and then runs a transaction that reads the   *)
(* user and the subscription without writing them.  Open is the snapshot   *)
(* of that transaction: everything it will write follows from it.  Commit  *)
(* writes it, unless somebody has written one of the same documents since, *)
(* in which case the driver runs the callback again.                       *)
(*                                                                         *)
(* A creation, its steps and its reservation are inserted together and     *)
(* have one identifier, here the idempotency key.  Daily quota documents   *)
(* are created by nothing in the service: they exist or not from the start.*)
(***************************************************************************)
EXTENDS Integers, FiniteSets, FiniteSetsExt

CONSTANTS
    Users,
    Keys,         \* idempotency keys of creations
    Calls,        \* CreateReserved requests
    Products,     \* commands a request may carry, up to their fingerprint
    Kinds,        \* kinds of daily quota
    KindOf,       \* the kind of quota a product consumes
    Price,        \* its price in diamonds
    Units,        \* its units of daily quota
    VipOnly,      \* products that need a subscription
    Tickets,      \* idempotency keys of adjustments, each with its operator
    Deltas,       \* amounts of adjustments
    Base,         \* daily quota of a subscriber
    Opening,      \* balance an account starts with
    Cap,          \* largest balance an adjustment may reach
    GrantDays,    \* days an operator grants
    MaxDay,       \* bound on the calendar
    MaxOps,       \* bound on what the operators do to accounts and subscriptions
    NoUser, NoKey, NoProduct, NoTicket

VARIABLES
    users,        \* account status and binding
    subs,         \* subscription: billing period and day it expires
    quotas,       \* daily_quotas: limit (0: no document) and used count
    balance,      \* diamond_balance of each account
    creations,    \* creations with their reservation
    entries,      \* ledger entries
    audits,       \* audit rows of adjustments
    today,
    ops,          \* history: what the operators have done
    call,         \* where each request stands
    answers       \* history: successful answers

money == <<quotas, balance, creations, entries>>
admissionVars == <<users, subs, quotas, balance, creations, entries, audits,
                   today, ops, call, answers>>
-----------------------------------------------------------------------------
Days == 1 .. MaxDay
Statuses == {"normal", "banned", "deleted"}
Periods == {"none", "monthly", "yearly"}
Sources == {"diamonds", "daily_quota"}
QuotaIds == Users \X Kinds \X Days

NoCreation == [user |-> NoUser, product |-> NoProduct, source |-> "none",
               charged |-> 0, date |-> 0, units |-> 0, status |-> "none"]
Idle == [at |-> "idle", user |-> NoUser, key |-> NoKey, product |-> NoProduct,
         day |-> 0, plan |-> NoCreation, lost |-> FALSE]

ASSUME AdmissionAssumption ==
    /\ Users # {} /\ NoUser \notin Users
    /\ Products # {} /\ NoProduct \notin Products
    /\ NoKey \notin Keys
    /\ NoTicket \notin [user : Users, delta : Deltas, balance : Nat]
    /\ KindOf \in [Products -> Kinds]
    /\ Price \in [Products -> Nat \ {0}]
    /\ Units \in [Products -> Nat \ {0}]
    /\ VipOnly \subseteq Products
    /\ Deltas \subseteq Int \ {0}
    /\ \A p \in Products : Units[p] <= Base
    /\ Base \in Nat \ {0} /\ Opening \in Nat /\ Cap \in Nat
    /\ GrantDays \in Nat \ {0} /\ MaxDay \in Nat \ {0} /\ MaxOps \in Nat

AdmissionInit ==
    /\ users \in [Users -> [status : {"normal"}, bound : BOOLEAN]]
    /\ subs \in [Users -> [period : Periods, until : {MaxDay}]]
    /\ quotas \in [QuotaIds -> [limit : {0, Base, 2 * Base}, used : {0}]]
    /\ balance = [u \in Users |-> Opening]
    /\ creations = [k \in Keys |-> NoCreation]
    /\ entries = {}
    /\ audits = [t \in Tickets |-> NoTicket]
    /\ today = 1
    /\ ops = 0
    /\ call = [c \in Calls |-> Idle]
    /\ answers = {}
-----------------------------------------------------------------------------
(* Entitlement: what a user may do at a moment.                            *)

IsVip(sub, day) == sub.period # "none" /\ sub.until > day

\* A subscriber's limit; doubled for the first month of a yearly one, which
\* on this calendar is its whole term.
QuotaLimit(sub, day) ==
    IF ~IsVip(sub, day) THEN 0
    ELSE IF sub.period = "yearly" THEN 2 * Base ELSE Base

MayGenerate(u, p, day) == users[u].bound /\ (p \in VipOnly => IsVip(subs[u], day))
-----------------------------------------------------------------------------
(* What the snapshot lets a reservation be.                                *)

\* Mistaken variant: a quota that is used up still serves.
QuotaServesBeyond(u, p, day) ==
    LET limit == QuotaLimit(subs[u], day)
    IN  limit > 0 /\ quotas[<<u, KindOf[p], day>>].limit = limit

\* The day's document counts only if it was created with the very limit the
\* request was evaluated with.
QuotaServes(u, p, day) ==
    LET limit == QuotaLimit(subs[u], day)
        quota == quotas[<<u, KindOf[p], day>>]
    IN  limit > 0 /\ quota.limit = limit /\ quota.used + Units[p] <= limit

Reserved(u, p, day) ==
    LET free == QuotaServes(u, p, day)
    IN  [user |-> u, product |-> p, date |-> day, status |-> "reserved",
         source |-> IF free THEN "daily_quota" ELSE "diamonds",
         charged |-> IF free THEN 0 ELSE Price[p],
         units |-> IF QuotaLimit(subs[u], day) = 0 THEN 0 ELSE Units[p]]

\* The documents a transaction writes; another that writes one of them first
\* makes it fail with a write conflict.
Writes(k, r) ==
    {<<"creation", k>>,
     IF r.source = "diamonds" THEN <<"account", r.user>>
     ELSE <<"quota", r.user, KindOf[r.product], r.date>>}

\* Mistaken variant: a transaction does not notice that it was overtaken.
OvertakeNone(docs, calls) == calls

Overtake(docs, calls) ==
    [c \in Calls |-> IF calls[c].at = "open" /\ Writes(calls[c].key, calls[c].plan) \cap docs # {}
                     THEN [calls[c] EXCEPT !.lost = TRUE] ELSE calls[c]]

QuotaOf(r) == <<r.user, KindOf[r.product], r.date>>

\* The document the units of a reversed reservation go back to.
Refunded(r) == QuotaOf(r)

\* The user and the command a creation was made by.
SameCommand(c, r) == r.user = call[c].user /\ r.product = call[c].product
-----------------------------------------------------------------------------
(* CreateReserved.                                                         *)

\* The request is checked, the user found available and the key looked up,
\* outside any transaction; the business time is fixed if the key is new.
Lookup(c, u, k, p) ==
    /\ call[c].at = "idle"
    /\ users[u].status = "normal"
    /\ call' = [call EXCEPT ![c] =
            [Idle EXCEPT !.user = u, !.key = k, !.product = p, !.day = today,
                         !.at = IF creations[k] = NoCreation THEN "frozen" ELSE "resolve"]]
    /\ UNCHANGED <<users, subs, money, audits, today, ops, answers>>

\* The transaction's snapshot.  The user is read again.
Open(c) ==
    LET u == call[c].user
        p == call[c].product
        r == Reserved(u, p, call[c].day)
    IN  /\ call[c].at = "frozen"
        /\ users[u].status = "normal"
        /\ MayGenerate(u, p, call[c].day)
        /\ creations[call[c].key] = NoCreation
        /\ r.source = "diamonds" => balance[u] >= Price[p]
        /\ call' = [call EXCEPT ![c].at = "open", ![c].plan = r, ![c].lost = FALSE]
        /\ UNCHANGED <<users, subs, money, audits, today, ops, answers>>

\* Creation, steps, reservation, ledger entry and first submission event.
Commit(c) ==
    LET k == call[c].key
        r == call[c].plan
    IN  /\ call[c].at = "open" /\ ~call[c].lost
        /\ creations' = [creations EXCEPT ![k] = r]
        /\ balance' = [balance EXCEPT ![r.user] = @ - r.charged]
        /\ quotas' = IF r.source = "daily_quota"
                     THEN [quotas EXCEPT ![QuotaOf(r)].used = @ + r.units] ELSE quotas
        /\ entries' = entries \cup {[key |-> <<"reserve", k>>, user |-> r.user, delta |-> -r.charged]}
        /\ call' = [Overtake(Writes(k, r), call) EXCEPT ![c].at = "done"]
        /\ answers' = answers \cup {[call |-> c, key |-> k, creation |-> [r EXCEPT !.status = "none"]]}
        /\ UNCHANGED <<users, subs, audits, today, ops>>

\* A write conflict: the callback runs again, with the business time it had.
Retry(c) ==
    /\ call[c].at = "open" /\ call[c].lost
    /\ call' = [call EXCEPT ![c].at = "frozen", ![c].plan = NoCreation, ![c].lost = FALSE]
    /\ UNCHANGED <<users, subs, money, audits, today, ops, answers>>

\* The transaction gives up: the account is gone, an entitlement is missing,
\* the diamonds do not suffice.
Refuse(c) ==
    LET u == call[c].user
        p == call[c].product
    IN  /\ call[c].at = "frozen"
        /\ \/ users[u].status # "normal"
           \/ ~MayGenerate(u, p, call[c].day)
           \/ /\ creations[call[c].key] = NoCreation
              /\ ~QuotaServes(u, p, call[c].day) /\ balance[u] < Price[p]
        /\ call' = [call EXCEPT ![c].at = "done"]
        /\ UNCHANGED <<users, subs, money, audits, today, ops, answers>>

\* The unique index refuses the insertion: the key was used meanwhile.
Duplicate(c) ==
    /\ call[c].at = "frozen"
    /\ creations[call[c].key] # NoCreation
    /\ users[call[c].user].status = "normal"
    /\ MayGenerate(call[c].user, call[c].product, call[c].day)
    /\ call' = [call EXCEPT ![c].at = "resolve"]
    /\ UNCHANGED <<users, subs, money, audits, today, ops, answers>>

\* An existing creation is returned to the user and the command that made it,
\* and to no other.
Resolve(c) ==
    LET k == call[c].key
        r == creations[k]
    IN  /\ call[c].at = "resolve"
        /\ answers' = IF SameCommand(c, r)
                      THEN answers \cup {[call |-> c, key |-> k, creation |-> [r EXCEPT !.status = "none"]]}
                      ELSE answers
        /\ call' = [call EXCEPT ![c].at = "done"]
        /\ UNCHANGED <<users, subs, money, audits, today, ops>>
-----------------------------------------------------------------------------
(* Settlement of a reservation by the pipeline.                            *)

\* ReverseInTx: only a reserved one; a reversed one stays as it is.
ReverseCharge(k) ==
    LET r == creations[k]
    IN  /\ r.status = "reserved"
        /\ creations' = [creations EXCEPT ![k].status = "reversed"]
        /\ IF r.source = "diamonds"
           THEN /\ balance' = [balance EXCEPT ![r.user] = @ + r.charged]
                /\ UNCHANGED quotas
           ELSE /\ quotas[Refunded(r)].used >= r.units
                /\ quotas' = [quotas EXCEPT ![Refunded(r)].used = @ - r.units]
                /\ UNCHANGED balance
        /\ entries' = entries \cup {[key |-> <<"reverse", k>>, user |-> r.user, delta |-> r.charged]}
        /\ call' = Overtake(Writes(k, r), call)
        /\ UNCHANGED <<users, subs, audits, today, ops, answers>>

\* ConfiscateInTx: no refund, no entry.
Confiscate(k) ==
    /\ creations[k].status = "reserved"
    /\ creations' = [creations EXCEPT ![k].status = "confiscated"]
    /\ UNCHANGED <<users, subs, quotas, balance, entries, audits, today, ops, call, answers>>
-----------------------------------------------------------------------------
(* The operators.                                                          *)

\* An adjustment moves the balance once per key; a repetition with the same
\* command finds its audit row, one with another command is refused.
Adjust(t, u, delta) ==
    /\ audits[t] = NoTicket
    /\ users[u].status = "normal"
    /\ IF delta < 0 THEN balance[u] >= -delta ELSE balance[u] <= Cap - delta
    /\ balance' = [balance EXCEPT ![u] = @ + delta]
    /\ entries' = entries \cup {[key |-> <<"adjust", t>>, user |-> u, delta |-> delta]}
    /\ audits' = [audits EXCEPT ![t] = [user |-> u, delta |-> delta, balance |-> balance[u] + delta]]
    /\ call' = Overtake({<<"account", u>>}, call)
    /\ UNCHANGED <<users, subs, quotas, creations, today, ops, answers>>

\* A granted subscription is monthly from then on; a valid one is extended
\* from the day it would have expired.
GrantSubscription(u) ==
    /\ users[u].status # "deleted"
    /\ LET base == IF subs[u].period # "none" /\ subs[u].until > today THEN subs[u].until ELSE today
       IN  /\ base + GrantDays <= MaxDay + 2
           /\ subs' = [subs EXCEPT ![u] = [period |-> "monthly", until |-> base + GrantDays]]
    /\ ops < MaxOps /\ ops' = ops + 1
    /\ UNCHANGED <<users, money, audits, today, call, answers>>

\* An account is suspended, taken back or deleted; requests in progress find
\* out at their next read.
ChangeUser(u, status) ==
    /\ users[u].status \notin {"deleted", status}
    /\ users' = [users EXCEPT ![u].status = status]
    /\ ops < MaxOps /\ ops' = ops + 1
    /\ UNCHANGED <<subs, money, audits, today, call, answers>>

NextDay ==
    /\ today < MaxDay
    /\ today' = today + 1
    /\ UNCHANGED <<users, subs, money, audits, ops, call, answers>>
-----------------------------------------------------------------------------
Request(c) ==
    \/ \E u \in Users, k \in Keys, p \in Products : Lookup(c, u, k, p)
    \/ Open(c) \/ Commit(c) \/ Retry(c) \/ Refuse(c) \/ Duplicate(c) \/ Resolve(c)

AdmissionNext ==
    \/ \E c \in Calls : Request(c)
    \/ \E k \in Keys : ReverseCharge(k) \/ Confiscate(k)
    \/ \E t \in Tickets, u \in Users, d \in Deltas : Adjust(t, u, d)
    \/ \E u \in Users : GrantSubscription(u)
    \/ \E u \in Users, s \in Statuses : ChangeUser(u, s)
    \/ NextDay

AdmissionSpec == AdmissionInit /\ [][AdmissionNext]_admissionVars
-----------------------------------------------------------------------------
CreationType == [user : Users, product : Products, source : Sources, charged : Nat,
                 date : Days, units : Nat,
                 status : {"none", "reserved", "reversed", "confiscated"}]

EntryKeys == ({"reserve", "reverse"} \X Keys) \cup ({"adjust"} \X Tickets)

\* The shape of the state; no balance falls below zero, and no quota document
\* is used beyond its limit.
AdmissionTypeOK ==
    /\ users \in [Users -> [status : Statuses, bound : BOOLEAN]]
    /\ subs \in [Users -> [period : Periods, until : Nat]]
    /\ quotas \in [QuotaIds -> [limit : Nat, used : Nat]]
    /\ \A q \in QuotaIds : quotas[q].used <= quotas[q].limit
    /\ balance \in [Users -> Nat]
    /\ creations \in [Keys -> CreationType \cup {NoCreation}]
    /\ entries \subseteq [key : EntryKeys, user : Users, delta : Int]
    /\ audits \in [Tickets -> [user : Users, delta : Deltas, balance : Nat] \cup {NoTicket}]
    /\ today \in Days
    /\ ops \in 0 .. MaxOps
    /\ call \in [Calls -> [at : {"idle", "frozen", "open", "resolve", "done"},
                           user : Users \cup {NoUser}, key : Keys \cup {NoKey},
                           product : Products \cup {NoProduct}, day : Days \cup {0},
                           plan : CreationType \cup {NoCreation}, lost : BOOLEAN]]
    /\ answers \subseteq [call : Calls, key : Keys, creation : CreationType]

SumOver(S, value(_)) == FoldSet(LAMBDA x, sum : value(x) + sum, 0, S)

\* What a set of entries moves, and what a set of creations reserved.
Moved(E) == SumOver(E, LAMBDA e : e.delta)
ReservedUnits(made, S) == SumOver(S, LAMBDA k : made[k].units)

\* Every balance is what the account was opened with and its ledger entries.
BalancesAddUp ==
    \A u \in Users : balance[u] = Opening + Moved({e \in entries : e.user = u})

\* The entries under the idempotency key a kind of movement gives a creation.
EntriesOf(kind, k) == {e \in entries : e.key = <<kind, k>>}

\* The entries of a creation say what its reservation became: charged once,
\* given back once if it was reversed, never otherwise.
EntriesTell ==
    \A k \in Keys :
        LET r == creations[k]
        IN  /\ EntriesOf("reserve", k) =
                    IF r = NoCreation THEN {}
                    ELSE {[key |-> <<"reserve", k>>, user |-> r.user, delta |-> -r.charged]}
            /\ EntriesOf("reverse", k) =
                    IF r.status # "reversed" THEN {}
                    ELSE {[key |-> <<"reverse", k>>, user |-> r.user, delta |-> r.charged]}

\* The wallet, its ledger and its creations never disagree.
WalletAddsUp == BalancesAddUp /\ EntriesTell

\* The creations whose units a day's quota holds.
Holding(q) ==
    {k \in Keys : /\ creations[k].source = "daily_quota"
                  /\ creations[k].status # "reversed"
                  /\ QuotaOf(creations[k]) = q}

\* A day's quota is used by exactly the reservations of that day that were not
\* given back, whatever became of the subscription since.  So a refund always
\* finds the units it returns, and cannot be stuck.
QuotaAccounted ==
    \A q \in QuotaIds : quotas[q].used = ReservedUnits(creations, Holding(q))

\* Every successful answer names the one creation of its key, and goes to the
\* user and the command that made it: repeated and concurrent requests are
\* told the same creation and pay for it once.
AnswersTruthful ==
    \A a \in answers :
        /\ a.creation = [creations[a.key] EXCEPT !.status = "none"]
        /\ a.creation.user = call[a.call].user
        /\ a.creation.product = call[a.call].product

\* Money and quotas, whatever requests, grants and refunds interleave.
AdmissionSafe == WalletAddsUp /\ QuotaAccounted /\ AnswersTruthful
=============================================================================
