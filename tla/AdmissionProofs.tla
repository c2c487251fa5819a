--------------------------- MODULE AdmissionProofs ---------------------------
(***************************************************************************)
(* Proofs about Admission, for any users, products, prices, idempotency    *)
(* keys, quotas and requests in progress.                                  *)
(***************************************************************************)
EXTENDS Admission, Totals, TLAPS

\* What a request is about to write is a reservation of its user and command.
PlanMeant(c) ==
    LET r == call[c].plan
    IN  /\ r \in CreationType
        /\ r.user = call[c].user /\ r.product = call[c].product
        /\ r.status = "reserved"
        /\ r.source = "daily_quota" => r.charged = 0

\* And it may still be written: nothing it was computed from was written since.
PlanInForce(c) ==
    LET r == call[c].plan
    IN  /\ creations[call[c].key] = NoCreation
        /\ r.source = "diamonds" => balance[r.user] >= r.charged
        /\ r.source = "daily_quota" =>
              quotas[QuotaOf(r)].used + r.units <= quotas[QuotaOf(r)].limit

\* Where a request stands says what it knows: one that has not been overtaken
\* holds a plan that still fits what is stored.
CallMeant(c) ==
    /\ call[c].at # "idle" =>
          /\ call[c].user \in Users /\ call[c].key \in Keys
          /\ call[c].product \in Products /\ call[c].day \in Days
    /\ call[c].at = "resolve" => creations[call[c].key] # NoCreation
    /\ call[c].at = "open" => PlanMeant(c) /\ (call[c].lost \/ PlanInForce(c))

CallsMeant == \A c \in Calls : CallMeant(c)

\* A creation was reserved once, and one paid with quota cost no diamonds.
CreationsMeant ==
    \A k \in Keys : creations[k] # NoCreation =>
        /\ creations[k].status \in {"reserved", "reversed", "confiscated"}
        /\ creations[k].source = "daily_quota" => creations[k].charged = 0

\* The ledger and the creations, the things that are summed, are finite.
BooksFinite ==
    IsFiniteSet(entries) /\ IsFiniteSet({k \in Keys : creations[k] # NoCreation})

\* An adjustment that was entered has its audit row.
AdjustmentsAudited ==
    \A e \in entries, t \in Tickets : e.key = <<"adjust", t>> => audits[t] # NoTicket

\* A request that was answered is done, and its creation is there.
AnswersStand ==
    \A a \in answers : call[a.call].at = "done" /\ creations[a.key] # NoCreation

\* The invariant: what the requests in progress know, that the books are finite,
\* and the properties of the wallet themselves.
IInv ==
    /\ AdmissionTypeOK /\ CallsMeant /\ CreationsMeant /\ BooksFinite
    /\ AdjustmentsAudited /\ AnswersStand
    /\ BalancesAddUp /\ EntriesTell /\ QuotaAccounted /\ AnswersTruthful
----------------------------------------------------------------------------
(* Sums.                                                                    *)

\* What each entry moves, as a function.
DeltaIn(T) == [e \in T |-> e.delta]

\* Entries that move numbers.
Plain(S) == \A e \in S : e.delta \in Int

\* What finitely many entries move is the total of what each of them moves.
LEMMA MovedAdds ==
    ASSUME NEW T, NEW S \in SUBSET T, IsFiniteSet(S), Plain(S)
    PROVE  Moved(S) = Total(DeltaIn(T), S)
<1> DEFINE f == DeltaIn(T)
           Solves(F) == F = [s \in SUBSET S |-> IF s = {} THEN 0
                                                ELSE Pick(s).delta + F[s \ {Pick(s)}]]
           C == CHOOSE F : Solves(F)
<1>1. Moved(S) = C[S]
  BY Zenon DEF Moved, SumOver, FoldSet, MapThenFoldSet, Pick
<1>2. \A s \in SUBSET S : s # {} => Pick(s) \in S /\ f[Pick(s)] = Pick(s).delta
  BY DEF Pick, DeltaIn
<1>3. Numbered(f, S)
  BY DEF Plain, Numbered, DeltaIn
<1> HIDE DEF f
<1>4. PICK F \in Tables(S) : Summed(f, F)
  BY <1>3, Summable
<1>5. Solves(F)
  <2> DEFINE G == [s \in SUBSET S |-> IF s = {} THEN 0 ELSE Pick(s).delta + F[s \ {Pick(s)}]]
  <2>1. \A s \in SUBSET S : G[s] = F[s]
    BY <1>2, <1>4, TableOf DEF Summed, SumsAt
  <2>2. QED
    BY <2>1 DEF Tables
<1>6. Solves(C)
  BY <1>5, Zenon
<1> HIDE DEF C
<1>7. DOMAIN C = SUBSET S /\ Summed(f, C)
  BY <1>2, <1>6 DEF Summed, SumsAt
<1>8. Total(f, S) = C[S]
  BY <1>7, TotalOf
<1>9. QED
  BY <1>1, <1>8 DEF f

\* No entry moves nothing.
LEMMA NothingMoved == Moved({}) = 0
<1>1. Moved({}) = Total(DeltaIn({}), {})
  BY MovedAdds, FS_EmptySet DEF Plain
<1>2. QED
  BY <1>1, NothingTotals

\* One entry more moves its amount more.
LEMMA OneEntryMore ==
    ASSUME NEW S, NEW x, IsFiniteSet(S), x \notin S, Plain(S \cup {x})
    PROVE  Moved(S \cup {x}) = Moved(S) + x.delta
<1> DEFINE T == S \cup {x}
           f == DeltaIn(T)
<1>1. IsFiniteSet(T) /\ S \in SUBSET T /\ T \in SUBSET T /\ Plain(S)
  BY FS_AddElement DEF Plain
<1>2. Moved(S) = Total(f, S) /\ Moved(T) = Total(f, T)
  BY <1>1, MovedAdds
<1>3. f[x] = x.delta /\ Numbered(f, T)
  BY DEF DeltaIn, Numbered, Plain
<1> HIDE DEF f
<1>4. Total(f, T) = Total(f, S) + f[x]
  BY <1>3, OneMore
<1>5. QED
  BY <1>2, <1>3, <1>4

\* The units each creation reserved, as a function.
UnitsIn(g, T) == [k \in T |-> g[k].units]

\* Creations that reserved numbers.
Counted(g, S) == \A k \in S : g[k].units \in Int

\* What finitely many creations reserved is the total of what each of them did.
LEMMA UnitsAdd ==
    ASSUME NEW g, NEW T, NEW S \in SUBSET T, IsFiniteSet(S), Counted(g, S)
    PROVE  ReservedUnits(g, S) = Total(UnitsIn(g, T), S)
<1> DEFINE f == UnitsIn(g, T)
           Solves(F) == F = [s \in SUBSET S |-> IF s = {} THEN 0
                                                ELSE g[Pick(s)].units + F[s \ {Pick(s)}]]
           C == CHOOSE F : Solves(F)
<1>1. ReservedUnits(g, S) = C[S]
  BY Zenon DEF ReservedUnits, SumOver, FoldSet, MapThenFoldSet, Pick
<1>2. \A s \in SUBSET S : s # {} => Pick(s) \in S /\ f[Pick(s)] = g[Pick(s)].units
  BY DEF Pick, UnitsIn
<1>3. Numbered(f, S)
  BY DEF Counted, Numbered, UnitsIn
<1> HIDE DEF f
<1>4. PICK F \in Tables(S) : Summed(f, F)
  BY <1>3, Summable
<1>5. Solves(F)
  <2> DEFINE G == [s \in SUBSET S |-> IF s = {} THEN 0 ELSE g[Pick(s)].units + F[s \ {Pick(s)}]]
  <2>1. \A s \in SUBSET S : G[s] = F[s]
    BY <1>2, <1>4, TableOf DEF Summed, SumsAt
  <2>2. QED
    BY <2>1 DEF Tables
<1>6. Solves(C)
  BY <1>5, Zenon
<1> HIDE DEF C
<1>7. DOMAIN C = SUBSET S /\ Summed(f, C)
  BY <1>2, <1>6 DEF Summed, SumsAt
<1>8. Total(f, S) = C[S]
  BY <1>7, TotalOf
<1>9. QED
  BY <1>1, <1>8 DEF f

\* No creation reserved nothing.
LEMMA NoUnits == ASSUME NEW g PROVE ReservedUnits(g, {}) = 0
<1>1. ReservedUnits(g, {}) = Total(UnitsIn(g, {}), {})
  BY UnitsAdd, FS_EmptySet DEF Counted
<1>2. QED
  BY <1>1, NothingTotals

\* One creation more reserved its units more.
LEMMA OneCreationMore ==
    ASSUME NEW g, NEW S, NEW x, IsFiniteSet(S), x \notin S, Counted(g, S \cup {x})
    PROVE  ReservedUnits(g, S \cup {x}) = ReservedUnits(g, S) + g[x].units
<1> DEFINE T == S \cup {x}
           f == UnitsIn(g, T)
<1>1. IsFiniteSet(T) /\ S \in SUBSET T /\ T \in SUBSET T /\ Counted(g, S)
  BY FS_AddElement DEF Counted
<1>2. ReservedUnits(g, S) = Total(f, S) /\ ReservedUnits(g, T) = Total(f, T)
  BY <1>1, UnitsAdd
<1>3. f[x] = g[x].units /\ Numbered(f, T)
  BY DEF UnitsIn, Numbered, Counted
<1> HIDE DEF f
<1>4. Total(f, T) = Total(f, S) + f[x]
  BY <1>3, OneMore
<1>5. QED
  BY <1>2, <1>3, <1>4

\* Creations that reserved the same units reserved as many together.
LEMMA SameUnits ==
    ASSUME NEW g, NEW h, NEW S, IsFiniteSet(S), Counted(g, S), \A k \in S : h[k].units = g[k].units
    PROVE  ReservedUnits(g, S) = ReservedUnits(h, S)
<1>1. UnitsIn(g, S) = UnitsIn(h, S)
  BY DEF UnitsIn
<1>2. S \in SUBSET S /\ Counted(h, S)
  BY DEF Counted
<1>3. ReservedUnits(g, S) = Total(UnitsIn(g, S), S) /\ ReservedUnits(h, S) = Total(UnitsIn(h, S), S)
  BY <1>2, UnitsAdd
<1>4. QED
  BY <1>1, <1>3
----------------------------------------------------------------------------
(* Types.                                                                   *)

\* What a request may be.
CallType ==
    [at : {"idle", "frozen", "open", "resolve", "done"},
     user : Users \cup {NoUser}, key : Keys \cup {NoKey},
     product : Products \cup {NoProduct}, day : Days \cup {0},
     plan : CreationType \cup {NoCreation}, lost : BOOLEAN]

\* The fields of a request.
LEMMA CallFields ==
    ASSUME AdmissionTypeOK, NEW c \in Calls
    PROVE  /\ call[c] \in CallType
           /\ call[c].at \in {"idle", "frozen", "open", "resolve", "done"}
           /\ call[c].user \in Users \cup {NoUser} /\ call[c].key \in Keys \cup {NoKey}
           /\ call[c].product \in Products \cup {NoProduct} /\ call[c].day \in Days \cup {0}
           /\ call[c].plan \in CreationType \cup {NoCreation} /\ call[c].lost \in BOOLEAN
  BY DEF AdmissionTypeOK, CallType

\* Every request is one.
LEMMA CallsType ==
    ASSUME AdmissionTypeOK
    PROVE  call \in [Calls -> CallType]
  BY DEF AdmissionTypeOK, CallType

\* The fields of a creation that was made; it is not the marker.
LEMMA CreationFields ==
    ASSUME AdmissionAssumption, NEW r \in CreationType
    PROVE  /\ r.user \in Users /\ r.product \in Products /\ r.source \in Sources
           /\ r.charged \in Nat /\ r.date \in Days /\ r.units \in Nat
           /\ r.status \in {"none", "reserved", "reversed", "confiscated"}
           /\ r # NoCreation
           /\ QuotaOf(r) \in QuotaIds
  BY DEF CreationType, NoCreation, QuotaOf, QuotaIds, AdmissionAssumption

\* A reservation is a creation, paid for by one of the two.
LEMMA ReservedFields ==
    ASSUME AdmissionAssumption, AdmissionTypeOK,
           NEW u \in Users, NEW p \in Products, NEW day \in Days
    PROVE  LET r == Reserved(u, p, day)
           IN  /\ r \in CreationType
               /\ r.user = u /\ r.product = p /\ r.date = day /\ r.status = "reserved"
               /\ r.source = "diamonds" => r.charged = Price[p]
               /\ r.source = "daily_quota" =>
                     /\ r.charged = 0
                     /\ quotas[QuotaOf(r)].used + r.units <= quotas[QuotaOf(r)].limit
<1> DEFINE r == Reserved(u, p, day)
           free == QuotaServes(u, p, day)
           limited == QuotaLimit(subs[u], day) = 0
<1>1. Price[p] \in Nat /\ Units[p] \in Nat
  BY DEF AdmissionAssumption
<1>2. r = [user |-> u, product |-> p, date |-> day, status |-> "reserved",
           source |-> IF free THEN "daily_quota" ELSE "diamonds",
           charged |-> IF free THEN 0 ELSE Price[p],
           units |-> IF limited THEN 0 ELSE Units[p]]
  BY DEF Reserved
<1>3. free => /\ ~limited
              /\ quotas[<<u, KindOf[p], day>>].used + Units[p] <= quotas[<<u, KindOf[p], day>>].limit
  BY DEF QuotaServes
<1> HIDE DEF r, free, limited
<1>4. r \in CreationType
  BY <1>1, <1>2 DEF CreationType, Sources
<1>5. QuotaOf(r) = <<u, KindOf[p], day>>
  BY <1>2 DEF QuotaOf
<1>6. QED
  BY <1>2, <1>3, <1>4, <1>5 DEF r

\* A request that is overtaken stays a request.
LEMMA OvertakeType ==
    ASSUME NEW docs, NEW calls \in [Calls -> CallType]
    PROVE  Overtake(docs, calls) \in [Calls -> CallType]
<1>1. ASSUME NEW c \in Calls PROVE [calls[c] EXCEPT !.lost = TRUE] \in CallType
  BY DEF CallType
<1>2. QED
  BY <1>1 DEF Overtake

\* What somebody overtakes becomes of a request.
LEMMA Overtaken ==
    ASSUME AdmissionTypeOK, NEW docs, NEW c \in Calls
    PROVE  LET d == Overtake(docs, call)[c]
           IN  /\ d.at = call[c].at /\ d.user = call[c].user /\ d.key = call[c].key
               /\ d.product = call[c].product /\ d.day = call[c].day /\ d.plan = call[c].plan
               /\ d.at = "open" /\ ~d.lost =>
                     ~call[c].lost /\ Writes(call[c].key, call[c].plan) \cap docs = {}
<1>1. call[c] \in CallType
  BY CallFields
<1>2. QED
  BY <1>1 DEF Overtake, CallType

\* What a commit writes.
LEMMA CommitFacts ==
    ASSUME AdmissionAssumption, AdmissionTypeOK, CallsMeant, NEW c \in Calls, Commit(c)
    PROVE  LET k == call[c].key
               r == call[c].plan
           IN  /\ k \in Keys /\ r \in CreationType /\ r.status = "reserved"
               /\ r.user = call[c].user /\ r.product = call[c].product
               /\ creations[k] = NoCreation
               /\ r.source = "diamonds" => balance[r.user] >= r.charged
               /\ r.source = "daily_quota" =>
                     /\ r.charged = 0
                     /\ quotas[QuotaOf(r)].used + r.units <= quotas[QuotaOf(r)].limit
  BY DEF Commit, CallsMeant, CallMeant, PlanMeant, PlanInForce

\* Every step keeps the types: a commit or an adjustment takes no more than there
\* is, because its plan is still in force, and a refund returns what was used.
LEMMA TypeStep ==
    ASSUME AdmissionAssumption, AdmissionTypeOK, CallsMeant, CreationsMeant,
           [AdmissionNext]_admissionVars
    PROVE  AdmissionTypeOK'
<1> USE AdmissionAssumption
<1>0. CASE UNCHANGED admissionVars
  BY <1>0 DEF AdmissionTypeOK, admissionVars, money
<1>1. ASSUME NEW c \in Calls, NEW u \in Users, NEW k \in Keys, NEW p \in Products, Lookup(c, u, k, p)
      PROVE  AdmissionTypeOK'
  <2>1. [Idle EXCEPT !.user = u, !.key = k, !.product = p, !.day = today,
                     !.at = IF creations[k] = NoCreation THEN "frozen" ELSE "resolve"] \in CallType
    BY DEF Idle, CallType, AdmissionTypeOK
  <2>2. call' \in [Calls -> CallType]
    BY <1>1, <2>1, CallsType DEF Lookup
  <2>3. QED
    BY <1>1, <2>2 DEF Lookup, AdmissionTypeOK, money, CallType
<1>2. ASSUME NEW c \in Calls, Open(c)
      PROVE  AdmissionTypeOK'
  <2>1. call[c].user \in Users /\ call[c].product \in Products /\ call[c].day \in Days
    BY <1>2 DEF Open, CallsMeant, CallMeant
  <2>2. Reserved(call[c].user, call[c].product, call[c].day) \in CreationType
    BY <2>1, ReservedFields
  <2>3. [call[c] EXCEPT !.at = "open", !.plan = Reserved(call[c].user, call[c].product, call[c].day),
                        !.lost = FALSE] \in CallType
    <3>1. call[c] \in CallType
      BY CallFields
    <3>2. QED
      BY <2>2, <3>1 DEF CallType
  <2>4. call' \in [Calls -> CallType]
    BY <1>2, <2>3, CallsType DEF Open
  <2>5. QED
    BY <1>2, <2>4 DEF Open, AdmissionTypeOK, money, CallType
<1>3. ASSUME NEW c \in Calls, Commit(c)
      PROVE  AdmissionTypeOK'
  <2> DEFINE k == call[c].key
             r == call[c].plan
  <2>1. /\ k \in Keys /\ r \in CreationType /\ r.source \in Sources
        /\ r.source = "diamonds" => balance[r.user] >= r.charged
        /\ r.source = "daily_quota" => /\ r.charged = 0
                                       /\ quotas[QuotaOf(r)].used + r.units <= quotas[QuotaOf(r)].limit
        /\ r.user \in Users /\ r.charged \in Nat /\ r.units \in Nat /\ QuotaOf(r) \in QuotaIds
    BY <1>3, CommitFacts, CreationFields
  <2>2. call' \in [Calls -> CallType]
    <3> DEFINE over == Overtake(Writes(k, r), call)
    <3>1. over \in [Calls -> CallType]
      BY CallsType, OvertakeType
    <3> HIDE DEF over
    <3>2. [over[c] EXCEPT !.at = "done"] \in CallType
      BY <3>1 DEF CallType
    <3>3. call' = [over EXCEPT ![c].at = "done"]
      BY <1>3 DEF Commit, over
    <3>4. QED
      BY <3>1, <3>2, <3>3
  <2>3. creations' \in [Keys -> CreationType \cup {NoCreation}]
    BY <1>3, <2>1 DEF Commit, AdmissionTypeOK
  <2>4. balance' \in [Users -> Nat]
    <3>1. balance[r.user] - r.charged \in Nat
      BY <2>1 DEF AdmissionTypeOK, Sources
    <3>2. QED
      BY <1>3, <3>1 DEF Commit, AdmissionTypeOK
  <2>5. /\ quotas' \in [QuotaIds -> [limit : Nat, used : Nat]]
        /\ \A q \in QuotaIds : quotas'[q].used <= quotas'[q].limit
    <3>1. quotas' = IF r.source = "daily_quota"
                    THEN [quotas EXCEPT ![QuotaOf(r)].used = @ + r.units] ELSE quotas
      BY <1>3 DEF Commit
    <3>2. /\ quotas \in [QuotaIds -> [limit : Nat, used : Nat]]
          /\ \A q \in QuotaIds : quotas[q].used <= quotas[q].limit
      BY DEF AdmissionTypeOK
    <3> DEFINE here == QuotaOf(r)
    <3> HIDE DEF here, r, k
    <3>3. CASE r.source = "daily_quota"
      <4>1. quotas' = [quotas EXCEPT ![here].used = quotas[here].used + r.units] /\ here \in QuotaIds
        BY <2>1, <3>1, <3>2, <3>3 DEF here
      <4>2. quotas[here].used + r.units \in Nat /\ quotas[here].used + r.units <= quotas[here].limit
        BY <2>1, <3>2, <3>3 DEF here
      <4>3. QED
        BY <3>2, <4>1, <4>2
    <3>4. QED
      BY <3>1, <3>2, <3>3
  <2>6. entries' \subseteq [key : EntryKeys, user : Users, delta : Int]
    BY <1>3, <2>1 DEF Commit, AdmissionTypeOK, EntryKeys
  <2>7. answers' \subseteq [call : Calls, key : Keys, creation : CreationType]
    <3>1. [r EXCEPT !.status = "none"] \in CreationType
      BY <2>1 DEF CreationType
    <3>2. [call |-> c, key |-> k, creation |-> [r EXCEPT !.status = "none"]]
             \in [call : Calls, key : Keys, creation : CreationType]
      BY <2>1, <3>1
    <3>3. answers' = answers \cup
             {[call |-> c, key |-> k, creation |-> [r EXCEPT !.status = "none"]]}
      BY <1>3 DEF Commit
    <3> HIDE DEF k, r
    <3>4. QED
      BY <3>2, <3>3 DEF AdmissionTypeOK
  <2>8. QED
    BY <1>3, <2>2, <2>3, <2>4, <2>5, <2>6, <2>7 DEF Commit, AdmissionTypeOK, CallType
<1>4. ASSUME NEW c \in Calls, Retry(c) \/ Refuse(c) \/ Duplicate(c)
      PROVE  AdmissionTypeOK'
  <2>1. /\ [call[c] EXCEPT !.at = "frozen", !.plan = NoCreation, !.lost = FALSE] \in CallType
        /\ [call[c] EXCEPT !.at = "done"] \in CallType
        /\ [call[c] EXCEPT !.at = "resolve"] \in CallType
    <3>1. call[c] \in CallType
      BY CallFields
    <3>2. QED
      BY <3>1 DEF CallType
  <2>2. call' \in [Calls -> CallType]
    BY <1>4, <2>1, CallsType DEF Retry, Refuse, Duplicate
  <2>3. QED
    BY <1>4, <2>2 DEF Retry, Refuse, Duplicate, AdmissionTypeOK, money, CallType
<1>5. ASSUME NEW c \in Calls, Resolve(c)
      PROVE  AdmissionTypeOK'
  <2>1. call[c].key \in Keys /\ creations[call[c].key] \in CreationType
    BY <1>5 DEF Resolve, CallsMeant, CallMeant, AdmissionTypeOK
  <2>2. [creations[call[c].key] EXCEPT !.status = "none"] \in CreationType
    BY <2>1 DEF CreationType
  <2>3. answers' \subseteq [call : Calls, key : Keys, creation : CreationType]
    <3> DEFINE told == [creations[call[c].key] EXCEPT !.status = "none"]
    <3>1. [call |-> c, key |-> call[c].key, creation |-> told]
             \in [call : Calls, key : Keys, creation : CreationType]
      BY <2>1, <2>2
    <3>2. answers' = answers \/ answers' = answers \cup {[call |-> c, key |-> call[c].key, creation |-> told]}
      BY <1>5 DEF Resolve
    <3> HIDE DEF told
    <3>3. QED
      BY <3>1, <3>2 DEF AdmissionTypeOK
  <2>4. [call[c] EXCEPT !.at = "done"] \in CallType
    BY CallFields DEF CallType
  <2>5. call' \in [Calls -> CallType]
    BY <1>5, <2>4, CallsType DEF Resolve
  <2>6. QED
    BY <1>5, <2>3, <2>5 DEF Resolve, AdmissionTypeOK, money, CallType
<1>6. ASSUME NEW k \in Keys, ReverseCharge(k)
      PROVE  AdmissionTypeOK'
  <2> DEFINE r == creations[k]
  <2>1. /\ r \in CreationType /\ r.user \in Users /\ r.charged \in Nat /\ r.units \in Nat
        /\ QuotaOf(r) \in QuotaIds
    <3>1. r # NoCreation
      BY <1>6 DEF ReverseCharge, NoCreation
    <3>2. QED
      BY <3>1, CreationFields DEF AdmissionTypeOK
  <2>2. call' \in [Calls -> CallType]
    BY <1>6, CallsType, OvertakeType DEF ReverseCharge
  <2>3. creations' \in [Keys -> CreationType \cup {NoCreation}]
    <3>1. [r EXCEPT !.status = "reversed"] \in CreationType
      BY <2>1 DEF CreationType
    <3>2. QED
      BY <1>6, <3>1 DEF ReverseCharge, AdmissionTypeOK
  <2>4. balance' \in [Users -> Nat]
    <3>1. balance[r.user] + r.charged \in Nat
      BY <2>1 DEF AdmissionTypeOK
    <3>2. QED
      BY <1>6, <3>1 DEF ReverseCharge, AdmissionTypeOK
  <2>5. /\ quotas' \in [QuotaIds -> [limit : Nat, used : Nat]]
        /\ \A q \in QuotaIds : quotas'[q].used <= quotas'[q].limit
    <3> DEFINE here == QuotaOf(r)
    <3>1. /\ quotas \in [QuotaIds -> [limit : Nat, used : Nat]]
          /\ \A q \in QuotaIds : quotas[q].used <= quotas[q].limit
      BY DEF AdmissionTypeOK
    <3>2. \/ quotas' = quotas
          \/ /\ quotas[here].used >= r.units
             /\ quotas' = [quotas EXCEPT ![here].used = quotas[here].used - r.units]
      BY <1>6, <2>1, <3>1 DEF ReverseCharge, Refunded
    <3> HIDE DEF r, here
    <3>3. here \in QuotaIds /\ r.units \in Nat
      BY <2>1 DEF r, here
    <3>4. QED
      BY <3>1, <3>2, <3>3
  <2>6. entries' \subseteq [key : EntryKeys, user : Users, delta : Int]
    BY <1>6, <2>1 DEF ReverseCharge, AdmissionTypeOK, EntryKeys
  <2>7. QED
    BY <1>6, <2>2, <2>3, <2>4, <2>5, <2>6 DEF ReverseCharge, AdmissionTypeOK, CallType
<1>7. ASSUME NEW k \in Keys, Confiscate(k)
      PROVE  AdmissionTypeOK'
  <2>1. creations[k] \in CreationType
    BY <1>7 DEF Confiscate, NoCreation, AdmissionTypeOK
  <2>2. [creations[k] EXCEPT !.status = "confiscated"] \in CreationType
    BY <2>1 DEF CreationType
  <2>3. creations' \in [Keys -> CreationType \cup {NoCreation}]
    BY <1>7, <2>2 DEF Confiscate, AdmissionTypeOK
  <2>4. QED
    BY <1>7, <2>3 DEF Confiscate, AdmissionTypeOK
<1>8. ASSUME NEW t \in Tickets, NEW u \in Users, NEW d \in Deltas, Adjust(t, u, d)
      PROVE  AdmissionTypeOK'
  <2>1. d \in Int /\ Cap \in Nat /\ balance[u] \in Nat
    BY DEF AdmissionAssumption, AdmissionTypeOK
  <2>2. balance[u] + d \in Nat
    BY <1>8, <2>1 DEF Adjust
  <2>3. call' \in [Calls -> CallType]
    BY <1>8, CallsType, OvertakeType DEF Adjust
  <2>4. balance' \in [Users -> Nat]
    BY <1>8, <2>2 DEF Adjust, AdmissionTypeOK
  <2>5. entries' \subseteq [key : EntryKeys, user : Users, delta : Int]
    BY <1>8, <2>1 DEF Adjust, AdmissionTypeOK, EntryKeys
  <2>6. audits' \in [Tickets -> [user : Users, delta : Deltas, balance : Nat] \cup {NoTicket}]
    BY <1>8, <2>2 DEF Adjust, AdmissionTypeOK
  <2>7. QED
    BY <1>8, <2>3, <2>4, <2>5, <2>6 DEF Adjust, AdmissionTypeOK, CallType
<1>9. ASSUME NEW u \in Users, GrantSubscription(u)
      PROVE  AdmissionTypeOK'
  <2> DEFINE base == IF subs[u].period # "none" /\ subs[u].until > today THEN subs[u].until ELSE today
  <2>1. subs' = [subs EXCEPT ![u] = [period |-> "monthly", until |-> base + GrantDays]]
    BY <1>9 DEF GrantSubscription
  <2>1a. base \in Nat /\ GrantDays \in Nat
    BY DEF AdmissionTypeOK, AdmissionAssumption, Days
  <2> HIDE DEF base
  <2>2. subs' \in [Users -> [period : Periods, until : Nat]]
    BY <2>1, <2>1a DEF AdmissionTypeOK, Periods
  <2>3. QED
    BY <1>9, <2>2 DEF GrantSubscription, AdmissionTypeOK, money, AdmissionAssumption
<1>10. ASSUME NEW u \in Users, NEW s \in Statuses, ChangeUser(u, s)
       PROVE  AdmissionTypeOK'
  <2>1. users' \in [Users -> [status : Statuses, bound : BOOLEAN]]
    <3>1. users \in [Users -> [status : Statuses, bound : BOOLEAN]]
      BY DEF AdmissionTypeOK
    <3>2. users' = [users EXCEPT ![u].status = s]
      BY <1>10 DEF ChangeUser
    <3> QED
      BY <3>1, <3>2
  <2>2. ops' \in 0 .. MaxOps
    BY <1>10 DEF ChangeUser, AdmissionTypeOK, AdmissionAssumption
  <2>3. UNCHANGED <<subs, quotas, balance, creations, entries, audits, today, call, answers>>
    BY <1>10 DEF ChangeUser, money
  <2> QED
    BY <2>1, <2>2, <2>3 DEF AdmissionTypeOK
<1>11. ASSUME NextDay PROVE AdmissionTypeOK'
  BY <1>11 DEF NextDay, AdmissionTypeOK, money, AdmissionAssumption, Days
<1>12. QED
  BY <1>0, <1>1, <1>2, <1>3, <1>4, <1>5, <1>6, <1>7, <1>8, <1>9, <1>10, <1>11
  DEF AdmissionNext, Request
----------------------------------------------------------------------------
(* Who moves money.                                                         *)

\* A step that is none of these moves none.
LEMMA MoneyCases ==
    ASSUME [AdmissionNext]_admissionVars
    PROVE  \/ UNCHANGED <<money, audits>>
           \/ \E c \in Calls : Commit(c)
           \/ \E k \in Keys : ReverseCharge(k) \/ Confiscate(k)
           \/ \E t \in Tickets, u \in Users, d \in Deltas : Adjust(t, u, d)
<1>1. ASSUME NEW c \in Calls, Request(c)
      PROVE  UNCHANGED <<money, audits>> \/ Commit(c)
  <2>1. CASE \E u \in Users, k \in Keys, p \in Products : Lookup(c, u, k, p)
    BY <2>1 DEF Lookup
  <2>2. CASE Open(c)
    BY <2>2 DEF Open
  <2>3. CASE Retry(c) \/ Duplicate(c)
    BY <2>3 DEF Retry, Duplicate
  <2>4. CASE Refuse(c)
    BY <2>4 DEF Refuse
  <2>5. CASE Resolve(c)
    BY <2>5 DEF Resolve
  <2> QED
    BY <1>1, <2>1, <2>2, <2>3, <2>4, <2>5 DEF Request
<1>2. CASE \/ \E u \in Users : GrantSubscription(u)
           \/ \E u \in Users, s \in Statuses : ChangeUser(u, s)
           \/ NextDay
  BY <1>2 DEF GrantSubscription, ChangeUser, NextDay
<1>3. CASE UNCHANGED admissionVars
  BY <1>3 DEF admissionVars, money
<1> QED
  BY <1>1, <1>2, <1>3 DEF AdmissionNext

\* What a refund gives back.
LEMMA ReverseFacts ==
    ASSUME AdmissionAssumption, AdmissionTypeOK, NEW k \in Keys, ReverseCharge(k)
    PROVE  LET r == creations[k]
           IN  /\ r \in CreationType /\ r # NoCreation
               /\ creations' = [creations EXCEPT ![k] = [r EXCEPT !.status = "reversed"]]
               /\ [r EXCEPT !.status = "reversed"] \in CreationType
               /\ [r EXCEPT !.status = "reversed"] # NoCreation
               /\ entries' = entries \cup
                     {[key |-> <<"reverse", k>>, user |-> r.user, delta |-> r.charged]}
               /\ \/ /\ r.source = "diamonds"
                     /\ balance' = [balance EXCEPT ![r.user] = @ + r.charged]
                     /\ quotas' = quotas
                  \/ /\ r.source = "daily_quota"
                     /\ balance' = balance
                     /\ quotas' = [quotas EXCEPT ![QuotaOf(r)].used = @ - r.units]
<1> DEFINE r == creations[k]
<1>1. r \in CreationType /\ r # NoCreation
  BY DEF ReverseCharge, NoCreation, AdmissionTypeOK
<1>2. [r EXCEPT !.status = "reversed"] \in CreationType
  BY <1>1 DEF CreationType
<1>3. creations' = [creations EXCEPT ![k] = [r EXCEPT !.status = "reversed"]]
  BY DEF ReverseCharge
<1>4. \/ /\ r.source = "diamonds"
         /\ balance' = [balance EXCEPT ![r.user] = @ + r.charged]
         /\ quotas' = quotas
      \/ /\ r.source = "daily_quota"
         /\ balance' = balance
         /\ quotas' = [quotas EXCEPT ![QuotaOf(r)].used = @ - r.units]
  BY <1>1, CreationFields DEF ReverseCharge, Refunded, Sources
<1>5. entries' = entries \cup {[key |-> <<"reverse", k>>, user |-> r.user, delta |-> r.charged]}
  BY DEF ReverseCharge
<1>6. QED
  BY <1>1, <1>2, <1>3, <1>4, <1>5, CreationFields

\* What a confiscation writes.
LEMMA ConfiscateFacts ==
    ASSUME AdmissionAssumption, AdmissionTypeOK, NEW k \in Keys, Confiscate(k)
    PROVE  LET r == creations[k]
           IN  /\ r \in CreationType /\ r.status = "reserved"
               /\ creations' = [creations EXCEPT ![k] = [r EXCEPT !.status = "confiscated"]]
               /\ [r EXCEPT !.status = "confiscated"] \in CreationType
               /\ [r EXCEPT !.status = "confiscated"] # NoCreation
<1> DEFINE r == creations[k]
<1>1. r \in CreationType /\ r.status = "reserved"
  BY DEF Confiscate, NoCreation, AdmissionTypeOK
<1>2. [r EXCEPT !.status = "confiscated"] \in CreationType
  BY <1>1 DEF CreationType
<1>3. QED
  BY <1>1, <1>2, CreationFields DEF Confiscate

\* A creation, once made, is there for good and keeps what it was made of.
LEMMA CreationsKept ==
    ASSUME AdmissionAssumption, AdmissionTypeOK, CallsMeant, [AdmissionNext]_admissionVars
    PROVE  \A k \in Keys : creations[k] # NoCreation =>
              /\ creations'[k] # NoCreation
              /\ creations'[k].user = creations[k].user
              /\ creations'[k].product = creations[k].product
              /\ [creations'[k] EXCEPT !.status = "none"] = [creations[k] EXCEPT !.status = "none"]
<1> SUFFICES ASSUME NEW k \in Keys, creations[k] # NoCreation
             PROVE  /\ creations'[k] # NoCreation
                    /\ creations'[k].user = creations[k].user
                    /\ creations'[k].product = creations[k].product
                    /\ [creations'[k] EXCEPT !.status = "none"] = [creations[k] EXCEPT !.status = "none"]
  OBVIOUS
<1> USE AdmissionAssumption
<1>0. creations[k] \in CreationType /\ creations \in [Keys -> CreationType \cup {NoCreation}]
  BY DEF AdmissionTypeOK
<1>1. ASSUME NEW status, creations'[k] = [creations[k] EXCEPT !.status = status],
             [creations[k] EXCEPT !.status = status] # NoCreation
      PROVE  /\ creations'[k] # NoCreation
             /\ creations'[k].user = creations[k].user
             /\ creations'[k].product = creations[k].product
             /\ [creations'[k] EXCEPT !.status = "none"] = [creations[k] EXCEPT !.status = "none"]
  BY <1>0, <1>1 DEF CreationType
<1>2. CASE creations'[k] = creations[k]
  BY <1>2
<1>3. ASSUME NEW c \in Calls, Commit(c) PROVE creations'[k] = creations[k]
  <2>1. call[c].key \in Keys /\ creations[call[c].key] = NoCreation
    BY <1>3, CommitFacts
  <2>2. creations' = [creations EXCEPT ![call[c].key] = call[c].plan]
    BY <1>3 DEF Commit
  <2>3. QED
    BY <1>0, <2>1, <2>2
<1>4. ASSUME NEW j \in Keys, ReverseCharge(j)
      PROVE  \/ creations'[k] = creations[k]
             \/ /\ creations'[k] = [creations[k] EXCEPT !.status = "reversed"]
                /\ [creations[k] EXCEPT !.status = "reversed"] # NoCreation
  <2>1. /\ creations' = [creations EXCEPT ![j] = [creations[j] EXCEPT !.status = "reversed"]]
        /\ [creations[j] EXCEPT !.status = "reversed"] # NoCreation
    BY <1>4, ReverseFacts
  <2>2. CASE j = k
    BY <1>0, <2>1, <2>2
  <2>3. CASE j # k
    BY <1>0, <2>1, <2>3
  <2>4. QED
    BY <2>2, <2>3
<1>5. ASSUME NEW j \in Keys, Confiscate(j)
      PROVE  \/ creations'[k] = creations[k]
             \/ /\ creations'[k] = [creations[k] EXCEPT !.status = "confiscated"]
                /\ [creations[k] EXCEPT !.status = "confiscated"] # NoCreation
  BY <1>0, <1>5, ConfiscateFacts
<1>6. CASE UNCHANGED <<money, audits>>
  BY <1>2, <1>6 DEF money
<1>7. ASSUME NEW t \in Tickets, NEW u \in Users, NEW d \in Deltas, Adjust(t, u, d)
      PROVE  creations'[k] = creations[k]
  BY <1>7 DEF Adjust
<1>8. QED
  BY <1>1, <1>2, <1>3, <1>4, <1>5, <1>6, <1>7, MoneyCases
----------------------------------------------------------------------------
(* Requests.                                                                *)

\* The request is where it was, and is told if a document it will write was
\* written.
Follows(c, docs) ==
    /\ call'[c].at = call[c].at /\ call'[c].user = call[c].user /\ call'[c].key = call[c].key
    /\ call'[c].product = call[c].product /\ call'[c].day = call[c].day
    /\ call'[c].plan = call[c].plan
    /\ call'[c].at = "open" /\ ~call'[c].lost =>
          ~call[c].lost /\ Writes(call[c].key, call[c].plan) \cap docs = {}

\* Who moves only by being overtaken follows.
LEMMA OvertakenFollow ==
    ASSUME AdmissionTypeOK, NEW docs, NEW c \in Calls, call'[c] = Overtake(docs, call)[c]
    PROVE  Follows(c, docs)
<1> DEFINE d == Overtake(docs, call)[c]
<1>1. /\ d.at = call[c].at /\ d.user = call[c].user /\ d.key = call[c].key
      /\ d.product = call[c].product /\ d.day = call[c].day /\ d.plan = call[c].plan
      /\ d.at = "open" /\ ~d.lost =>
            ~call[c].lost /\ Writes(call[c].key, call[c].plan) \cap docs = {}
  BY Overtaken
<1>2. call'[c] = d
  OBVIOUS
<1> HIDE DEF d
<1>3. QED
  BY <1>1, <1>2 DEF Follows

\* Nothing but these documents was written.
OnlyWritten(docs) ==
    /\ \A k \in Keys : creations[k] = NoCreation /\ <<"creation", k>> \notin docs
                          => creations'[k] = NoCreation
    /\ \A u \in Users : <<"account", u>> \notin docs => balance'[u] = balance[u]
    /\ \A u \in Users, kind \in Kinds, day \in Days :
          <<"quota", u, kind, day>> \notin docs =>
              quotas'[<<u, kind, day>>] = quotas[<<u, kind, day>>]

\* A request that somebody else may overtake still knows what it must: either it
\* was overtaken, or nothing its plan was computed from was written.
LEMMA FollowerMeant ==
    ASSUME AdmissionAssumption, AdmissionTypeOK, NEW c \in Calls, CallMeant(c), NEW docs,
           Follows(c, docs), OnlyWritten(docs),
           \A k \in Keys : creations[k] # NoCreation => creations'[k] # NoCreation
    PROVE  CallMeant(c)'
<1>1. /\ call'[c].at # "idle" =>
           /\ call'[c].user \in Users /\ call'[c].key \in Keys
           /\ call'[c].product \in Products /\ call'[c].day \in Days
      /\ call'[c].at = "resolve" => creations'[call'[c].key] # NoCreation
      /\ call'[c].at = "open" => PlanMeant(c)'
  BY DEF CallMeant, Follows, PlanMeant
<1>2. ASSUME call'[c].at = "open", ~call'[c].lost PROVE PlanInForce(c)'
  <2> DEFINE r == call[c].plan
             k == call[c].key
  <2>1. /\ PlanInForce(c) /\ PlanMeant(c) /\ k \in Keys
        /\ Writes(k, r) \cap docs = {}
    BY <1>2 DEF CallMeant, Follows
  <2>2. r \in CreationType /\ r.user \in Users /\ KindOf[r.product] \in Kinds /\ r.date \in Days
    BY <2>1, CreationFields DEF PlanMeant, AdmissionAssumption
  <2>3. creations'[k] = NoCreation
    BY <2>1 DEF Writes, OnlyWritten, PlanInForce
  <2>4. r.source = "diamonds" => balance'[r.user] = balance[r.user]
    BY <2>1, <2>2 DEF Writes, OnlyWritten
  <2>5. r.source = "daily_quota" => quotas'[QuotaOf(r)] = quotas[QuotaOf(r)]
    <3> DEFINE u == r.user
               kind == KindOf[r.product]
               day == r.date
    <3>1. r.source = "daily_quota" => <<"quota", u, kind, day>> \notin docs
      BY <2>1 DEF Writes
    <3>2. u \in Users /\ kind \in Kinds /\ day \in Days /\ QuotaOf(r) = <<u, kind, day>>
      BY <2>2 DEF QuotaOf
    <3> HIDE DEF u, kind, day, r
    <3>3. QED
      BY <3>1, <3>2 DEF OnlyWritten
  <2>6. call'[c].plan = r /\ call'[c].key = k
    BY DEF Follows
  <2> HIDE DEF r, k
  <2>7. QED
    BY <2>1, <2>3, <2>4, <2>5, <2>6 DEF PlanInForce, r, k
<1>3. QED
  BY <1>1, <1>2 DEF CallMeant

\* A step that moves nothing leaves the requests it does not touch as they are.
LEMMA BystanderMeant ==
    ASSUME NEW c \in Calls, CallMeant(c), call'[c] = call[c], UNCHANGED money
    PROVE  CallMeant(c)'
  BY DEF CallMeant, PlanMeant, PlanInForce, money, QuotaOf

\* Every step keeps what the requests know.
LEMMA CallsStep ==
    ASSUME AdmissionAssumption, AdmissionTypeOK, CallsMeant, [AdmissionNext]_admissionVars
    PROVE  CallsMeant'
<1> USE AdmissionAssumption
<1>a. \A k \in Keys : creations[k] # NoCreation => creations'[k] # NoCreation
  BY CreationsKept
<1>b. ASSUME NEW c \in Calls PROVE CallMeant(c)
  BY DEF CallsMeant
<1>c. \A c \in Calls : call[c] \in CallType
  BY CallFields
<1>d. call \in [Calls -> CallType]
  BY CallsType
<1>0. CASE UNCHANGED admissionVars
  BY <1>0 DEF CallsMeant, CallMeant, PlanMeant, PlanInForce, admissionVars, money, QuotaOf
<1>1. ASSUME NEW c \in Calls, NEW u \in Users, NEW k \in Keys, NEW p \in Products, Lookup(c, u, k, p)
      PROVE  CallsMeant'
  <2>1. call'[c] = [Idle EXCEPT !.user = u, !.key = k, !.product = p, !.day = today,
                     !.at = IF creations[k] = NoCreation THEN "frozen" ELSE "resolve"]
    BY <1>1, <1>d DEF Lookup
  <2>2. today \in Days
    BY DEF AdmissionTypeOK
  <2>3. CallMeant(c)'
    BY <1>1, <2>1, <2>2 DEF CallMeant, Idle, Lookup, money
  <2>4. ASSUME NEW d \in Calls, d # c PROVE CallMeant(d)'
    BY <1>1, <1>b, <1>d, <2>4, BystanderMeant DEF Lookup
  <2>5. QED
    BY <2>3, <2>4 DEF CallsMeant
<1>2. ASSUME NEW c \in Calls, Open(c)
      PROVE  CallsMeant'
  <2> DEFINE r == Reserved(call[c].user, call[c].product, call[c].day)
  <2>1. call[c].user \in Users /\ call[c].product \in Products /\ call[c].day \in Days
        /\ call[c].key \in Keys
    BY <1>2 DEF Open, CallsMeant, CallMeant
  <2>2. /\ r \in CreationType
        /\ r.user = call[c].user /\ r.product = call[c].product /\ r.status = "reserved"
        /\ r.source = "diamonds" => r.charged = Price[call[c].product]
        /\ r.source = "daily_quota" =>
              /\ r.charged = 0
              /\ quotas[QuotaOf(r)].used + r.units <= quotas[QuotaOf(r)].limit
    BY <2>1, ReservedFields
  <2>3. /\ creations[call[c].key] = NoCreation
        /\ r.source = "diamonds" => balance[call[c].user] >= Price[call[c].product]
        /\ call' = [call EXCEPT ![c].at = "open", ![c].plan = r, ![c].lost = FALSE]
        /\ UNCHANGED money
    BY <1>2 DEF Open
  <2> HIDE DEF r
  <2>4. /\ call'[c].at = "open" /\ call'[c].plan = r /\ call'[c].user = call[c].user
        /\ call'[c].product = call[c].product /\ call'[c].key = call[c].key
        /\ call'[c].day = call[c].day
    BY <1>c, <1>d, <2>3 DEF CallType
  <2>5. PlanMeant(c)'
    BY <2>2, <2>4 DEF PlanMeant
  <2>6. quotas' = quotas /\ balance' = balance /\ creations' = creations
    BY <2>3 DEF money
  <2>7. PlanInForce(c)'
    BY <2>2, <2>3, <2>4, <2>6 DEF PlanInForce
  <2>8. CallMeant(c)'
    BY <2>1, <2>4, <2>5, <2>7 DEF CallMeant
  <2>9. ASSUME NEW d \in Calls, d # c PROVE CallMeant(d)'
    BY <1>b, <1>d, <2>3, <2>9, BystanderMeant
  <2>10. QED
    BY <2>8, <2>9 DEF CallsMeant
<1>3. ASSUME NEW c \in Calls, Commit(c)
      PROVE  CallsMeant'
  <2> DEFINE k == call[c].key
             r == call[c].plan
             docs == Writes(k, r)
             over == Overtake(docs, call)
  <2>1. k \in Keys /\ r \in CreationType /\ r.source \in Sources /\ r.user \in Users
        /\ (r.source = "daily_quota" => r.charged = 0)
    BY <1>3, CommitFacts, CreationFields
  <2>2. call' = [over EXCEPT ![c].at = "done"]
    BY <1>3 DEF Commit
  <2>3. over \in [Calls -> CallType]
    BY <1>d, OvertakeType
  <2>4. OnlyWritten(docs)
    <3>1. ASSUME NEW j \in Keys, creations[j] = NoCreation, <<"creation", j>> \notin docs
          PROVE  creations'[j] = NoCreation
      <4>1. j # k
        BY <3>1 DEF Writes
      <4>2. creations' = [creations EXCEPT ![k] = r]
        BY <1>3 DEF Commit
      <4>3. DOMAIN creations = Keys
        BY DEF AdmissionTypeOK
      <4> QED
        BY <3>1, <4>1, <4>2, <4>3
    <3>2. ASSUME NEW u \in Users, <<"account", u>> \notin docs PROVE balance'[u] = balance[u]
      <4>1. balance' = [balance EXCEPT ![r.user] = @ - r.charged] /\ balance \in [Users -> Nat]
        BY <1>3 DEF Commit, AdmissionTypeOK
      <4>2. CASE r.source = "diamonds"
        <5>1. u # r.user
          BY <3>2, <4>2 DEF Writes
        <5> QED
          BY <4>1, <5>1
      <4>3. CASE r.source = "daily_quota"
        BY <2>1, <4>1, <4>3
      <4> QED
        BY <2>1, <4>2, <4>3 DEF Sources
    <3>3. ASSUME NEW u \in Users, NEW kind \in Kinds, NEW day \in Days,
                 <<"quota", u, kind, day>> \notin docs
          PROVE  quotas'[<<u, kind, day>>] = quotas[<<u, kind, day>>]
      <4>1. r.source = "daily_quota" => <<u, kind, day>> # QuotaOf(r)
        BY <2>1, <3>3 DEF Writes, QuotaOf, Sources
      <4>2. quotas' = IF r.source = "daily_quota"
                      THEN [quotas EXCEPT ![QuotaOf(r)].used = @ + r.units] ELSE quotas
        BY <1>3 DEF Commit
      <4>3. quotas \in [QuotaIds -> [limit : Nat, used : Nat]] /\ <<u, kind, day>> \in QuotaIds
        BY DEF AdmissionTypeOK, QuotaIds
      <4> DEFINE here == QuotaOf(r)
                 there == <<u, kind, day>>
      <4> HIDE DEF here, there, r
      <4>4. QED
        BY <4>1, <4>2, <4>3 DEF here, there
    <3>4. QED
      BY <3>1, <3>2, <3>3 DEF OnlyWritten
  <2>5. CallMeant(c)'
    <3>1. /\ over[c].user = call[c].user /\ over[c].key = call[c].key
          /\ over[c].product = call[c].product /\ over[c].day = call[c].day
      BY Overtaken
    <3>2. call[c].at = "open" /\ CallMeant(c)
      BY <1>3, <1>b DEF Commit
    <3> HIDE DEF over, k, r, docs
    <3>3. call'[c] = [over[c] EXCEPT !.at = "done"] /\ over[c] \in CallType
      BY <2>2, <2>3
    <3>4. QED
      BY <3>1, <3>2, <3>3 DEF CallMeant, CallType
  <2>6. ASSUME NEW d \in Calls, d # c PROVE CallMeant(d)'
    <3>1. call'[d] = over[d]
      BY <2>2, <2>3, <2>6
    <3>2. Follows(d, docs)
      BY <3>1, OvertakenFollow
    <3> HIDE DEF docs
    <3>3. QED
      BY <1>a, <1>b, <2>4, <3>2, FollowerMeant
  <2>7. QED
    BY <2>5, <2>6 DEF CallsMeant
<1>4. ASSUME NEW c \in Calls, Retry(c) \/ Refuse(c) \/ Duplicate(c)
      PROVE  CallsMeant'
  <2>1. \/ call'[c] = [call[c] EXCEPT !.at = "frozen", !.plan = NoCreation, !.lost = FALSE]
        \/ call'[c] = [call[c] EXCEPT !.at = "done"]
        \/ call'[c] = [call[c] EXCEPT !.at = "resolve"] /\ creations[call[c].key] # NoCreation
    BY <1>4, <1>d DEF Retry, Refuse, Duplicate
  <2>2. call[c].at # "idle" /\ UNCHANGED money
    BY <1>4 DEF Retry, Refuse, Duplicate
  <2>3. CallMeant(c)'
    <3>1. CASE call'[c] = [call[c] EXCEPT !.at = "frozen", !.plan = NoCreation, !.lost = FALSE]
      BY <1>b, <1>c, <2>2, <3>1, SMTT(20) DEF CallMeant, CallType, money
    <3>2. CASE call'[c] = [call[c] EXCEPT !.at = "done"]
      BY <1>b, <1>c, <2>2, <3>2, SMTT(20) DEF CallMeant, CallType, money
    <3>3. CASE call'[c] = [call[c] EXCEPT !.at = "resolve"] /\ creations[call[c].key] # NoCreation
      BY <1>b, <1>c, <2>2, <3>3, SMTT(20) DEF CallMeant, CallType, money
    <3>4. QED
      BY <2>1, <3>1, <3>2, <3>3
  <2>4. ASSUME NEW d \in Calls, d # c PROVE CallMeant(d)'
    <3>1. call'[d] = call[d]
      BY <1>4, <1>d, <2>4 DEF Retry, Refuse, Duplicate
    <3>2. QED
      BY <1>b, <2>2, <3>1, BystanderMeant
  <2>5. QED
    BY <2>3, <2>4 DEF CallsMeant
<1>5. ASSUME NEW c \in Calls, Resolve(c)
      PROVE  CallsMeant'
  <2>1. call'[c] = [call[c] EXCEPT !.at = "done"] /\ call[c].at # "idle" /\ UNCHANGED money
    BY <1>5, <1>d DEF Resolve
  <2>2. CallMeant(c)'
    BY <1>b, <1>c, <2>1 DEF CallMeant, CallType, money
  <2>3. ASSUME NEW d \in Calls, d # c PROVE CallMeant(d)'
    BY <1>5, <1>b, <1>d, <2>1, <2>3, BystanderMeant DEF Resolve
  <2>4. QED
    BY <2>2, <2>3 DEF CallsMeant
<1>6. ASSUME NEW k \in Keys, ReverseCharge(k)
      PROVE  CallsMeant'
  <2> DEFINE r == creations[k]
             docs == Writes(k, r)
  <2>1. r \in CreationType /\ r # NoCreation /\ r.source \in Sources /\ r.user \in Users
    BY <1>6, ReverseFacts, CreationFields
  <2>2. call' = Overtake(docs, call)
    BY <1>6 DEF ReverseCharge
  <2>3. OnlyWritten(docs)
    <3>0. /\ creations' = [creations EXCEPT ![k] = [r EXCEPT !.status = "reversed"]]
          /\ \/ /\ r.source = "diamonds"
                /\ balance' = [balance EXCEPT ![r.user] = @ + r.charged]
                /\ quotas' = quotas
             \/ /\ r.source = "daily_quota"
                /\ balance' = balance
                /\ quotas' = [quotas EXCEPT ![QuotaOf(r)].used = @ - r.units]
      BY <1>6, ReverseFacts
    <3>1. ASSUME NEW j \in Keys, creations[j] = NoCreation, <<"creation", j>> \notin docs
          PROVE  creations'[j] = NoCreation
      BY <2>1, <3>0, <3>1 DEF AdmissionTypeOK
    <3>2. ASSUME NEW u \in Users, <<"account", u>> \notin docs PROVE balance'[u] = balance[u]
      BY <2>1, <3>0, <3>2 DEF Writes, AdmissionTypeOK
    <3>3. ASSUME NEW u \in Users, NEW kind \in Kinds, NEW day \in Days,
                 <<"quota", u, kind, day>> \notin docs
          PROVE  quotas'[<<u, kind, day>>] = quotas[<<u, kind, day>>]
      <4>1. r.source = "daily_quota" => <<u, kind, day>> # QuotaOf(r)
        BY <3>3 DEF Writes, QuotaOf
      <4>2. quotas' = quotas \/ (r.source = "daily_quota" /\
                 quotas' = [quotas EXCEPT ![QuotaOf(r)].used = @ - r.units])
        BY <3>0
      <4>3. quotas \in [QuotaIds -> [limit : Nat, used : Nat]] /\ <<u, kind, day>> \in QuotaIds
        BY DEF AdmissionTypeOK, QuotaIds
      <4> DEFINE here == QuotaOf(r)
                 there == <<u, kind, day>>
      <4> HIDE DEF here, there, r
      <4>4. QED
        BY <4>1, <4>2, <4>3 DEF here, there
    <3>4. QED
      BY <3>1, <3>2, <3>3 DEF OnlyWritten
  <2>4. ASSUME NEW d \in Calls PROVE CallMeant(d)'
    <3>1. Follows(d, docs)
      BY <2>2, OvertakenFollow
    <3> HIDE DEF docs
    <3>2. QED
      BY <1>a, <1>b, <2>3, <3>1, FollowerMeant
  <2>5. QED
    BY <2>4 DEF CallsMeant
<1>7. ASSUME NEW k \in Keys, Confiscate(k)
      PROVE  CallsMeant'
  <2>1. OnlyWritten({})
    <3>1. ASSUME NEW j \in Keys, creations[j] = NoCreation PROVE creations'[j] = NoCreation
      <4>1. j # k
        BY <1>7, <3>1 DEF Confiscate, NoCreation
      <4>2. QED
        BY <1>7, <3>1, <4>1 DEF Confiscate, AdmissionTypeOK
    <3>2. QED
      BY <1>7, <3>1 DEF Confiscate, OnlyWritten
  <2>2. ASSUME NEW d \in Calls PROVE CallMeant(d)'
    <3>1. Follows(d, {})
      BY <1>7 DEF Confiscate, Follows
    <3>2. QED
      BY <1>a, <1>b, <2>1, <3>1, FollowerMeant
  <2>3. QED
    BY <2>2 DEF CallsMeant
<1>8. ASSUME NEW t \in Tickets, NEW u \in Users, NEW delta \in Deltas, Adjust(t, u, delta)
      PROVE  CallsMeant'
  <2> DEFINE docs == {<<"account", u>>}
  <2>1. OnlyWritten(docs)
    BY <1>8 DEF Adjust, OnlyWritten, AdmissionTypeOK
  <2>2. ASSUME NEW d \in Calls PROVE CallMeant(d)'
    <3>0. call' = Overtake(docs, call)
      BY <1>8 DEF Adjust
    <3>1. Follows(d, docs)
      BY <3>0, OvertakenFollow
    <3> HIDE DEF docs
    <3>2. QED
      BY <1>a, <1>b, <2>1, <3>1, FollowerMeant
  <2>3. QED
    BY <2>2 DEF CallsMeant
<1>9. ASSUME NextDay \/ \E u \in Users : GrantSubscription(u) \/ \E s \in Statuses : ChangeUser(u, s)
      PROVE  CallsMeant'
  <2>1. call' = call /\ UNCHANGED money
    BY <1>9 DEF NextDay, GrantSubscription, ChangeUser
  <2>2. QED
    BY <1>b, <2>1, BystanderMeant DEF CallsMeant
<1>10. QED
  BY <1>0, <1>1, <1>2, <1>3, <1>4, <1>5, <1>6, <1>7, <1>8, <1>9 DEF AdmissionNext, Request
----------------------------------------------------------------------------
(* The books.                                                               *)

\* Every step keeps what a creation was reserved with.
LEMMA CreationsMeantStep ==
    ASSUME AdmissionAssumption, AdmissionTypeOK, CallsMeant, CreationsMeant,
           [AdmissionNext]_admissionVars
    PROVE  CreationsMeant'
<1> USE AdmissionAssumption
<1>1. ASSUME NEW c \in Calls, Commit(c) PROVE CreationsMeant'
  <2>1. /\ call[c].key \in Keys /\ call[c].plan \in CreationType /\ call[c].plan.status = "reserved"
        /\ call[c].plan.source = "daily_quota" => call[c].plan.charged = 0
    BY <1>1, CommitFacts
  <2>2. creations' = [creations EXCEPT ![call[c].key] = call[c].plan]
    BY <1>1 DEF Commit
  <2>3. QED
    BY <2>1, <2>2 DEF CreationsMeant, AdmissionTypeOK
<1>2. ASSUME NEW k \in Keys, ReverseCharge(k) PROVE CreationsMeant'
  <2>1. /\ creations[k] \in CreationType /\ creations[k] # NoCreation
        /\ creations' = [creations EXCEPT ![k] = [creations[k] EXCEPT !.status = "reversed"]]
    BY <1>2, ReverseFacts
  <2>2. QED
    BY <2>1 DEF CreationsMeant, AdmissionTypeOK, CreationType
<1>3. ASSUME NEW k \in Keys, Confiscate(k) PROVE CreationsMeant'
  <2>1. /\ creations[k] \in CreationType /\ creations[k] # NoCreation
        /\ creations' = [creations EXCEPT ![k] = [creations[k] EXCEPT !.status = "confiscated"]]
    BY <1>3, ConfiscateFacts, CreationFields
  <2>2. QED
    BY <2>1 DEF CreationsMeant, AdmissionTypeOK, CreationType
<1>4. CASE UNCHANGED <<money, audits>>
  BY <1>4 DEF CreationsMeant, money
<1>5. ASSUME NEW t \in Tickets, NEW u \in Users, NEW d \in Deltas, Adjust(t, u, d)
      PROVE  CreationsMeant'
  BY <1>5 DEF Adjust, CreationsMeant
<1>6. QED
  BY <1>1, <1>2, <1>3, <1>4, <1>5, MoneyCases

\* The creations that were made.
Made(g) == {k \in Keys : g[k] # NoCreation}

\* A step adds at most one entry and one creation.
LEMMA BooksFiniteStep ==
    ASSUME AdmissionAssumption, AdmissionTypeOK, CallsMeant, BooksFinite,
           [AdmissionNext]_admissionVars
    PROVE  BooksFinite'
<1> USE AdmissionAssumption
<1>1. IsFiniteSet(entries) /\ IsFiniteSet(Made(creations))
  BY DEF BooksFinite, Made
<1>2. ASSUME NEW k \in Keys, NEW r, NEW e,
             creations' = [creations EXCEPT ![k] = r], entries' = entries \cup {e}
      PROVE  BooksFinite'
  <2>1. Made(creations') \in SUBSET (Made(creations) \cup {k})
    BY <1>2 DEF Made, AdmissionTypeOK
  <2>2. IsFiniteSet(Made(creations'))
    BY <1>1, <2>1, FS_AddElement, FS_Subset
  <2>3. IsFiniteSet(entries')
    BY <1>1, <1>2, FS_AddElement
  <2>4. QED
    BY <2>2, <2>3 DEF BooksFinite, Made
<1>3. ASSUME NEW c \in Calls, Commit(c) PROVE BooksFinite'
  BY <1>2, <1>3, CommitFacts DEF Commit
<1>4. ASSUME NEW k \in Keys, ReverseCharge(k) PROVE BooksFinite'
  BY <1>2, <1>4, ReverseFacts
<1>5. ASSUME NEW k \in Keys, Confiscate(k) PROVE BooksFinite'
  <2>1. Made(creations') \in SUBSET Made(creations) /\ entries' = entries
    <3>1. creations[k] # NoCreation
      BY <1>5, ConfiscateFacts, CreationFields
    <3>2. QED
      BY <1>5, <3>1 DEF Made, AdmissionTypeOK, Confiscate
  <2>2. IsFiniteSet(Made(creations'))
    BY <1>1, <2>1, FS_Subset
  <2>3. QED
    BY <1>1, <2>1, <2>2 DEF BooksFinite, Made
<1>6. CASE UNCHANGED <<money, audits>>
  BY <1>6 DEF BooksFinite, money
<1>7. ASSUME NEW t \in Tickets, NEW u \in Users, NEW d \in Deltas, Adjust(t, u, d)
      PROVE  BooksFinite'
  <2>1. creations' = creations
        /\ entries' = entries \cup {[key |-> <<"adjust", t>>, user |-> u, delta |-> d]}
    BY <1>7 DEF Adjust
  <2>2. QED
    BY <1>1, <2>1, FS_AddElement DEF BooksFinite, Made
<1>8. QED
  BY <1>3, <1>4, <1>5, <1>6, <1>7, MoneyCases

\* A step enters an adjustment only with its audit row.
LEMMA AuditedStep ==
    ASSUME AdmissionAssumption, AdmissionTypeOK, AdjustmentsAudited, [AdmissionNext]_admissionVars
    PROVE  AdjustmentsAudited'
<1> USE AdmissionAssumption
<1>1. ASSUME NEW c \in Calls, Commit(c) PROVE AdjustmentsAudited'
  BY <1>1 DEF Commit, AdjustmentsAudited
<1>2. ASSUME NEW k \in Keys, ReverseCharge(k) PROVE AdjustmentsAudited'
  BY <1>2 DEF ReverseCharge, AdjustmentsAudited
<1>3. ASSUME NEW k \in Keys, Confiscate(k) PROVE AdjustmentsAudited'
  BY <1>3 DEF Confiscate, AdjustmentsAudited
<1>4. CASE UNCHANGED <<money, audits>>
  BY <1>4 DEF AdjustmentsAudited, money
<1>5. ASSUME NEW t \in Tickets, NEW u \in Users, NEW d \in Deltas, Adjust(t, u, d)
      PROVE  AdjustmentsAudited'
  <2>1. [user |-> u, delta |-> d, balance |-> balance[u] + d] # NoTicket
    <3>1. d \in Int /\ Cap \in Nat /\ balance[u] \in Nat
      BY DEF AdmissionAssumption, AdmissionTypeOK
    <3>2. balance[u] + d \in Nat
      BY <1>5, <3>1 DEF Adjust
    <3>3. QED
      BY <3>2 DEF AdmissionAssumption
  <2>2. /\ audits' = [audits EXCEPT ![t] = [user |-> u, delta |-> d, balance |-> balance[u] + d]]
        /\ entries' = entries \cup {[key |-> <<"adjust", t>>, user |-> u, delta |-> d]}
    BY <1>5 DEF Adjust
  <2> DEFINE row == [user |-> u, delta |-> d, balance |-> balance[u] + d]
             new == [key |-> <<"adjust", t>>, user |-> u, delta |-> d]
  <2>3. new.key = <<"adjust", t>>
    OBVIOUS
  <2> HIDE DEF row, new
  <2>4. ASSUME NEW e \in entries', NEW s \in Tickets, e.key = <<"adjust", s>>
        PROVE  audits'[s] # NoTicket
    <3>1. e \in entries \/ s = t
      BY <2>2, <2>3, <2>4 DEF new
    <3>2. e \in entries => audits[s] # NoTicket
      BY <2>4 DEF AdjustmentsAudited
    <3>3. s \in DOMAIN audits /\ audits' = [audits EXCEPT ![t] = row]
      BY <2>2 DEF AdmissionTypeOK, row
    <3>4. QED
      BY <2>1, <3>1, <3>2, <3>3 DEF row
  <2>5. QED
    BY <2>4 DEF AdjustmentsAudited
<1>6. QED
  BY <1>1, <1>2, <1>3, <1>4, <1>5, MoneyCases

\* Whose entries of which kind appear with a new one.
LEMMA NewEntry ==
    ASSUME NEW e, entries' = entries \cup {e}
    PROVE  \A sort, j : EntriesOf(sort, j)' =
              IF e.key = <<sort, j>> THEN EntriesOf(sort, j) \cup {e} ELSE EntriesOf(sort, j)
  BY DEF EntriesOf

\* A step enters a reservation or a refund once, with its creation.
LEMMA EntriesTellStep ==
    ASSUME AdmissionAssumption, AdmissionTypeOK, CallsMeant, EntriesTell,
           [AdmissionNext]_admissionVars
    PROVE  EntriesTell'
<1> USE AdmissionAssumption
<1>1. ASSUME NEW c \in Calls, Commit(c) PROVE EntriesTell'
  <2>1. PICK k \in Keys, r \in CreationType :
            /\ r # NoCreation /\ r.status = "reserved"
            /\ creations[k] = NoCreation
            /\ creations' = [creations EXCEPT ![k] = r]
            /\ entries' = entries \cup {[key |-> <<"reserve", k>>, user |-> r.user, delta |-> -r.charged]}
    BY <1>1, CommitFacts, CreationFields DEF Commit
  <2> DEFINE new == [key |-> <<"reserve", k>>, user |-> r.user, delta |-> -r.charged]
  <2>2. new.key = <<"reserve", k>> /\ entries' = entries \cup {new}
    BY <2>1
  <2>3. creations'[k] = r /\ \A j \in Keys : j # k => creations'[j] = creations[j]
    BY <2>1 DEF AdmissionTypeOK
  <2>4. EntriesOf("reserve", k) = {} /\ EntriesOf("reverse", k) = {}
    BY <2>1 DEF EntriesTell, NoCreation
  <2> HIDE DEF new
  <2>5. \A sort, j : EntriesOf(sort, j)' =
            IF <<"reserve", k>> = <<sort, j>> THEN EntriesOf(sort, j) \cup {new} ELSE EntriesOf(sort, j)
    BY <2>2, NewEntry
  <2>6. EntriesOf("reserve", k)' = {new} /\ EntriesOf("reverse", k)' = {}
    BY <2>4, <2>5
  <2>7. \A j \in Keys : j # k => /\ EntriesOf("reserve", j)' = EntriesOf("reserve", j)
                                 /\ EntriesOf("reverse", j)' = EntriesOf("reverse", j)
    BY <2>5
  <2>8. QED
    BY <2>1, <2>3, <2>6, <2>7 DEF EntriesTell, new
<1>2. ASSUME NEW k \in Keys, ReverseCharge(k) PROVE EntriesTell'
  <2> DEFINE r == creations[k]
             s == [r EXCEPT !.status = "reversed"]
             new == [key |-> <<"reverse", k>>, user |-> r.user, delta |-> r.charged]
  <2>1. /\ r \in CreationType /\ r # NoCreation /\ r.status = "reserved" /\ s # NoCreation
        /\ creations' = [creations EXCEPT ![k] = s]
        /\ entries' = entries \cup {new}
    BY <1>2, ReverseFacts DEF ReverseCharge
  <2>2. s.user = r.user /\ s.charged = r.charged /\ s.status = "reversed"
    BY <2>1 DEF CreationType
  <2>2a. new.key = <<"reverse", k>> /\ entries' = entries \cup {new}
    BY <2>1
  <2> HIDE DEF new
  <2>3. \A sort, j : EntriesOf(sort, j)' =
            IF <<"reverse", k>> = <<sort, j>> THEN EntriesOf(sort, j) \cup {new} ELSE EntriesOf(sort, j)
    BY <2>2a, NewEntry
  <2>4. EntriesOf("reverse", k) = {}
        /\ EntriesOf("reserve", k) = {[key |-> <<"reserve", k>>, user |-> r.user, delta |-> -r.charged]}
    BY <2>1 DEF EntriesTell
  <2>5. creations'[k] = s /\ \A j \in Keys : j # k => creations'[j] = creations[j]
    BY <2>1 DEF AdmissionTypeOK
  <2>6. EntriesOf("reverse", k)' = {new}
        /\ EntriesOf("reserve", k)' = {[key |-> <<"reserve", k>>, user |-> r.user, delta |-> -r.charged]}
    BY <2>3, <2>4
  <2>7. ASSUME NEW j \in Keys, j # k
        PROVE  EntriesOf("reserve", j)' = EntriesOf("reserve", j)
               /\ EntriesOf("reverse", j)' = EntriesOf("reverse", j)
    BY <2>3, <2>7
  <2>8. new = [key |-> <<"reverse", k>>, user |-> s.user, delta |-> s.charged]
        /\ [key |-> <<"reserve", k>>, user |-> r.user, delta |-> -r.charged]
             = [key |-> <<"reserve", k>>, user |-> s.user, delta |-> -s.charged]
    BY <2>2 DEF new
  <2> HIDE DEF s, r, new
  <2>9. QED
    BY <2>1, <2>2, <2>5, <2>6, <2>7, <2>8 DEF EntriesTell
<1>3. ASSUME NEW k \in Keys, Confiscate(k) PROVE EntriesTell'
  <2> DEFINE r == creations[k]
             s == [r EXCEPT !.status = "confiscated"]
  <2>1. /\ r \in CreationType /\ r # NoCreation /\ r.status = "reserved" /\ s # NoCreation
        /\ creations' = [creations EXCEPT ![k] = s]
        /\ entries' = entries
    BY <1>3, ConfiscateFacts, CreationFields DEF Confiscate
  <2>2. s.user = r.user /\ s.charged = r.charged /\ s.status = "confiscated"
    BY <2>1 DEF CreationType
  <2>3. \A sort, j : EntriesOf(sort, j)' = EntriesOf(sort, j)
    BY <2>1 DEF EntriesOf
  <2>4. creations'[k] = s /\ \A j \in Keys : j # k => creations'[j] = creations[j]
    BY <2>1 DEF AdmissionTypeOK
  <2> HIDE DEF s
  <2>5. QED
    BY <2>1, <2>2, <2>3, <2>4 DEF EntriesTell
<1>4. CASE UNCHANGED <<money, audits>>
  BY <1>4 DEF EntriesTell, EntriesOf, money
<1>5. ASSUME NEW t \in Tickets, NEW u \in Users, NEW d \in Deltas, Adjust(t, u, d)
      PROVE  EntriesTell'
  <2> DEFINE new == [key |-> <<"adjust", t>>, user |-> u, delta |-> d]
  <2>0. new.key = <<"adjust", t>> /\ entries' = entries \cup {new}
    BY <1>5 DEF Adjust
  <2> HIDE DEF new
  <2>1. \A sort, j : EntriesOf(sort, j)' =
            IF <<"adjust", t>> = <<sort, j>> THEN EntriesOf(sort, j) \cup {new} ELSE EntriesOf(sort, j)
    BY <2>0, NewEntry
  <2>2. \A j : EntriesOf("reserve", j)' = EntriesOf("reserve", j)
               /\ EntriesOf("reverse", j)' = EntriesOf("reverse", j)
    BY <2>1
  <2>3. creations' = creations
    BY <1>5 DEF Adjust
  <2>4. QED
    BY <2>2, <2>3 DEF EntriesTell
<1>6. QED
  BY <1>1, <1>2, <1>3, <1>4, <1>5, MoneyCases
----------------------------------------------------------------------------
(* Balances.                                                                *)

\* A new entry and the balance it moves keep the balances sums of the entries.
LEMMA BalancesFollowEntry ==
    ASSUME AdmissionTypeOK, BooksFinite, BalancesAddUp, NEW e, e \notin entries,
           e.user \in Users, e.delta \in Int, entries' = entries \cup {e},
           balance' = [balance EXCEPT ![e.user] = @ + e.delta]
    PROVE  BalancesAddUp'
<1> DEFINE mine(u) == {x \in entries : x.user = u}
<1>1. ASSUME NEW u \in Users
      PROVE  balance'[u] = Opening + Moved({x \in entries' : x.user = u})
  <2>1. IsFiniteSet(mine(u))
    BY FS_Subset DEF BooksFinite
  <2>2. balance[u] = Opening + Moved(mine(u))
    BY DEF BalancesAddUp
  <2>3. CASE u = e.user
    <3>1. {x \in entries' : x.user = u} = mine(u) \cup {e} /\ e \notin mine(u)
      BY <2>3
    <3>2. Plain(mine(u) \cup {e}) /\ Plain(mine(u))
      BY DEF Plain, AdmissionTypeOK
    <3>3. balance'[u] = balance[u] + e.delta /\ balance[u] \in Nat
      BY <2>3 DEF AdmissionTypeOK
    <3> HIDE DEF mine
    <3>4. Moved(mine(u) \cup {e}) = Moved(mine(u)) + e.delta
      BY <2>1, <3>1, <3>2, OneEntryMore
    <3>5. Moved(mine(u)) \in Int /\ Opening \in Int
      <4>1. mine(u) \in SUBSET mine(u)
        OBVIOUS
      <4>2. Moved(mine(u)) = Total(DeltaIn(mine(u)), mine(u))
        BY <2>1, <3>2, <4>1, MovedAdds
      <4>3. Numbered(DeltaIn(mine(u)), mine(u))
        BY <3>2 DEF Numbered, Plain, DeltaIn
      <4>4. QED
        BY <2>1, <4>2, <4>3, TotalIsNumber, AdmissionAssumption DEF AdmissionAssumption
    <3> DEFINE before == Moved(mine(u))
    <3> HIDE DEF before
    <3>6. /\ balance[u] = Opening + before /\ before \in Int /\ Opening \in Int
          /\ Moved(mine(u) \cup {e}) = before + e.delta
      BY <2>2, <3>4, <3>5 DEF before
    <3>7. balance'[u] = Opening + Moved(mine(u) \cup {e})
      BY <3>3, <3>6
    <3>8. QED
      BY <3>1, <3>7
  <2>4. CASE u # e.user
    <3>1. {x \in entries' : x.user = u} = mine(u)
      BY <2>4
    <3>2. balance'[u] = balance[u]
      BY <2>4 DEF AdmissionTypeOK
    <3>3. QED
      BY <2>2, <3>1, <3>2
  <2>5. QED
    BY <2>3, <2>4
<1>2. QED
  BY <1>1 DEF BalancesAddUp

\* Every step that moves a balance enters what it moves, and no other does.
LEMMA BalancesStep ==
    ASSUME AdmissionAssumption, AdmissionTypeOK, CallsMeant, CreationsMeant, BooksFinite,
           AdjustmentsAudited, EntriesTell, BalancesAddUp, [AdmissionNext]_admissionVars
    PROVE  BalancesAddUp'
<1> USE AdmissionAssumption
<1>1. ASSUME NEW c \in Calls, Commit(c) PROVE BalancesAddUp'
  <2>1. PICK k \in Keys, r \in CreationType :
            /\ creations[k] = NoCreation
            /\ balance' = [balance EXCEPT ![r.user] = @ - r.charged]
            /\ entries' = entries \cup {[key |-> <<"reserve", k>>, user |-> r.user, delta |-> -r.charged]}
    BY <1>1, CommitFacts DEF Commit
  <2> DEFINE new == [key |-> <<"reserve", k>>, user |-> r.user, delta |-> -r.charged]
  <2>2. EntriesOf("reserve", k) = {}
    BY <2>1 DEF EntriesTell
  <2>3. new \notin entries
    BY <2>2 DEF EntriesOf
  <2>4. r.user \in Users /\ r.charged \in Nat
    BY CreationFields
  <2>5. balance' = [balance EXCEPT ![r.user] = @ + (-r.charged)]
    BY <2>1, <2>4 DEF AdmissionTypeOK
  <2>6. /\ new.user = r.user /\ new.delta = -r.charged /\ new.delta \in Int
        /\ entries' = entries \cup {new}
    BY <2>1, <2>4
  <2> HIDE DEF new
  <2>7. QED
    BY <2>3, <2>4, <2>5, <2>6, BalancesFollowEntry
<1>2. ASSUME NEW k \in Keys, ReverseCharge(k) PROVE BalancesAddUp'
  <2>1. PICK r \in CreationType :
            /\ r = creations[k] /\ r # NoCreation /\ r.status = "reserved"
            /\ entries' = entries \cup
                 {[key |-> <<"reverse", k>>, user |-> r.user, delta |-> r.charged]}
            /\ \/ balance' = [balance EXCEPT ![r.user] = @ + r.charged]
               \/ r.source = "daily_quota" /\ balance' = balance
    BY <1>2, ReverseFacts DEF ReverseCharge
  <2> DEFINE new == [key |-> <<"reverse", k>>, user |-> r.user, delta |-> r.charged]
  <2>2. EntriesOf("reverse", k) = {}
    BY <2>1 DEF EntriesTell
  <2>3. new \notin entries
    BY <2>2 DEF EntriesOf
  <2>4. r.user \in Users /\ r.charged \in Nat
    BY CreationFields
  <2>5. r.source = "daily_quota" => r.charged = 0
    BY <2>1 DEF CreationsMeant
  <2>6. balance' = [balance EXCEPT ![r.user] = @ + r.charged]
    <3>1. r.charged = 0 => balance = [balance EXCEPT ![r.user] = @ + r.charged]
      BY <2>4 DEF AdmissionTypeOK
    <3>2. QED
      BY <2>1, <2>5, <3>1
  <2>7. /\ new.user = r.user /\ new.delta = r.charged /\ new.delta \in Int
        /\ entries' = entries \cup {new}
    BY <2>1, <2>4
  <2> HIDE DEF new
  <2>8. QED
    BY <2>3, <2>4, <2>6, <2>7, BalancesFollowEntry
<1>3. ASSUME NEW k \in Keys, Confiscate(k) PROVE BalancesAddUp'
  BY <1>3 DEF Confiscate, BalancesAddUp
<1>4. CASE UNCHANGED <<money, audits>>
  BY <1>4 DEF BalancesAddUp, money
<1>5. ASSUME NEW t \in Tickets, NEW u \in Users, NEW d \in Deltas, Adjust(t, u, d)
      PROVE  BalancesAddUp'
  <2> DEFINE new == [key |-> <<"adjust", t>>, user |-> u, delta |-> d]
  <2>1. /\ new.key = <<"adjust", t>> /\ new.user = u /\ new.delta = d /\ d \in Int
    BY DEF AdmissionAssumption
  <2>2. /\ entries' = entries \cup {new} /\ audits[t] = NoTicket
        /\ balance' = [balance EXCEPT ![u] = @ + d]
    BY <1>5 DEF Adjust
  <2> HIDE DEF new
  <2>3. new \notin entries
    BY <2>1, <2>2 DEF AdjustmentsAudited
  <2>4. QED
    BY <2>1, <2>2, <2>3, BalancesFollowEntry
<1>6. QED
  BY <1>1, <1>2, <1>3, <1>4, <1>5, MoneyCases
----------------------------------------------------------------------------
(* Quotas.                                                                  *)

\* The creations a quota holds are finitely many, with units that are numbers.
LEMMA HoldingFacts ==
    ASSUME AdmissionTypeOK, BooksFinite, NEW q
    PROVE  IsFiniteSet(Holding(q)) /\ Counted(creations, Keys)
<1>1. Holding(q) \in SUBSET {k \in Keys : creations[k] # NoCreation}
  BY DEF Holding, NoCreation
<1>2. IsFiniteSet(Holding(q))
  BY <1>1, FS_Subset DEF BooksFinite
<1>3. Counted(creations, Keys)
  BY DEF AdmissionTypeOK, CreationType, NoCreation, Counted
<1>4. QED
  BY <1>2, <1>3

\* Creations that keep their units and hold the same quotas leave them as used
\* as they were.
LEMMA SameHolding ==
    ASSUME AdmissionTypeOK, BooksFinite, NEW q,
           Holding(q)' = Holding(q),
           \A k \in Holding(q) : creations'[k].units = creations[k].units
    PROVE  ReservedUnits(creations, Holding(q))' = ReservedUnits(creations, Holding(q))
<1>1. IsFiniteSet(Holding(q)) /\ Counted(creations, Holding(q))
  BY HoldingFacts DEF Counted, Holding
<1>2. ReservedUnits(creations, Holding(q)) = ReservedUnits(creations', Holding(q))
  BY <1>1, SameUnits
<1>3. QED
  BY <1>2

\* Every step that uses or returns units of a quota makes or reverses the
\* creation that holds them, and no other does.
LEMMA QuotaStep ==
    ASSUME AdmissionAssumption, AdmissionTypeOK, CallsMeant, BooksFinite, QuotaAccounted,
           [AdmissionNext]_admissionVars
    PROVE  QuotaAccounted'
<1> USE AdmissionAssumption
<1>a. \A q \in QuotaIds : quotas[q] \in [limit : Nat, used : Nat]
  BY DEF AdmissionTypeOK
<1>1. ASSUME NEW c \in Calls, Commit(c) PROVE QuotaAccounted'
  <2>1. PICK k \in Keys, r \in CreationType :
            /\ creations[k] = NoCreation /\ r.status = "reserved"
            /\ creations' = [creations EXCEPT ![k] = r]
            /\ quotas' = IF r.source = "daily_quota"
                         THEN [quotas EXCEPT ![QuotaOf(r)].used = @ + r.units] ELSE quotas
    <3> DEFINE its == call[c].key
               plan == call[c].plan
    <3>1. its \in Keys /\ plan \in CreationType /\ creations[its] = NoCreation /\ plan.status = "reserved"
      BY <1>1, CommitFacts
    <3>2. /\ creations' = [creations EXCEPT ![its] = plan]
          /\ quotas' = IF plan.source = "daily_quota"
                       THEN [quotas EXCEPT ![QuotaOf(plan)].used = @ + plan.units] ELSE quotas
      BY <1>1 DEF Commit
    <3> HIDE DEF its, plan
    <3>3. QED
      BY <3>1, <3>2
  <2>2. creations'[k] = r /\ \A j \in Keys : j # k => creations'[j] = creations[j]
    BY <2>1 DEF AdmissionTypeOK
  <2>3. \A q : k \notin Holding(q)
    BY <2>1 DEF Holding, NoCreation
  <2>4. QuotaOf(r) \in QuotaIds /\ r.units \in Nat
    BY CreationFields
  <2>5. ASSUME NEW q \in QuotaIds, ~(r.source = "daily_quota" /\ q = QuotaOf(r))
        PROVE  quotas'[q].used = ReservedUnits(creations, Holding(q))'
    <3>1. Holding(q)' = Holding(q)
      BY <2>1, <2>2, <2>3, <2>5 DEF Holding
    <3>1a. \A j \in Holding(q) : creations'[j].units = creations[j].units
      BY <2>2, <2>3 DEF Holding
    <3>2. ReservedUnits(creations, Holding(q))' = ReservedUnits(creations, Holding(q))
      BY <3>1, <3>1a, SameHolding
    <3>3. quotas'[q].used = quotas[q].used
      BY <2>1, <2>4, <2>5 DEF AdmissionTypeOK
    <3>4. QED
      BY <3>2, <3>3 DEF QuotaAccounted
  <2>6. ASSUME r.source = "daily_quota"
        PROVE  quotas'[QuotaOf(r)].used = ReservedUnits(creations, Holding(QuotaOf(r)))'
    <3> DEFINE q == QuotaOf(r)
    <3>1. Holding(q)' = Holding(q) \cup {k}
      BY <2>1, <2>2, <2>3, <2>6 DEF Holding
    <3>2. Counted(creations', Holding(q) \cup {k}) /\ Counted(creations, Holding(q))
      <4>1. \A j \in Holding(q) : j \in Keys /\ j # k
        BY <2>3 DEF Holding
      <4>2. Counted(creations, Keys) /\ creations'[k].units \in Int
        BY <2>2, <2>4, HoldingFacts
      <4>3. QED
        BY <2>2, <4>1, <4>2 DEF Counted
    <3>3. ReservedUnits(creations', Holding(q) \cup {k})
             = ReservedUnits(creations', Holding(q)) + creations'[k].units
      BY <2>3, <3>2, HoldingFacts, OneCreationMore
    <3>4. ReservedUnits(creations, Holding(q)) = ReservedUnits(creations', Holding(q))
      <4>1. \A j \in Holding(q) : creations'[j].units = creations[j].units
        BY <2>2, <2>3 DEF Holding
      <4>2. QED
        BY <3>2, <4>1, HoldingFacts, SameUnits
    <3>5. quotas[q].used = ReservedUnits(creations, Holding(q))
      BY <2>4 DEF QuotaAccounted
    <3>6. quotas'[q].used = quotas[q].used + r.units
      <4> HIDE DEF q
      <4>1. quotas' = [quotas EXCEPT ![q].used = quotas[q].used + r.units]
            /\ quotas \in [QuotaIds -> [limit : Nat, used : Nat]] /\ q \in QuotaIds
        BY <2>1, <2>4, <2>6 DEF AdmissionTypeOK, q
      <4>2. QED
        BY <4>1
    <3>7. QED
      BY <2>2, <3>1, <3>3, <3>4, <3>5, <3>6
  <2>7. QED
    BY <2>5, <2>6 DEF QuotaAccounted
<1>2. ASSUME NEW k \in Keys, ReverseCharge(k) PROVE QuotaAccounted'
  <2>1. PICK r \in CreationType :
            /\ r = creations[k] /\ r.status = "reserved"
            /\ creations' = [creations EXCEPT ![k] = [r EXCEPT !.status = "reversed"]]
            /\ \/ r.source = "diamonds" /\ quotas' = quotas
               \/ /\ r.source = "daily_quota"
                  /\ quotas' = [quotas EXCEPT ![QuotaOf(r)].used = @ - r.units]
    BY <1>2, ReverseFacts DEF ReverseCharge
  <2>2. /\ creations'[k].status = "reversed" /\ creations'[k].units = r.units
        /\ \A j \in Keys : j # k => creations'[j] = creations[j]
    BY <2>1 DEF AdmissionTypeOK, CreationType
  <2>3. \A q : k \in Holding(q) <=> r.source = "daily_quota" /\ q = QuotaOf(r)
    BY <2>1 DEF Holding
  <2>4. QuotaOf(r) \in QuotaIds /\ r.units \in Nat
    BY CreationFields
  <2>5. ASSUME NEW q \in QuotaIds, ~(r.source = "daily_quota" /\ q = QuotaOf(r))
        PROVE  quotas'[q].used = ReservedUnits(creations, Holding(q))'
    <3>1. Holding(q)' = Holding(q)
      BY <2>1, <2>2, <2>3, <2>5 DEF Holding
    <3>1a. \A j \in Holding(q) : creations'[j].units = creations[j].units
      BY <2>2, <2>3, <2>5 DEF Holding
    <3>2. ReservedUnits(creations, Holding(q))' = ReservedUnits(creations, Holding(q))
      BY <3>1, <3>1a, SameHolding
    <3>3. quotas'[q].used = quotas[q].used
      BY <2>1, <2>4, <2>5 DEF AdmissionTypeOK
    <3>4. QED
      BY <3>2, <3>3 DEF QuotaAccounted
  <2>6. ASSUME r.source = "daily_quota"
        PROVE  quotas'[QuotaOf(r)].used = ReservedUnits(creations, Holding(QuotaOf(r)))'
    <3> DEFINE q == QuotaOf(r)
               rest == Holding(q) \ {k}
    <3>1. /\ Holding(q)' = rest /\ Holding(q) = rest \cup {k} /\ k \notin rest
          /\ \A j \in rest : j \in Keys /\ j # k
      BY <2>1, <2>2, <2>3, <2>6 DEF Holding
    <3>2. /\ IsFiniteSet(rest) /\ Counted(creations, rest \cup {k}) /\ Counted(creations, rest)
      <4>1. IsFiniteSet(Holding(q)) /\ Counted(creations, Keys)
        BY HoldingFacts
      <4>2. IsFiniteSet(rest)
        BY <4>1, FS_Subset
      <4>3. QED
        BY <3>1, <4>1, <4>2 DEF Counted
    <3>3. \A j \in rest : creations'[j].units = creations[j].units
      BY <2>2, <3>1
    <3>4. quotas[q].used = ReservedUnits(creations, Holding(q))
      BY <2>4 DEF QuotaAccounted
    <3>5. quotas'[q].used = quotas[q].used - r.units /\ quotas[q].used \in Nat
      <4> HIDE DEF q
      <4>1. quotas' = [quotas EXCEPT ![q].used = quotas[q].used - r.units]
            /\ quotas \in [QuotaIds -> [limit : Nat, used : Nat]] /\ q \in QuotaIds
        BY <2>1, <2>4, <2>6 DEF AdmissionTypeOK, q
      <4>2. QED
        BY <4>1
    <3> HIDE DEF rest
    <3>6. ReservedUnits(creations, rest \cup {k}) = ReservedUnits(creations, rest) + creations[k].units
      BY <3>1, <3>2, OneCreationMore
    <3>7. ReservedUnits(creations, rest) = ReservedUnits(creations', rest)
      BY <3>2, <3>3, SameUnits
    <3>8. ReservedUnits(creations, rest) \in Int
      <4>1. rest \in SUBSET rest
        OBVIOUS
      <4>2. ReservedUnits(creations, rest) = Total(UnitsIn(creations, rest), rest)
        BY <3>2, <4>1, UnitsAdd
      <4>3. Numbered(UnitsIn(creations, rest), rest)
        BY <3>2 DEF Numbered, Counted, UnitsIn
      <4>4. QED
        BY <3>2, <4>2, <4>3, TotalIsNumber
    <3>9. ReservedUnits(creations, Holding(q))' = ReservedUnits(creations', rest)
      BY <3>1
    <3>10. QED
      BY <2>1, <2>4, <3>1, <3>4, <3>5, <3>6, <3>7, <3>8, <3>9
  <2>7. QED
    BY <2>5, <2>6 DEF QuotaAccounted
<1>3. ASSUME NEW k \in Keys, Confiscate(k) PROVE QuotaAccounted'
  <2>1. PICK r \in CreationType :
            /\ r = creations[k] /\ r.status = "reserved"
            /\ creations' = [creations EXCEPT ![k] = [r EXCEPT !.status = "confiscated"]]
            /\ quotas' = quotas
    BY <1>3, ConfiscateFacts DEF Confiscate
  <2>2. /\ creations'[k].status = "confiscated" /\ creations'[k].units = r.units
        /\ creations'[k].source = r.source /\ QuotaOf(creations'[k]) = QuotaOf(r)
        /\ \A j \in Keys : j # k => creations'[j] = creations[j]
    BY <2>1 DEF AdmissionTypeOK, CreationType, QuotaOf
  <2>3. ASSUME NEW q \in QuotaIds PROVE quotas'[q].used = ReservedUnits(creations, Holding(q))'
    <3>1. Holding(q)' = Holding(q)
      <4>1. k \in Holding(q)' <=> k \in Holding(q)
        BY <2>1, <2>2 DEF Holding
      <4>2. \A j \in Keys : j # k => (j \in Holding(q)' <=> j \in Holding(q))
        BY <2>2 DEF Holding
      <4>3. \A j : (j \in Holding(q)' => j \in Keys) /\ (j \in Holding(q) => j \in Keys)
        BY DEF Holding
      <4>4. \A j : j \in Holding(q)' <=> j \in Holding(q)
        BY <4>1, <4>2, <4>3
      <4>5. QED
        BY <4>4
    <3>1a. \A j \in Holding(q) : creations'[j].units = creations[j].units
      BY <2>1, <2>2 DEF Holding
    <3>2. ReservedUnits(creations, Holding(q))' = ReservedUnits(creations, Holding(q))
      BY <3>1, <3>1a, SameHolding
    <3>3. QED
      BY <2>1, <3>2 DEF QuotaAccounted
  <2>4. QED
    BY <2>3 DEF QuotaAccounted
<1>4. ASSUME quotas' = quotas, creations' = creations PROVE QuotaAccounted'
  <2>1. \A q : Holding(q)' = Holding(q)
    BY <1>4 DEF Holding
  <2>2. QED
    BY <1>4, <2>1 DEF QuotaAccounted
<1>5. UNCHANGED <<money, audits>> => quotas' = quotas /\ creations' = creations
  BY DEF money
<1>6. ASSUME NEW t \in Tickets, NEW u \in Users, NEW d \in Deltas, Adjust(t, u, d)
      PROVE  QuotaAccounted'
  BY <1>4, <1>6 DEF Adjust
<1>7. QED
  BY <1>1, <1>2, <1>3, <1>4, <1>5, <1>6, MoneyCases
----------------------------------------------------------------------------
(* Answers.                                                                 *)

\* A request that was answered stays as it is.
LEMMA DoneStays ==
    ASSUME AdmissionTypeOK, [AdmissionNext]_admissionVars, NEW c \in Calls, call[c].at = "done"
    PROVE  /\ call'[c].at = "done"
           /\ call'[c].user = call[c].user /\ call'[c].product = call[c].product
<1>a. call \in [Calls -> CallType] /\ call[c] \in CallType
  BY CallsType, CallFields
<1>b. \A docs : /\ Overtake(docs, call)[c].at = "done"
                /\ Overtake(docs, call)[c].user = call[c].user
                /\ Overtake(docs, call)[c].product = call[c].product
  BY Overtaken
<1>1. CASE call' = call
  BY <1>1
<1>2. ASSUME NEW d \in Calls, Commit(d)
      PROVE  call'[c] = Overtake(Writes(call[d].key, call[d].plan), call)[c]
  <2>1. d # c
    BY <1>2 DEF Commit
  <2>2. QED
    BY <1>2, <2>1 DEF Commit, Overtake
<1>3. ASSUME NEW k \in Keys, ReverseCharge(k)
      PROVE  call' = Overtake(Writes(k, creations[k]), call)
  BY <1>3 DEF ReverseCharge
<1>4. ASSUME NEW t \in Tickets, NEW u \in Users, NEW d \in Deltas, Adjust(t, u, d)
      PROVE  call' = Overtake({<<"account", u>>}, call)
  BY <1>4 DEF Adjust
<1>5. ASSUME NEW d \in Calls, Request(d), ~Commit(d)
      PROVE  call'[c] = call[c]
  <2>1. d # c
    BY <1>5 DEF Request, Lookup, Open, Commit, Retry, Refuse, Duplicate, Resolve
  <2>2. QED
    BY <1>5, <1>a, <2>1 DEF Request, Lookup, Open, Retry, Refuse, Duplicate, Resolve
<1>6. ASSUME \/ UNCHANGED admissionVars \/ NextDay \/ \E k \in Keys : Confiscate(k)
             \/ \E u \in Users : GrantSubscription(u)
             \/ \E u \in Users, s \in Statuses : ChangeUser(u, s)
      PROVE  call' = call
  BY <1>6 DEF admissionVars, NextDay, Confiscate, GrantSubscription, ChangeUser
<1>7. ASSUME NEW docs, call'[c] = Overtake(docs, call)[c]
      PROVE  /\ call'[c].at = "done"
             /\ call'[c].user = call[c].user /\ call'[c].product = call[c].product
  BY <1>b, <1>7
<1>8. CASE \E d \in Calls : Request(d)
  <2>1. PICK d \in Calls : Request(d)
    BY <1>8
  <2>2. CASE Commit(d)
    BY <1>2, <1>7, <2>2
  <2>3. CASE ~Commit(d)
    BY <1>5, <2>1, <2>3
  <2>4. QED
    BY <2>2, <2>3
<1>9. CASE \E k \in Keys : ReverseCharge(k)
  BY <1>3, <1>7, <1>9
<1>10. CASE \E t \in Tickets, u \in Users, d \in Deltas : Adjust(t, u, d)
  BY <1>4, <1>7, <1>10
<1>11. QED
  BY <1>1, <1>6, <1>8, <1>9, <1>10 DEF AdmissionNext

\* What an answer has to be.
AnswerTrue(a) ==
    /\ call[a.call].at = "done" /\ creations[a.key] # NoCreation
    /\ a.creation = [creations[a.key] EXCEPT !.status = "none"]
    /\ a.creation.user = call[a.call].user
    /\ a.creation.product = call[a.call].product

\* The two properties of answers, answer by answer.
LEMMA AnswersTrue ==
    AnswersStand /\ AnswersTruthful <=> \A a \in answers : AnswerTrue(a)
  BY DEF AnswersStand, AnswersTruthful, AnswerTrue

\* Every step keeps the answers true, and gives only true ones.
LEMMA AnswersStep ==
    ASSUME AdmissionAssumption, AdmissionTypeOK, CallsMeant, AnswersStand, AnswersTruthful,
           [AdmissionNext]_admissionVars
    PROVE  AnswersStand' /\ AnswersTruthful'
<1> USE AdmissionAssumption
<1>1. ASSUME NEW a \in answers PROVE AnswerTrue(a)'
  <2>1. a.call \in Calls /\ a.key \in Keys
    BY DEF AdmissionTypeOK
  <2>2. AnswerTrue(a)
    BY AnswersTrue
  <2>3. QED
    BY <2>1, <2>2, CreationsKept, DoneStays DEF AnswerTrue
<1>2. ASSUME NEW c \in Calls, Commit(c), NEW a \in answers', a \notin answers PROVE AnswerTrue(a)'
  <2> DEFINE k == call[c].key
             r == call[c].plan
             over == Overtake(Writes(k, r), call)
  <2>1. /\ k \in Keys /\ r \in CreationType /\ r # NoCreation
        /\ r.user = call[c].user /\ r.product = call[c].product
    BY <1>2, CommitFacts, CreationFields
  <2>2. a = [call |-> c, key |-> k, creation |-> [r EXCEPT !.status = "none"]]
    BY <1>2 DEF Commit
  <2>3. creations'[k] = r
    BY <1>2, <2>1 DEF Commit, AdmissionTypeOK
  <2>4. call'[c].at = "done" /\ call'[c].user = r.user /\ call'[c].product = r.product
    <3>1. /\ over \in [Calls -> CallType] /\ call' = [over EXCEPT ![c].at = "done"]
      BY <1>2, CallsType, OvertakeType DEF Commit
    <3>2. over[c].user = call[c].user /\ over[c].product = call[c].product
      BY Overtaken
    <3> HIDE DEF over
    <3>3. QED
      BY <2>1, <3>1, <3>2 DEF CallType
  <2>5. [r EXCEPT !.status = "none"].user = r.user /\ [r EXCEPT !.status = "none"].product = r.product
    BY <2>1 DEF CreationType
  <2>6. a.call = c /\ a.key = k /\ a.creation = [r EXCEPT !.status = "none"]
    BY <2>2
  <2> SUFFICES /\ call'[a.call].at = "done" /\ creations'[a.key] # NoCreation
               /\ a.creation = [creations'[a.key] EXCEPT !.status = "none"]
               /\ a.creation.user = call'[a.call].user
               /\ a.creation.product = call'[a.call].product
    BY DEF AnswerTrue
  <2> HIDE DEF k, r
  <2>7. QED
    BY <2>1, <2>3, <2>4, <2>5, <2>6
<1>3. ASSUME NEW c \in Calls, Resolve(c), NEW a \in answers', a \notin answers PROVE AnswerTrue(a)'
  <2>1. PICK k \in Keys, r \in CreationType :
            /\ k = call[c].key /\ r = creations[k] /\ creations[k] # NoCreation
            /\ r.user = call[c].user /\ r.product = call[c].product
            /\ a = [call |-> c, key |-> k, creation |-> [r EXCEPT !.status = "none"]]
    BY <1>3 DEF Resolve, SameCommand, CallsMeant, CallMeant, AdmissionTypeOK
  <2>2. /\ creations' = creations /\ call'[c].at = "done"
        /\ call'[c].user = call[c].user /\ call'[c].product = call[c].product
    BY <1>3, CallsType DEF Resolve, money, CallType
  <2>3. [r EXCEPT !.status = "none"].user = r.user /\ [r EXCEPT !.status = "none"].product = r.product
    BY <2>1 DEF CreationType
  <2>4. QED
    BY <2>1, <2>2, <2>3 DEF AnswerTrue
<1>4. ASSUME NEW a \in answers' PROVE AnswerTrue(a)'
  <2>1. \/ answers' = answers
        \/ \E c \in Calls : Commit(c) \/ Resolve(c)
    BY DEF AdmissionNext, Request, admissionVars, Lookup, Open, Retry, Refuse, Duplicate,
           ReverseCharge, Confiscate, Adjust, GrantSubscription, ChangeUser, NextDay
  <2>2. QED
    BY <1>1, <1>2, <1>3, <2>1
<1>5. QED
  BY <1>4 DEF AnswersStand, AnswersTruthful, AnswerTrue
----------------------------------------------------------------------------
(* The theorems.                                                            *)

\* The invariant holds of open accounts, unused quotas and no requests.
LEMMA InitInvariant == ASSUME AdmissionAssumption, AdmissionInit PROVE IInv
<1> USE AdmissionAssumption
<1>1. \A k \in Keys : creations[k] = NoCreation
  BY DEF AdmissionInit
<1>2. AdmissionTypeOK
  <2>1. users \in [Users -> [status : Statuses, bound : BOOLEAN]]
    BY DEF AdmissionInit, Statuses
  <2>2. subs \in [Users -> [period : Periods, until : Nat]]
    BY DEF AdmissionInit, AdmissionAssumption
  <2>3. /\ quotas \in [QuotaIds -> [limit : Nat, used : Nat]]
        /\ \A q \in QuotaIds : quotas[q].used <= quotas[q].limit
    <3>1. {0, Base, 2 * Base} \subseteq Nat
      BY DEF AdmissionAssumption
    <3>2. \A q \in QuotaIds : quotas[q].used = 0 /\ quotas[q].limit \in Nat
      BY <3>1 DEF AdmissionInit
    <3>3. quotas \in [QuotaIds -> [limit : Nat, used : Nat]]
      BY <3>1 DEF AdmissionInit
    <3>4. QED
      BY <3>2, <3>3
  <2>4. creations \in [Keys -> CreationType \cup {NoCreation}] /\ entries = {} /\ answers = {}
    BY DEF AdmissionInit
  <2>5. balance \in [Users -> Nat] /\ today \in Days /\ ops \in 0 .. MaxOps
    BY DEF AdmissionInit, AdmissionAssumption, Days
  <2>6. audits \in [Tickets -> [user : Users, delta : Deltas, balance : Nat] \cup {NoTicket}]
    BY DEF AdmissionInit
  <2>7. call \in [Calls -> CallType]
    BY DEF AdmissionInit, Idle, CallType
  <2>8. QED
    BY <2>1, <2>2, <2>3, <2>4, <2>5, <2>6, <2>7 DEF AdmissionTypeOK, CallType
<1>3. CallsMeant
  BY DEF AdmissionInit, CallsMeant, CallMeant, Idle
<1>4. CreationsMeant /\ AdjustmentsAudited /\ AnswersStand /\ AnswersTruthful
  BY <1>1 DEF AdmissionInit, CreationsMeant, AdjustmentsAudited, AnswersStand, AnswersTruthful
<1>5. BooksFinite
  <2>1. entries = {} /\ {k \in Keys : creations[k] # NoCreation} = {}
    BY <1>1 DEF AdmissionInit
  <2>2. QED
    BY <2>1, FS_EmptySet DEF BooksFinite
<1>6. EntriesTell
  BY <1>1 DEF AdmissionInit, EntriesTell, EntriesOf, NoCreation
<1>7. BalancesAddUp
  <2>1. \A u : {e \in entries : e.user = u} = {}
    BY DEF AdmissionInit
  <2>2. \A u \in Users : balance[u] = Opening
    BY DEF AdmissionInit
  <2>3. Opening \in Nat
    BY DEF AdmissionAssumption
  <2>4. QED
    BY <2>1, <2>2, <2>3, NothingMoved DEF BalancesAddUp
<1>8. QuotaAccounted
  <2>1. \A q : Holding(q) = {}
    BY <1>1 DEF Holding, NoCreation
  <2>2. \A q \in QuotaIds : quotas[q].used = 0
    BY DEF AdmissionInit
  <2>3. QED
    BY <2>1, <2>2, NoUnits DEF QuotaAccounted
<1>9. QED
  BY <1>2, <1>3, <1>4, <1>5, <1>6, <1>7, <1>8 DEF IInv

\* Every step keeps the invariant.
LEMMA StepInvariant ==
    ASSUME AdmissionAssumption, IInv, [AdmissionNext]_admissionVars
    PROVE  IInv'
  BY TypeStep, CallsStep, CreationsMeantStep, BooksFiniteStep, AuditedStep, EntriesTellStep,
     BalancesStep, QuotaStep, AnswersStep DEF IInv

\* The invariant holds of every behaviour, for any users, products, prices, keys
\* and requests.
THEOREM InvariantHolds == AdmissionSpec => []IInv
<1>1. AdmissionInit => IInv
  BY InitInvariant, AdmissionAssumption
<1>2. IInv /\ [AdmissionNext]_admissionVars => IInv'
  BY StepInvariant, AdmissionAssumption
<1>3. QED
  BY <1>1, <1>2, PTL DEF AdmissionSpec

\* Types hold; no balance is negative and no quota is used beyond its limit.
THEOREM TypesHold == AdmissionSpec => []AdmissionTypeOK
<1>1. IInv => AdmissionTypeOK
  BY DEF IInv
<1>2. QED
  BY <1>1, InvariantHolds, PTL

\* Every balance is the sum of its ledger entries, every reservation is charged
\* once and given back at most once, every quota is used by what was reserved on
\* its day, and every answer names the one creation of its key to who made it.
THEOREM AdmissionIsSafe == AdmissionSpec => []AdmissionSafe
<1>1. IInv => AdmissionSafe
  BY DEF IInv, AdmissionSafe, WalletAddsUp
<1>2. QED
  BY <1>1, InvariantHolds, PTL
=============================================================================
