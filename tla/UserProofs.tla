----------------------------- MODULE UserProofs -----------------------------
(***************************************************************************)
(* Proofs about the components a user meets.  Every component has an       *)
(* inductive invariant of its own, and shares no state with the others;    *)
(* the last theorem joins their types.                                     *)
(*                                                                         *)
(* Sessions: any accounts, addresses, devices, external identities, tokens *)
(* and requests in progress.  Callbacks: any creations, nonces, addresses  *)
(* and number of callbacks.  Realtime: any clients, events, restarts and   *)
(* room of a connection.  Edge: any requests, switches, readers, images,   *)
(* tasks, orders and envelopes.                                            *)
(*                                                                         *)
(* Feeds: any rows, times, page sizes, notices, messages and tabs.  Rows   *)
(* that arrive only push the rows already there down, so that a reader who *)
(* pages by a cursor meets every row he began with once, and one who pages *)
(* by an offset misses none.                                               *)
(***************************************************************************)
EXTENDS User, AdmissionProofs

(* Sessions.                                                                 *)

\* The version of an account counts the changes of its status or role; a place
\* nobody registered for is empty, and its identifier is known to nobody.
AccountMeant(p) ==
    IF accounts[p].status = "none"
    THEN /\ accounts[p] = NoAccount /\ changes[p] = 0 /\ credentials[p] = NoCredential
         /\ \A s \in Subjects : subjects[s] # p
    ELSE accounts[p].version = changes[p] + 1

\* A credential is of an address, and only of an account that is not deleted
\* while it is active.
CredentialMeant(p) ==
    /\ credentials[p] # NoCredential => credentials[p].email \in Emails
    /\ accounts[p].status = "deleted" => ~credentials[p].active

\* An address opens one account.
AddressesOpenOne ==
    \A p, q \in People :
        /\ credentials[p].active /\ credentials[q].active
        /\ credentials[p].email = credentials[q].email
        => p = q

\* An account is bound exactly when somebody is known to own it.
BindingMeant(p) ==
    accounts[p].status # "none" =>
        (accounts[p].binding = "bound"
            <=> credentials[p] # NoCredential \/ \E s \in Subjects : subjects[s] = p)

\* A session is of an account, and its version is that of the account after the
\* changes its login saw.
SessionMeant(t) ==
    sessions[t] # NoSession =>
        LET s == sessions[t]
        IN  /\ s.owner \in People /\ accounts[s.owner].status # "none"
            /\ s.version = s.since + 1 /\ s.since <= changes[s.owner]

\* What a request knows of its account and of its session.
RequestMeant(r) ==
    LET q == request[r]
        s == sessions[q.token]
    IN  /\ q.at \in {"verified", "rehash", "issue", "authenticated", "choose", "revoke"} =>
              q.who \in People /\ accounts[q.who].status # "none"
        /\ q.at \in {"rehash", "issue"} => q.version = q.since + 1 /\ q.since <= changes[q.who]
        /\ q.at \in {"session", "authenticated"} => q.token \in Tokens /\ s # NoSession
        /\ q.at = "session" => \/ q.ok \/ ~Normal(s.owner)
                               \/ accounts[s.owner].version # s.version
        /\ q.at = "authenticated" => q.ok /\ s.since = q.since

\* The invariant.
AccountsInv ==
    /\ SessionsTypeOK
    /\ \A p \in People : AccountMeant(p) /\ CredentialMeant(p) /\ BindingMeant(p)
    /\ AddressesOpenOne
    /\ \A t \in Tokens : SessionMeant(t)
    /\ \A r \in Requests : RequestMeant(r)
----------------------------------------------------------------------------
(* Types.                                                                  *)

\* The types of what a place of each kind holds.
AccountType == [status : {"none", "normal", "banned", "deleted"}, binding : {"guest", "bound"},
                device : Devices \cup {NoDevice}, version : Nat]
CredentialType == [email : Emails \cup {NoEmail}, active : BOOLEAN, hash : Hashes]
SessionType == [owner : People \cup {Nobody}, version : Nat, over : BOOLEAN, since : Nat]
RequestType ==
    [at : {"ready", "verified", "rehash", "issue", "session", "authenticated",
           "choose", "revoke", "done"},
     who : People \cup {Nobody}, token : Tokens \cup {NoToken},
     password : Passwords \cup {NoPassword}, version : Nat, since : Nat,
     stale : BOOLEAN, ok : BOOLEAN]

\* The type invariant, variable by variable.
LEMMA Types ==
    ASSUME SessionsTypeOK
    PROVE  /\ accounts \in [People -> AccountType] /\ credentials \in [People -> CredentialType]
           /\ subjects \in [Subjects -> People \cup {Nobody}]
           /\ sessions \in [Tokens -> SessionType] /\ request \in [Requests -> RequestType]
           /\ changes \in [People -> Nat] /\ chosen \in [People -> Passwords \cup {NoPassword}]
  BY DEF SessionsTypeOK, AccountType, CredentialType, SessionType, RequestType

\* The type invariant of the next state, from its parts.
LEMMA TypesAgain ==
    ASSUME accounts' \in [People -> AccountType], credentials' \in [People -> CredentialType],
           subjects' \in [Subjects -> People \cup {Nobody}],
           sessions' \in [Tokens -> SessionType], request' \in [Requests -> RequestType],
           changes' \in [People -> Nat], chosen' \in [People -> Passwords \cup {NoPassword}]
    PROVE  SessionsTypeOK'
  BY DEF SessionsTypeOK, AccountType, CredentialType, SessionType, RequestType

\* The markers are of their types, and none of what they stand in for.
LEMMA Markers ==
    ASSUME SessionsAssumption
    PROVE  /\ NoAccount \in AccountType /\ NoCredential \in CredentialType
           /\ NoSession \in SessionType /\ Done \in RequestType /\ Ready \in RequestType
           /\ Done.at = "done" /\ Ready.at = "ready"
           /\ \A ok \in BOOLEAN : [Done EXCEPT !.ok = ok] \in RequestType
                                 /\ [Done EXCEPT !.ok = ok].at = "done"
           /\ NoSession.owner = Nobody /\ NoCredential.email = NoEmail /\ ~NoCredential.active
           /\ NoAccount.status = "none" /\ NoAccount.device = NoDevice
  BY DEF NoAccount, NoCredential, NoSession, Done, Ready, AccountType, CredentialType, Hashes,
         SessionType, RequestType

\* A credential put aside keeps its address.
LEMMA InactiveType ==
    ASSUME NEW c \in CredentialType
    PROVE  /\ [c EXCEPT !.active = FALSE] \in CredentialType
           /\ [c EXCEPT !.active = FALSE].email = c.email
           /\ [c EXCEPT !.active = FALSE].active = FALSE
  BY DEF CredentialType

\* A changed account is one, and keeps its binding.
LEMMA ChangedType ==
    ASSUME NEW a \in AccountType, NEW status \in {"normal", "banned", "deleted"}, NEW v \in Nat
    PROVE  LET b == [a EXCEPT !.status = status, !.version = v]
           IN  b \in AccountType /\ b.status = status /\ b.version = v /\ b.binding = a.binding
  BY DEF AccountType

\* A credential with a new hash is one, of the same address.
LEMMA NewHashType ==
    ASSUME NEW c \in CredentialType, NEW w \in Passwords \cup {NoPassword}
    PROVE  /\ [c EXCEPT !.hash = NewHash(w)] \in CredentialType
           /\ [c EXCEPT !.hash = NewHash(w)].email = c.email
           /\ [c EXCEPT !.hash = NewHash(w)].active = c.active
  BY DEF CredentialType, Hashes, NewHash
----------------------------------------------------------------------------
(* What a step writes.                                                     *)

\* A new account, with its first session.
Opens(p, new, t) ==
    /\ accounts[p].status = "none" /\ sessions[t] = NoSession
    /\ new \in AccountType /\ new.status = "normal" /\ new.version = 1
    /\ accounts' = [accounts EXCEPT ![p] = new]
    /\ sessions' = [sessions EXCEPT ![t] =
                       [owner |-> p, version |-> 1, over |-> FALSE, since |-> changes[p]]]
    /\ UNCHANGED <<subjects, changes>>

\* A registration sets aside the credentials that deleted accounts hold of the
\* address.
OpensRegistered(p, t) ==
    \E new \in AccountType, e \in Emails, w \in Passwords :
        /\ Opens(p, new, t) /\ new.binding = "bound"
        /\ \A q \in Holders(e) : accounts[q].status = "deleted"
        /\ credentials' = [q \in People |->
              IF q = p THEN [email |-> e, active |-> TRUE, hash |-> NewHash(w)]
              ELSE IF q \in Holders(e) THEN [credentials[q] EXCEPT !.active = FALSE]
              ELSE credentials[q]]

\* The account of a guest has no credential.
OpensGuest(p, t) ==
    \E new \in AccountType : Opens(p, new, t) /\ new.binding = "guest" /\ UNCHANGED credentials

\* A change of status or role.
Changes(p) ==
    /\ accounts[p].status # "none" /\ UNCHANGED subjects
    /\ \E status \in {"normal", "banned", "deleted"} : ApplyStatus(p, status)

\* A binding.
BindsTo(p, s) ==
    /\ Normal(p) /\ subjects[s] \in {p, Nobody}
    /\ subjects' = [subjects EXCEPT ![s] = p]
    /\ accounts' = [accounts EXCEPT ![p].binding = "bound"]
    /\ UNCHANGED <<credentials, sessions, changes>>

\* A new hash of an active credential.
Hashed(p) ==
    /\ credentials[p].active
    /\ \E w \in Passwords \cup {NoPassword} :
          credentials' = [credentials EXCEPT ![p].hash = NewHash(w)]
    /\ UNCHANGED <<accounts, subjects, sessions, changes>>

\* A session of an account that was read before.
Issues(t, p, version, since) ==
    /\ sessions[t] = NoSession
    /\ p \in People /\ accounts[p].status # "none"
    /\ version \in Nat /\ since \in Nat /\ version = since + 1 /\ since <= changes[p]
    /\ sessions' = [sessions EXCEPT ![t] =
                       [owner |-> p, version |-> version, over |-> FALSE, since |-> since]]
    /\ UNCHANGED <<accounts, credentials, subjects, changes>>

\* Some sessions end, or nothing is written.
EndsOnly(new) ==
    /\ new \in [Tokens -> SessionType]
    /\ \A t \in Tokens :
          \/ new[t] = sessions[t]
          \/ sessions[t] # NoSession /\ new[t] = [sessions[t] EXCEPT !.over = TRUE]

\* An expiry, a logout from everywhere, or a read.
Ends ==
    /\ EndsOnly(sessions')
    /\ UNCHANGED <<accounts, credentials, subjects, changes>>

\* Whatever a step is called, it writes one of these.
Written ==
    \/ \E p \in People, t \in Tokens : OpensRegistered(p, t) \/ OpensGuest(p, t)
    \/ \E p \in People : Changes(p) \/ Hashed(p)
    \/ \E p \in People, s \in Subjects : BindsTo(p, s)
    \/ \E t \in Tokens : \E p, version, since : Issues(t, p, version, since)
    \/ Ends

\* Revoking ends sessions.
LEMMA RevokedEnds ==
    ASSUME SessionsAssumption, SessionsTypeOK, NEW p \in People
    PROVE  EndsOnly(Revoked(p))
<1>1. sessions \in [Tokens -> SessionType]
  BY Types
<1>2. \A t \in Tokens : [sessions[t] EXCEPT !.over = TRUE] \in SessionType
  BY <1>1 DEF SessionType
<1>3. NoSession.owner # p
  BY DEF NoSession, SessionsAssumption
<1>4. QED
  BY <1>1, <1>2, <1>3 DEF Revoked, EndsOnly

\* Every action writes one of the effects, or nothing but a request.
LEMMA WrittenStep ==
    ASSUME SessionsAssumption, AccountsInv, [SessionsNext]_sessionsVars
    PROVE  Written
<1> USE SessionsAssumption
<1>a. SessionsTypeOK /\ \A r \in Requests : RequestMeant(r)
  BY DEF AccountsInv
<1>b. sessions \in [Tokens -> SessionType] /\ request \in [Requests -> RequestType]
      /\ accounts \in [People -> AccountType]
  BY <1>a, Types
<1>0. ASSUME UNCHANGED <<accounts, credentials, subjects, sessions, changes>> PROVE Written
  BY <1>0, <1>b DEF Written, Ends, EndsOnly
<1>1. ASSUME NEW r \in Requests, NEW p \in People, NEW e \in Emails, NEW w \in Passwords,
             NEW t \in Tokens, Register(r, p, e, w, t)
      PROVE  Written
  <2> DEFINE new == [status |-> "normal", binding |-> "bound", device |-> NoDevice, version |-> 1]
  <2>1. new \in AccountType /\ new.status = "normal" /\ new.version = 1 /\ new.binding = "bound"
    BY DEF AccountType
  <2>2. accounts[p].status = "none" /\ sessions[t] = NoSession
    BY <1>1 DEF Register, Unused, FreshTokens
  <2>3. /\ accounts' = [accounts EXCEPT ![p] = new]
        /\ sessions' = [sessions EXCEPT ![t] =
                       [owner |-> p, version |-> 1, over |-> FALSE, since |-> changes[p]]]
        /\ UNCHANGED <<subjects, changes>>
    BY <1>1 DEF Register, Issue
  <2> HIDE DEF new
  <2>4. Opens(p, new, t) /\ new.binding = "bound"
    BY <2>1, <2>2, <2>3 DEF Opens
  <2>5. /\ \A q \in Holders(e) : accounts[q].status = "deleted"
        /\ credentials' = [q \in People |->
              IF q = p THEN [email |-> e, active |-> TRUE, hash |-> NewHash(w)]
              ELSE IF q \in Holders(e) THEN [credentials[q] EXCEPT !.active = FALSE]
              ELSE credentials[q]]
    BY <1>1 DEF Register
  <2>6. OpensRegistered(p, t)
    BY <2>1, <2>4, <2>5 DEF OpensRegistered
  <2>7. QED
    BY <2>6 DEF Written
<1>2. ASSUME NEW r \in Requests, NEW p \in People, NEW d \in Devices, NEW t \in Tokens,
             CreateGuest(r, p, d, t)
      PROVE  Written
  <2> DEFINE new == [status |-> "normal", binding |-> "guest", device |-> d, version |-> 1]
  <2>1. new \in AccountType /\ new.status = "normal" /\ new.version = 1 /\ new.binding = "guest"
    BY DEF AccountType
  <2>2. accounts[p].status = "none" /\ sessions[t] = NoSession
    BY <1>2 DEF CreateGuest, Unused, FreshTokens
  <2>3. /\ accounts' = [accounts EXCEPT ![p] = new]
        /\ sessions' = [sessions EXCEPT ![t] =
                       [owner |-> p, version |-> 1, over |-> FALSE, since |-> changes[p]]]
        /\ UNCHANGED <<subjects, changes, credentials>>
    BY <1>2 DEF CreateGuest, Issue
  <2> HIDE DEF new
  <2>4. OpensGuest(p, t)
    BY <2>1, <2>2, <2>3 DEF Opens, OpensGuest
  <2>5. QED
    BY <2>4 DEF Written
<1>3. ASSUME NEW r \in Requests,
             \/ \E p \in People, e \in Emails :
                      FindLocal(r, p, e) \/ \E w \in Passwords : Verify(r, p, e, w)
             \/ ReadUser(r) \/ (\E t \in Tokens : ReadSession(r, t))
             \/ (\E p \in People : ReturnGuest(r, p))
             \/ Authenticate(r) \/ Again(r) \/ UseProfile(r)
             \/ (\E w \in Passwords : CheckPassword(r, w))
      PROVE  Written
  BY <1>0, <1>3 DEF FindLocal, Verify, ReadUser, ReadSession, ReturnGuest, Authenticate, Again,
                    UseProfile, CheckPassword
<1>4. ASSUME NEW r \in Requests, Rehash(r) PROVE Written
  <2> DEFINE p == request[r].who
             w == request[r].password
  <2>1. p \in People
    BY <1>a, <1>4 DEF Rehash, RequestMeant
  <2>2. w \in Passwords \cup {NoPassword}
    BY <1>b DEF RequestType
  <2>3. CASE credentials[p].active
    <3>1. /\ credentials' = [credentials EXCEPT ![p].hash = NewHash(w)]
          /\ UNCHANGED <<accounts, subjects, sessions, changes>>
      BY <1>4, <2>3 DEF Rehash
    <3> HIDE DEF p, w
    <3>2. Hashed(p)
      BY <2>2, <2>3, <3>1 DEF Hashed
    <3>3. QED
      BY <2>1, <3>2 DEF Written
  <2>4. CASE ~credentials[p].active
    BY <1>0, <1>4, <2>4 DEF Rehash
  <2>5. QED
    BY <2>3, <2>4
<1>5. ASSUME NEW r \in Requests, NEW w \in Passwords, ChangePassword(r, w) PROVE Written
  <2> DEFINE p == request[r].who
  <2>1. p \in People
    BY <1>a, <1>5 DEF ChangePassword, RequestMeant
  <2>2. CASE credentials[p].active
    <3>1. /\ credentials' = [credentials EXCEPT ![p].hash = NewHash(w)]
          /\ UNCHANGED <<accounts, subjects, sessions, changes>>
      BY <1>5, <2>2 DEF ChangePassword
    <3> HIDE DEF p
    <3>2. Hashed(p)
      BY <2>2, <3>1 DEF Hashed
    <3>3. QED
      BY <2>1, <3>2 DEF Written
  <2>3. CASE ~credentials[p].active
    BY <1>0, <1>5, <2>3 DEF ChangePassword
  <2>4. QED
    BY <2>2, <2>3
<1>6. ASSUME NEW r \in Requests, NEW t \in Tokens, IssueSession(r, t) PROVE Written
  <2>1. /\ request[r].who \in People /\ accounts[request[r].who].status # "none"
        /\ request[r].version = request[r].since + 1
        /\ request[r].since <= changes[request[r].who]
    BY <1>a, <1>6 DEF IssueSession, RequestMeant
  <2>2. request[r].version \in Nat /\ request[r].since \in Nat
    BY <1>b DEF RequestType
  <2>3. Issues(t, request[r].who, request[r].version, request[r].since)
    BY <1>6, <2>1, <2>2 DEF IssueSession, Issue, Issues, FreshTokens
  <2>4. QED
    BY <2>3 DEF Written
<1>7. ASSUME NEW r \in Requests, RevokeAllSessions(r) PROVE Written
  <2>1. request[r].who \in People
    BY <1>a, <1>7 DEF RevokeAllSessions, RequestMeant
  <2>2. Ends
    <3>1. /\ sessions' = Revoked(request[r].who)
          /\ UNCHANGED <<accounts, credentials, subjects, changes>>
      BY <1>7 DEF RevokeAllSessions
    <3>2. EndsOnly(sessions')
      BY <1>a, <2>1, <3>1, RevokedEnds
    <3>3. QED
      BY <3>1, <3>2 DEF Ends
  <2>3. QED
    BY <2>2 DEF Written
<1>8. ASSUME NEW r \in Requests, DeleteAccount(r) PROVE Written
  <2>1. request[r].who \in People /\ accounts[request[r].who].status # "none"
    BY <1>a, <1>8 DEF DeleteAccount, RequestMeant
  <2>2. CASE accounts[request[r].who].status = "deleted"
    BY <1>0, <1>8, <2>2 DEF DeleteAccount
  <2>3. CASE accounts[request[r].who].status # "deleted"
    <3>1. Changes(request[r].who)
      BY <1>8, <2>1, <2>3 DEF DeleteAccount, Changes
    <3>2. QED
      BY <2>1, <3>1 DEF Written
  <2>4. QED
    BY <2>2, <2>3
<1>9. ASSUME NEW r \in Requests, NEW s \in Subjects, BindGuest(r, s) PROVE Written
  <2> DEFINE p == request[r].who
  <2>1. p \in People
    BY <1>a, <1>9 DEF BindGuest, RequestMeant
  <2>2. CASE Bindable(p, s)
    <3>1. BindsTo(p, s)
      BY <1>9, <2>2 DEF BindGuest, Bindable, BindsTo
    <3>2. QED
      BY <2>1, <3>1 DEF Written
  <2>3. CASE ~Bindable(p, s)
    BY <1>0, <1>9, <2>3 DEF BindGuest
  <2>4. QED
    BY <2>2, <2>3
<1>10. ASSUME NEW p \in People, NEW st \in {"normal", "banned", "deleted"}, SetUserStatus(p, st)
       PROVE  Written
  BY <1>10 DEF SetUserStatus, Written, Changes
<1>11. ASSUME NEW t \in Tokens, Expire(t) PROVE Written
  <2>1. [sessions[t] EXCEPT !.over = TRUE] \in SessionType
    BY <1>b DEF SessionType
  <2>2. sessions[t] # NoSession
        /\ sessions' = [sessions EXCEPT ![t] = [sessions[t] EXCEPT !.over = TRUE]]
    BY <1>11 DEF Expire
  <2>3. Ends
    BY <1>11, <1>b, <2>1, <2>2 DEF Expire, Ends, EndsOnly
  <2>4. QED
    BY <2>3 DEF Written
<1>12. CASE UNCHANGED sessionsVars
  BY <1>0, <1>12 DEF sessionsVars
<1>13. QED
  BY <1>1, <1>2, <1>3, <1>4, <1>5, <1>6, <1>7, <1>8, <1>9, <1>10, <1>11, <1>12
  DEF SessionsNext, Entry, Use
----------------------------------------------------------------------------
(* Documents.                                                              *)

\* Every effect keeps the types of the documents.
LEMMA DocumentTypes ==
    ASSUME SessionsAssumption, SessionsTypeOK, Written
    PROVE  /\ accounts' \in [People -> AccountType] /\ credentials' \in [People -> CredentialType]
           /\ subjects' \in [Subjects -> People \cup {Nobody}]
           /\ sessions' \in [Tokens -> SessionType] /\ changes' \in [People -> Nat]
<1> DEFINE Goal ==
        /\ accounts' \in [People -> AccountType] /\ credentials' \in [People -> CredentialType]
        /\ subjects' \in [Subjects -> People \cup {Nobody}]
        /\ sessions' \in [Tokens -> SessionType] /\ changes' \in [People -> Nat]
<1>a. /\ accounts \in [People -> AccountType] /\ credentials \in [People -> CredentialType]
      /\ subjects \in [Subjects -> People \cup {Nobody}]
      /\ sessions \in [Tokens -> SessionType] /\ changes \in [People -> Nat]
  BY Types
<1>1. ASSUME NEW p \in People, NEW t \in Tokens, NEW new \in AccountType, Opens(p, new, t)
      PROVE  /\ accounts' \in [People -> AccountType] /\ subjects' = subjects
             /\ sessions' \in [Tokens -> SessionType] /\ changes' = changes
  <2>1. [owner |-> p, version |-> 1, over |-> FALSE, since |-> changes[p]] \in SessionType
    BY <1>a DEF SessionType
  <2>2. QED
    BY <1>a, <1>1, <2>1 DEF Opens
<1>2. ASSUME NEW p \in People, NEW t \in Tokens, OpensRegistered(p, t) PROVE Goal
  <2>1. PICK new \in AccountType, e \in Emails, w \in Passwords :
            /\ Opens(p, new, t)
            /\ credentials' = [q \in People |->
                  IF q = p THEN [email |-> e, active |-> TRUE, hash |-> NewHash(w)]
                  ELSE IF q \in Holders(e) THEN [credentials[q] EXCEPT !.active = FALSE]
                  ELSE credentials[q]]
    BY <1>2 DEF OpensRegistered
  <2>2. [email |-> e, active |-> TRUE, hash |-> NewHash(w)] \in CredentialType
    BY DEF CredentialType, NewHash, Hashes
  <2>3. \A q \in People : [credentials[q] EXCEPT !.active = FALSE] \in CredentialType
    BY <1>a, InactiveType
  <2>4. credentials' \in [People -> CredentialType]
    BY <1>a, <2>1, <2>2, <2>3
  <2>5. QED
    BY <1>a, <1>1, <2>1, <2>4
<1>3. ASSUME NEW p \in People, NEW t \in Tokens, OpensGuest(p, t) PROVE Goal
  BY <1>a, <1>1, <1>3 DEF OpensGuest
<1>4. ASSUME NEW p \in People, Changes(p) PROVE Goal
  <2>1. PICK status \in {"normal", "banned", "deleted"} : ApplyStatus(p, status)
    BY <1>4 DEF Changes
  <2>2. accounts' \in [People -> AccountType]
    <3>1. [accounts[p] EXCEPT !.status = status, !.version = accounts[p].version + 1]
            \in AccountType
      <4> DEFINE a == accounts[p]
                 v == accounts[p].version + 1
      <4>1. a \in AccountType /\ v \in Nat
        BY <1>a DEF AccountType
      <4> HIDE DEF a, v
      <4>2. [a EXCEPT !.status = status, !.version = v] \in AccountType
        BY <4>1, ChangedType
      <4>3. QED
        BY <4>2 DEF a, v
    <3>2. QED
      BY <1>a, <2>1, <3>1 DEF ApplyStatus
  <2>3. credentials' \in [People -> CredentialType]
    <3>1. [credentials[p] EXCEPT !.active = FALSE] \in CredentialType
      BY <1>a, InactiveType
    <3>2. QED
      BY <1>a, <2>1, <3>1 DEF ApplyStatus
  <2>4. sessions' \in [Tokens -> SessionType]
    BY <2>1, RevokedEnds DEF ApplyStatus, EndsOnly
  <2>5. changes' \in [People -> Nat]
    BY <1>a, <2>1 DEF ApplyStatus
  <2>6. QED
    BY <1>4, <1>a, <2>2, <2>3, <2>4, <2>5 DEF Changes
<1>5. ASSUME NEW p \in People, Hashed(p) PROVE Goal
  <2>1. PICK w \in Passwords \cup {NoPassword} :
            credentials' = [credentials EXCEPT ![p].hash = NewHash(w)]
    BY <1>5 DEF Hashed
  <2>2. [credentials[p] EXCEPT !.hash = NewHash(w)] \in CredentialType
    BY <1>a, NewHashType
  <2>3. QED
    BY <1>a, <1>5, <2>1, <2>2 DEF Hashed
<1>6. ASSUME NEW p \in People, NEW s \in Subjects, BindsTo(p, s) PROVE Goal
  <2>1. [accounts[p] EXCEPT !.binding = "bound"] \in AccountType
    BY <1>a DEF AccountType
  <2>2. QED
    BY <1>a, <1>6, <2>1 DEF BindsTo
<1>7. ASSUME NEW t \in Tokens, NEW p, NEW version, NEW since, Issues(t, p, version, since)
      PROVE  Goal
  <2>1. [owner |-> p, version |-> version, over |-> FALSE, since |-> since] \in SessionType
    BY <1>7 DEF Issues, SessionType
  <2>2. QED
    BY <1>a, <1>7, <2>1 DEF Issues
<1>8. CASE Ends
  BY <1>a, <1>8 DEF Ends, EndsOnly
<1>9. QED
  BY <1>2, <1>3, <1>4, <1>5, <1>6, <1>7, <1>8 DEF Written

\* Accounts and sessions only move on: an account that is there stays, with its
\* version or the next; a session that was issued keeps owner and version.
MovesOn ==
    /\ \A p \in People :
          /\ changes[p] <= changes'[p]
          /\ accounts[p].status # "none" =>
                /\ accounts'[p].status # "none"
                /\ \/ /\ accounts'[p].status = accounts[p].status
                      /\ accounts'[p].version = accounts[p].version
                   \/ accounts'[p].version = accounts[p].version + 1
    /\ \A t \in Tokens : sessions[t] # NoSession =>
          /\ sessions'[t] # NoSession
          /\ sessions'[t].owner = sessions[t].owner /\ sessions'[t].version = sessions[t].version
          /\ sessions'[t].since = sessions[t].since

\* What ends a session leaves it a session.
LEMMA OverIsSession ==
    ASSUME SessionsAssumption, NEW s \in SessionType, s # NoSession, s.owner \in People
    PROVE  LET d == [s EXCEPT !.over = TRUE]
           IN  d # NoSession /\ d.owner = s.owner /\ d.version = s.version /\ d.since = s.since
  BY DEF SessionType, NoSession, SessionsAssumption

\* Every effect keeps what a waiting request relies on.
LEMMA MoveOn ==
    ASSUME SessionsAssumption, AccountsInv, Written
    PROVE  MovesOn
<1>a. /\ accounts \in [People -> AccountType] /\ sessions \in [Tokens -> SessionType]
      /\ changes \in [People -> Nat]
  BY Types DEF AccountsInv
<1>b. \A t \in Tokens : sessions[t] # NoSession =>
        LET d == [sessions[t] EXCEPT !.over = TRUE]
        IN  /\ d # NoSession /\ d.owner = sessions[t].owner
            /\ d.version = sessions[t].version /\ d.since = sessions[t].since
  BY <1>a, OverIsSession DEF AccountsInv, SessionMeant
<1>c. \A p \in People : changes[p] <= changes[p]
  BY <1>a
<1>1. ASSUME NEW p \in People, NEW t \in Tokens, NEW new \in AccountType, Opens(p, new, t)
      PROVE  MovesOn
  <2>1. sessions[t] = NoSession /\ \A u \in Tokens : u # t => sessions'[u] = sessions[u]
    BY <1>a, <1>1 DEF Opens
  <2>2. accounts[p].status = "none" /\ \A q \in People : q # p => accounts'[q] = accounts[q]
    BY <1>a, <1>1 DEF Opens
  <2>3. changes' = changes
    BY <1>1 DEF Opens
  <2>4. QED
    BY <1>c, <2>1, <2>2, <2>3 DEF MovesOn
<1>2. ASSUME NEW p \in People, Changes(p) PROVE MovesOn
  <2>1. PICK status \in {"normal", "banned", "deleted"} : ApplyStatus(p, status)
    BY <1>2 DEF Changes
  <2>2. EndsOnly(sessions')
    <3>1. sessions' = Revoked(p) /\ SessionsTypeOK
      BY <2>1 DEF ApplyStatus, AccountsInv
    <3>2. QED
      BY <3>1, RevokedEnds
  <2>3. /\ accounts'[p].status = status /\ accounts'[p].version = accounts[p].version + 1
        /\ \A q \in People : q # p => accounts'[q] = accounts[q]
    BY <1>a, <2>1 DEF ApplyStatus, AccountType
  <2>4. changes'[p] = changes[p] + 1 /\ \A q \in People : q # p => changes'[q] = changes[q]
    BY <1>a, <2>1 DEF ApplyStatus
  <2>5. \A q \in People : changes[q] <= changes'[q]
    BY <1>a, <2>4
  <2>6. QED
    BY <1>b, <2>2, <2>3, <2>5 DEF MovesOn, EndsOnly
<1>3. ASSUME NEW p \in People, NEW s \in Subjects, BindsTo(p, s) PROVE MovesOn
  <2>1. \A q \in People : accounts'[q].status = accounts[q].status /\ accounts'[q].version = accounts[q].version
    BY <1>a, <1>3 DEF BindsTo, AccountType
  <2>2. QED
    BY <1>c, <1>3, <2>1 DEF BindsTo, MovesOn
<1>4. ASSUME NEW p \in People, Hashed(p) PROVE MovesOn
  BY <1>c, <1>4 DEF Hashed, MovesOn
<1>5. ASSUME NEW t \in Tokens, NEW p, NEW version, NEW since, Issues(t, p, version, since)
      PROVE  MovesOn
  <2>1. sessions[t] = NoSession /\ \A u \in Tokens : u # t => sessions'[u] = sessions[u]
    BY <1>a, <1>5 DEF Issues
  <2>2. QED
    BY <1>c, <1>5, <2>1 DEF Issues, MovesOn
<1>6. CASE Ends
  <2>1. accounts' = accounts /\ changes' = changes
    BY <1>6 DEF Ends
  <2>2. ASSUME NEW t \in Tokens, sessions[t] # NoSession
        PROVE  /\ sessions'[t] # NoSession
               /\ sessions'[t].owner = sessions[t].owner /\ sessions'[t].version = sessions[t].version
               /\ sessions'[t].since = sessions[t].since
    BY <1>b, <1>6, <2>2 DEF Ends, EndsOnly
  <2>3. QED
    BY <1>c, <2>1, <2>2 DEF MovesOn
<1>7. QED
  BY <1>1, <1>2, <1>3, <1>4, <1>5, <1>6 DEF Written, OpensRegistered, OpensGuest

\* Every step leaves accounts and credentials as they are meant.
LEMMA DocumentsMeant ==
    ASSUME SessionsAssumption, AccountsInv, Written
    PROVE  /\ \A p \in People : AccountMeant(p)' /\ CredentialMeant(p)' /\ BindingMeant(p)'
           /\ AddressesOpenOne'
<1> DEFINE Goal == /\ \A p \in People : AccountMeant(p)' /\ CredentialMeant(p)' /\ BindingMeant(p)'
                   /\ AddressesOpenOne'
<1>a. /\ accounts \in [People -> AccountType] /\ credentials \in [People -> CredentialType]
      /\ subjects \in [Subjects -> People \cup {Nobody}]
      /\ changes \in [People -> Nat]
  BY Types DEF AccountsInv
<1>b. /\ \A p \in People : AccountMeant(p) /\ CredentialMeant(p) /\ BindingMeant(p)
      /\ AddressesOpenOne
  BY DEF AccountsInv
<1>c. \A p \in People : credentials[p].active => credentials[p] # NoCredential
  BY Markers
<1>d. \A p \in People : accounts[p].status = "none" => credentials[p] = NoCredential
  BY <1>b DEF AccountMeant
<1>0. ASSUME UNCHANGED <<accounts, credentials, subjects, changes>> PROVE Goal
  BY <1>b, <1>0 DEF AccountMeant, CredentialMeant, BindingMeant, AddressesOpenOne
<1>1. ASSUME NEW p \in People, NEW t \in Tokens, OpensRegistered(p, t) PROVE Goal
  <2>1. PICK new \in AccountType, e \in Emails, w \in Passwords :
            /\ Opens(p, new, t) /\ new.binding = "bound"
            /\ \A q \in Holders(e) : accounts[q].status = "deleted"
            /\ credentials' = [q \in People |->
                  IF q = p THEN [email |-> e, active |-> TRUE, hash |-> NewHash(w)]
                  ELSE IF q \in Holders(e) THEN [credentials[q] EXCEPT !.active = FALSE]
                  ELSE credentials[q]]
    BY <1>1 DEF OpensRegistered
  <2>2. /\ accounts[p].status = "none" /\ accounts'[p].status = "normal"
        /\ accounts'[p].version = 1 /\ accounts'[p].binding = "bound"
        /\ \A q \in People : q # p => accounts'[q] = accounts[q]
        /\ subjects' = subjects /\ changes' = changes
    BY <1>a, <2>1 DEF Opens
  <2>3. /\ credentials'[p].email = e /\ credentials'[p].active
        /\ \A q \in People : q # p =>
             IF q \in Holders(e)
             THEN /\ credentials'[q] = [credentials[q] EXCEPT !.active = FALSE]
                  /\ ~credentials'[q].active
                  /\ credentials'[q].email = e
             ELSE credentials'[q] = credentials[q]
    <3>1. credentials'[p].email = e /\ credentials'[p].active
      BY <2>1
    <3>2. ASSUME NEW q \in People, q # p, q \in Holders(e)
          PROVE  /\ credentials'[q] = [credentials[q] EXCEPT !.active = FALSE]
                 /\ ~credentials'[q].active /\ credentials'[q].email = e
      <4>1. credentials'[q] = [credentials[q] EXCEPT !.active = FALSE]
        BY <2>1, <3>2
      <4>2. credentials[q] \in CredentialType /\ credentials[q].email = e
        BY <1>a, <3>2 DEF Holders
      <4>3. QED
        BY <4>1, <4>2, InactiveType
    <3>3. ASSUME NEW q \in People, q # p, q \notin Holders(e)
          PROVE  credentials'[q] = credentials[q]
      BY <2>1, <3>3
    <3>4. QED
      BY <3>1, <3>2, <3>3
  <2>4. credentials'[p] # NoCredential
        /\ \A q \in People : q # p => (credentials'[q] # NoCredential <=> credentials[q] # NoCredential)
    <3>1. NoCredential.email \notin Emails /\ ~NoCredential.active
      BY Markers DEF SessionsAssumption
    <3>2. \A q \in Holders(e) : credentials[q] # NoCredential
      BY <3>1 DEF Holders
    <3>3. \A q \in People : q # p /\ q \in Holders(e) => credentials'[q] # NoCredential
      BY <2>3, <3>1
    <3>4. QED
      BY <2>3, <3>1, <3>2, <3>3
  <2>5. ASSUME NEW q \in People, q # p
        PROVE  AccountMeant(q)' /\ CredentialMeant(q)' /\ BindingMeant(q)'
    <3>1. accounts'[q] = accounts[q] /\ changes'[q] = changes[q] /\ subjects' = subjects
      BY <2>2, <2>5
    <3>2. credentials'[q] = NoCredential <=> credentials[q] = NoCredential
      BY <2>4, <2>5
    <3>3. AccountMeant(q)'
      BY <1>b, <3>1, <3>2 DEF AccountMeant
    <3>4. CredentialMeant(q)'
      <4>1. CASE q \in Holders(e)
        BY <2>3, <2>5, <4>1 DEF CredentialMeant
      <4>2. CASE q \notin Holders(e)
        BY <1>b, <2>3, <2>5, <3>1, <4>2 DEF CredentialMeant
      <4>3. QED
        BY <4>1, <4>2
    <3>5. BindingMeant(q)'
      BY <1>b, <3>1, <3>2 DEF BindingMeant
    <3>6. QED
      BY <3>3, <3>4, <3>5
  <2>6. AccountMeant(p)' /\ CredentialMeant(p)' /\ BindingMeant(p)'
    <3>1. changes[p] = 0
      BY <1>b, <2>2 DEF AccountMeant
    <3>2. QED
      BY <2>2, <2>3, <2>4, <3>1 DEF AccountMeant, CredentialMeant, BindingMeant
  <2>7. AddressesOpenOne'
    <3>1. ASSUME NEW q \in People, q # p, credentials'[q].active
          PROVE  credentials[q].active /\ credentials'[q].email = credentials[q].email
                 /\ credentials'[q].email # e
      <4>1. q \notin Holders(e) /\ credentials'[q] = credentials[q]
        BY <2>3, <3>1
      <4>2. QED
        BY <3>1, <4>1 DEF Holders
    <3>2. SUFFICES ASSUME NEW q \in People, NEW j \in People,
                          credentials'[q].active, credentials'[j].active,
                          credentials'[q].email = credentials'[j].email
                   PROVE  q = j
      BY DEF AddressesOpenOne
    <3>3. q # p /\ j # p => q = j
      BY <1>b, <3>1, <3>2 DEF AddressesOpenOne
    <3>4. (q = p) <=> (j = p)
      BY <2>3, <3>1, <3>2
    <3>5. QED
      BY <3>3, <3>4
  <2>8. QED
    BY <2>5, <2>6, <2>7
<1>2. ASSUME NEW p \in People, NEW t \in Tokens, OpensGuest(p, t) PROVE Goal
  <2>1. PICK new \in AccountType :
            Opens(p, new, t) /\ new.binding = "guest" /\ credentials' = credentials
    BY <1>2 DEF OpensGuest
  <2>2. /\ accounts[p].status = "none" /\ accounts'[p].status = "normal"
        /\ accounts'[p].version = 1 /\ accounts'[p].binding = "guest"
        /\ \A q \in People : q # p => accounts'[q] = accounts[q]
        /\ subjects' = subjects /\ changes' = changes
    BY <1>a, <2>1 DEF Opens
  <2>3. /\ changes[p] = 0 /\ credentials[p] = NoCredential
        /\ \A s \in Subjects : subjects[s] # p
    BY <1>b, <2>2 DEF AccountMeant
  <2>4. AccountMeant(p)' /\ CredentialMeant(p)' /\ BindingMeant(p)'
    BY <2>1, <2>2, <2>3 DEF AccountMeant, CredentialMeant, BindingMeant
  <2>5. ASSUME NEW q \in People, q # p
        PROVE  AccountMeant(q)' /\ CredentialMeant(q)' /\ BindingMeant(q)'
    BY <1>b, <2>1, <2>2, <2>5 DEF AccountMeant, CredentialMeant, BindingMeant
  <2>6. AddressesOpenOne'
    BY <1>b, <2>1 DEF AddressesOpenOne
  <2>7. QED
    BY <2>4, <2>5, <2>6
<1>3. ASSUME NEW p \in People, Changes(p) PROVE Goal
  <2>1. PICK status \in {"normal", "banned", "deleted"} : ApplyStatus(p, status)
    BY <1>3 DEF Changes
  <2>2. /\ accounts[p].status # "none" /\ accounts'[p].status = status
        /\ accounts'[p].version = accounts[p].version + 1
        /\ accounts'[p].binding = accounts[p].binding
        /\ \A q \in People : q # p => accounts'[q] = accounts[q]
        /\ subjects' = subjects
    <3>1. accounts' = [accounts EXCEPT ![p] =
                         [accounts[p] EXCEPT !.status = status, !.version = accounts[p].version + 1]]
      BY <1>a, <2>1 DEF ApplyStatus
    <3>2. QED
      <4> DEFINE a == accounts[p]
                 v == accounts[p].version + 1
      <4>1. a \in AccountType /\ v \in Nat
        BY <1>a DEF AccountType
      <4> HIDE DEF a, v
      <4>2. LET b == [a EXCEPT !.status = status, !.version = v]
            IN  b.status = status /\ b.version = v /\ b.binding = a.binding
        BY <4>1 DEF AccountType
      <4>3. accounts' = [accounts EXCEPT ![p] = [a EXCEPT !.status = status, !.version = v]]
        BY <3>1 DEF a, v
      <4>4. /\ accounts'[p].status = status /\ accounts'[p].version = v
            /\ accounts'[p].binding = a.binding
            /\ \A q \in People : q # p => accounts'[q] = accounts[q]
        BY <1>a, <4>2, <4>3
      <4>5. QED
        BY <1>3, <4>4 DEF Changes, a, v
  <2>3. changes'[p] = changes[p] + 1 /\ \A q \in People : q # p => changes'[q] = changes[q]
    BY <1>a, <2>1 DEF ApplyStatus
  <2>4. /\ status = "deleted" => ~credentials'[p].active
        /\ credentials'[p].email = credentials[p].email
        /\ credentials'[p].active => credentials[p].active
        /\ \A q \in People : q # p => credentials'[q] = credentials[q]
        /\ credentials'[p] = NoCredential <=> credentials[p] = NoCredential
    <3>1. credentials' = IF status = "deleted"
                         THEN [credentials EXCEPT ![p] = [credentials[p] EXCEPT !.active = FALSE]]
                         ELSE credentials
      BY <1>a, <2>1 DEF ApplyStatus
    <3>2. LET c == [credentials[p] EXCEPT !.active = FALSE]
          IN  ~c.active /\ c.email = credentials[p].email
      BY <1>a, InactiveType
    <3>3. [NoCredential EXCEPT !.active = FALSE] = NoCredential
      <4> DEFINE c == [NoCredential EXCEPT !.active = FALSE]
      <4>1. /\ c \in CredentialType /\ NoCredential \in CredentialType
            /\ c.email = NoCredential.email /\ c.active = NoCredential.active
            /\ c.hash = NoCredential.hash
        BY InactiveType, Markers DEF CredentialType
      <4> HIDE DEF c
      <4>2. c = NoCredential
        BY <4>1 DEF CredentialType
      <4>3. QED
        BY <4>2 DEF c
    <3>4. credentials[p] # NoCredential =>
             credentials[p].email \in Emails /\ NoCredential.email \notin Emails
      BY <1>b, Markers DEF CredentialMeant, SessionsAssumption
    <3>5. QED
      BY <1>a, <3>1, <3>2, <3>3, <3>4
  <2>5. AccountMeant(p)' /\ CredentialMeant(p)' /\ BindingMeant(p)'
    <3>1. accounts[p].version = changes[p] + 1
      BY <1>b, <2>2 DEF AccountMeant
    <3>2. AccountMeant(p)'
      BY <1>a, <2>2, <2>3, <3>1 DEF AccountMeant
    <3>3. CredentialMeant(p)'
      BY <1>b, <2>2, <2>4 DEF CredentialMeant
    <3>4. BindingMeant(p)'
      BY <1>b, <2>2, <2>4 DEF BindingMeant
    <3>5. QED
      BY <3>2, <3>3, <3>4
  <2>6. ASSUME NEW q \in People, q # p
        PROVE  AccountMeant(q)' /\ CredentialMeant(q)' /\ BindingMeant(q)'
    BY <1>b, <2>2, <2>3, <2>4, <2>6 DEF AccountMeant, CredentialMeant, BindingMeant
  <2>7. AddressesOpenOne'
    <3>1. \A q \in People : /\ credentials'[q].active => credentials[q].active
                            /\ credentials'[q].email = credentials[q].email
      BY <2>4
    <3>2. QED
      BY <1>b, <3>1 DEF AddressesOpenOne
  <2>8. QED
    BY <2>5, <2>6, <2>7
<1>4. ASSUME NEW p \in People, Hashed(p) PROVE Goal
  <2>1. PICK w \in Passwords \cup {NoPassword} :
            credentials' = [credentials EXCEPT ![p].hash = NewHash(w)]
    BY <1>4 DEF Hashed
  <2>2. /\ credentials'[p].email = credentials[p].email
        /\ credentials'[p].active = credentials[p].active
        /\ \A q \in People : q # p => credentials'[q] = credentials[q]
        /\ accounts' = accounts /\ subjects' = subjects /\ changes' = changes
        /\ credentials[p].active
    <3>1. credentials' = [credentials EXCEPT ![p] = [credentials[p] EXCEPT !.hash = NewHash(w)]]
      BY <1>a, <2>1
    <3>2. QED
      BY <1>4, <1>a, <3>1, NewHashType DEF Hashed
  <2>3. credentials[p] # NoCredential /\ credentials'[p] # NoCredential
    BY <2>2, Markers
  <2>4. ASSUME NEW q \in People
        PROVE  AccountMeant(q)' /\ CredentialMeant(q)' /\ BindingMeant(q)'
    BY <1>b, <2>2, <2>3 DEF AccountMeant, CredentialMeant, BindingMeant
  <2>5. AddressesOpenOne'
    <3>1. \A q \in People : /\ credentials'[q].active => credentials[q].active
                            /\ credentials'[q].email = credentials[q].email
      BY <2>2
    <3>2. QED
      BY <1>b, <3>1 DEF AddressesOpenOne
  <2>6. QED
    BY <2>4, <2>5
<1>5. ASSUME NEW p \in People, NEW s \in Subjects, BindsTo(p, s) PROVE Goal
  <2>1. /\ accounts'[p].status = accounts[p].status /\ accounts'[p].version = accounts[p].version
        /\ accounts'[p].binding = "bound" /\ accounts[p].status = "normal"
        /\ \A q \in People : q # p => accounts'[q] = accounts[q]
        /\ credentials' = credentials /\ changes' = changes
        /\ subjects[s] \in {p, Nobody} /\ subjects'[s] = p
        /\ \A r \in Subjects : r # s => subjects'[r] = subjects[r]
    BY <1>5, <1>a DEF BindsTo, Normal, AccountType
  <2>2. AccountMeant(p)' /\ CredentialMeant(p)' /\ BindingMeant(p)'
    BY <1>b, <2>1 DEF AccountMeant, CredentialMeant, BindingMeant
  <2>3. ASSUME NEW q \in People, q # p
        PROVE  AccountMeant(q)' /\ CredentialMeant(q)' /\ BindingMeant(q)'
    <3>1. \A r \in Subjects : subjects'[r] = q <=> subjects[r] = q
      BY <2>1, <2>3 DEF SessionsAssumption
    <3>2. /\ accounts'[q] = accounts[q] /\ credentials'[q] = credentials[q]
          /\ changes'[q] = changes[q]
      BY <2>1, <2>3
    <3>3. AccountMeant(q)' /\ CredentialMeant(q)'
      BY <1>b, <3>1, <3>2 DEF AccountMeant, CredentialMeant
    <3>4. BindingMeant(q)'
      BY <1>b, <3>1, <3>2 DEF BindingMeant
    <3>5. QED
      BY <3>3, <3>4
  <2>4. AddressesOpenOne'
    BY <1>b, <2>1 DEF AddressesOpenOne
  <2>5. QED
    BY <2>2, <2>3, <2>4
<1>6. ASSUME NEW t \in Tokens, NEW p, NEW version, NEW since, Issues(t, p, version, since)
      PROVE  Goal
  BY <1>0, <1>6 DEF Issues
<1>7. CASE Ends
  BY <1>0, <1>7 DEF Ends
<1>8. QED
  BY <1>1, <1>2, <1>3, <1>4, <1>5, <1>6, <1>7 DEF Written

\* Every step leaves sessions as they are meant.
LEMMA SessionsMeant ==
    ASSUME SessionsAssumption, AccountsInv, Written
    PROVE  \A t \in Tokens : SessionMeant(t)'
<1>a. /\ accounts \in [People -> AccountType] /\ sessions \in [Tokens -> SessionType]
      /\ changes \in [People -> Nat]
  BY Types DEF AccountsInv
<1>b. MovesOn /\ changes' \in [People -> Nat]
  BY MoveOn, DocumentTypes DEF AccountsInv
<1>1. ASSUME NEW t \in Tokens, sessions[t] # NoSession PROVE SessionMeant(t)'
  <2>1. /\ sessions[t].owner \in People /\ accounts[sessions[t].owner].status # "none"
        /\ sessions[t].version = sessions[t].since + 1
        /\ sessions[t].since <= changes[sessions[t].owner] /\ sessions[t].since \in Nat
    BY <1>1, <1>a DEF AccountsInv, SessionMeant, SessionType
  <2>2. /\ sessions'[t].owner = sessions[t].owner /\ sessions'[t].version = sessions[t].version
        /\ sessions'[t].since = sessions[t].since
        /\ accounts'[sessions[t].owner].status # "none"
        /\ changes[sessions[t].owner] <= changes'[sessions[t].owner]
    BY <1>1, <1>b, <2>1 DEF MovesOn
  <2>3. /\ changes[sessions[t].owner] \in Nat /\ changes'[sessions[t].owner] \in Nat
    BY <1>a, <1>b, <2>1
  <2>4. QED
    BY <2>1, <2>2, <2>3 DEF SessionMeant
<1>2. ASSUME NEW t \in Tokens, NEW p \in People, NEW version \in Nat, NEW since \in Nat,
             version = since + 1, since <= changes'[p], accounts'[p].status # "none",
             sessions'[t] = [owner |-> p, version |-> version, over |-> FALSE, since |-> since]
      PROVE  SessionMeant(t)'
  BY <1>2 DEF SessionMeant
<1>3. ASSUME NEW t \in Tokens, sessions[t] = NoSession PROVE SessionMeant(t)'
  <2>0. CASE sessions'[t] = NoSession
    BY <2>0 DEF SessionMeant
  <2>1. ASSUME NEW p \in People, NEW u \in Tokens, NEW new \in AccountType, Opens(p, new, u)
        PROVE  SessionMeant(t)'
    <3>1. CASE u = t
      <4>1. changes[p] = 0
        BY <2>1 DEF Opens, AccountsInv, AccountMeant
      <4>2. sessions'[t] = [owner |-> p, version |-> 1, over |-> FALSE, since |-> 0]
        BY <1>a, <2>1, <3>1, <4>1 DEF Opens
      <4>3. accounts'[p].status # "none" /\ changes'[p] = 0
        BY <1>a, <2>1, <4>1 DEF Opens
      <4>4. 0 \in Nat /\ 1 \in Nat /\ 1 = 0 + 1 /\ 0 <= changes'[p]
        BY <4>3
      <4>5. QED
        BY <1>2, <4>2, <4>3, <4>4
    <3>2. CASE u # t
      BY <1>3, <1>a, <2>0, <2>1, <3>2 DEF Opens
    <3>3. QED
      BY <3>1, <3>2
  <2>2. ASSUME NEW u \in Tokens, NEW p, NEW version, NEW since, Issues(u, p, version, since)
        PROVE  SessionMeant(t)'
    <3>1. CASE u = t
      <4>1. /\ sessions'[t] = [owner |-> p, version |-> version, over |-> FALSE, since |-> since]
            /\ p \in People /\ version \in Nat /\ since \in Nat /\ version = since + 1
            /\ since <= changes'[p] /\ accounts'[p].status # "none"
        BY <1>a, <2>2, <3>1 DEF Issues
      <4>2. QED
        BY <1>2, <4>1
    <3>2. CASE u # t
      BY <1>3, <1>a, <2>0, <2>2, <3>2 DEF Issues
    <3>3. QED
      BY <3>1, <3>2
  <2>3. ASSUME NEW p \in People, Changes(p) PROVE SessionMeant(t)'
    <3>1. sessions' = Revoked(p) /\ SessionsTypeOK
      BY <2>3 DEF Changes, ApplyStatus, AccountsInv
    <3>2. EndsOnly(sessions')
      BY <3>1, RevokedEnds
    <3>3. QED
      BY <1>3, <2>0, <3>2 DEF EndsOnly
  <2>4. CASE Ends \/ (\E p \in People : Hashed(p)) \/ (\E p \in People, s \in Subjects : BindsTo(p, s))
    BY <1>3, <2>0, <2>4 DEF Ends, EndsOnly, Hashed, BindsTo
  <2>5. QED
    BY <2>1, <2>2, <2>3, <2>4 DEF Written, OpensRegistered, OpensGuest
<1>4. QED
  BY <1>1, <1>3
----------------------------------------------------------------------------
(* Requests.                                                               *)

\* A request that is at rest knows nothing.
LEMMA AtRest ==
    ASSUME NEW r, request'[r].at \in {"done", "ready"}
    PROVE  RequestMeant(r)'
  BY DEF RequestMeant

\* What a request knows stays true while it waits, whatever else is written.
LEMMA WaitingMeant ==
    ASSUME SessionsAssumption, AccountsInv, MovesOn, NEW r \in Requests, request'[r] = request[r],
           changes' \in [People -> Nat]
    PROVE  RequestMeant(r)'
<1> DEFINE q == request[r]
           s == sessions[q.token]
<1>a. /\ accounts \in [People -> AccountType] /\ sessions \in [Tokens -> SessionType]
      /\ changes \in [People -> Nat] /\ q \in RequestType
  BY Types DEF AccountsInv
<1>b. RequestMeant(r)
  BY DEF AccountsInv
<1>1. q.at \in {"verified", "rehash", "issue", "authenticated", "choose", "revoke"} =>
        q.who \in People /\ accounts'[q.who].status # "none"
  BY <1>b DEF RequestMeant, MovesOn
<1>2. q.at \in {"rehash", "issue"} => q.version = q.since + 1 /\ q.since <= changes'[q.who]
  <2>1. ASSUME q.at \in {"rehash", "issue"}
        PROVE  q.version = q.since + 1 /\ q.since <= changes'[q.who]
    <3>1. /\ q.who \in People /\ q.version = q.since + 1 /\ q.since <= changes[q.who]
          /\ q.since \in Nat
      BY <1>a, <1>b, <2>1 DEF RequestMeant, RequestType
    <3>2. changes[q.who] <= changes'[q.who] /\ changes[q.who] \in Nat /\ changes'[q.who] \in Nat
      BY <1>a, <3>1 DEF MovesOn
    <3>3. QED
      BY <3>1, <3>2
  <2>2. QED
    BY <2>1
<1>3. ASSUME q.at \in {"session", "authenticated"}
      PROVE  /\ q.token \in Tokens /\ sessions'[q.token] # NoSession
             /\ q.at = "session" => \/ q.ok \/ accounts'[sessions'[q.token].owner].status # "normal"
                                    \/ accounts'[sessions'[q.token].owner].version
                                           # sessions'[q.token].version
             /\ q.at = "authenticated" => q.ok /\ sessions'[q.token].since = q.since
  <2>1. q.token \in Tokens /\ s # NoSession
    BY <1>b, <1>3 DEF RequestMeant
  <2>2. /\ sessions'[q.token] # NoSession /\ sessions'[q.token].owner = s.owner
        /\ sessions'[q.token].version = s.version /\ sessions'[q.token].since = s.since
    BY <2>1 DEF MovesOn
  <2>3. /\ s.owner \in People /\ accounts[s.owner].status # "none"
        /\ s.version = s.since + 1 /\ s.since <= changes[s.owner]
        /\ accounts[s.owner].version = changes[s.owner] + 1
    BY <2>1 DEF AccountsInv, SessionMeant, AccountMeant
  <2>4. s.since \in Nat /\ changes[s.owner] \in Nat
    BY <1>a, <2>1, <2>3 DEF SessionType
  <2>5. s.version <= accounts[s.owner].version /\ accounts[s.owner].version \in Nat /\ s.version \in Nat
    BY <2>3, <2>4
  <2>6. \/ /\ accounts'[s.owner].status = accounts[s.owner].status
           /\ accounts'[s.owner].version = accounts[s.owner].version
        \/ accounts'[s.owner].version = accounts[s.owner].version + 1
    BY <2>3 DEF MovesOn
  <2>7. \/ accounts[s.owner].status # "normal" \/ accounts[s.owner].version # s.version
        => \/ accounts'[s.owner].status # "normal" \/ accounts'[s.owner].version # s.version
    BY <2>5, <2>6
  <2>8. q.at = "session" => \/ q.ok \/ accounts[s.owner].status # "normal"
                            \/ accounts[s.owner].version # s.version
    BY <1>b DEF RequestMeant, Normal
  <2>9. q.at = "authenticated" => q.ok /\ s.since = q.since
    BY <1>b DEF RequestMeant
  <2>10. QED
    BY <2>1, <2>2, <2>7, <2>8, <2>9
<1> HIDE DEF q, s
<1>4. request'[r] = q
  BY DEF q
<1>5. QED
  BY <1>1, <1>2, <1>3, <1>4 DEF RequestMeant, Normal

\* A request that goes on to choose its new password.
LEMMA ChoosingRequest ==
    ASSUME NEW q \in RequestType, NEW w \in Passwords
    PROVE  LET x == [q EXCEPT !.at = "choose", !.password = w]
           IN  x \in RequestType /\ x.at = "choose" /\ x.who = q.who
  BY DEF RequestType

\* Every action keeps what the requests know.
LEMMA RequestsStep ==
    ASSUME SessionsAssumption, AccountsInv, MovesOn, changes' \in [People -> Nat],
           [SessionsNext]_sessionsVars
    PROVE  /\ request' \in [Requests -> RequestType]
           /\ \A r \in Requests : RequestMeant(r)'
           /\ chosen' \in [People -> Passwords \cup {NoPassword}]
<1> USE SessionsAssumption
<1> DEFINE Goal == request' \in [Requests -> RequestType] /\ \A r \in Requests : RequestMeant(r)'
<1>a. /\ accounts \in [People -> AccountType] /\ credentials \in [People -> CredentialType]
      /\ sessions \in [Tokens -> SessionType] /\ request \in [Requests -> RequestType]
      /\ changes \in [People -> Nat] /\ chosen \in [People -> Passwords \cup {NoPassword}]
  BY Types DEF AccountsInv
<1>b. /\ \A r \in Requests : RequestMeant(r)
      /\ \A p \in People : AccountMeant(p)
      /\ \A t \in Tokens : SessionMeant(t)
  BY DEF AccountsInv
<1>0. ASSUME NEW r \in Requests, NEW x \in RequestType, request' = [request EXCEPT ![r] = x],
             RequestMeant(r)'
      PROVE  Goal
  <2>1. request' \in [Requests -> RequestType]
    BY <1>a, <1>0
  <2>2. ASSUME NEW o \in Requests, o # r PROVE RequestMeant(o)'
    <3>1. request'[o] = request[o]
      BY <1>a, <1>0, <2>2
    <3>2. QED
      BY <3>1, WaitingMeant
  <2>3. QED
    BY <1>0, <2>1, <2>2
<1>1. ASSUME NEW r \in Requests, NEW ok \in BOOLEAN, End(r, ok) PROVE Goal
  <2>1. /\ [Done EXCEPT !.ok = ok] \in RequestType /\ [Done EXCEPT !.ok = ok].at = "done"
        /\ request' = [request EXCEPT ![r] = [Done EXCEPT !.ok = ok]]
    BY <1>1, Markers DEF End
  <2>2. request'[r].at = "done"
    BY <1>a, <2>1
  <2>3. RequestMeant(r)'
    BY <2>2, AtRest
  <2>4. QED
    BY <1>0, <2>1, <2>3
<1>2. ASSUME request' = request PROVE Goal
  <2>1. ASSUME NEW r \in Requests PROVE RequestMeant(r)'
    <3>1. request'[r] = request[r]
      BY <1>2
    <3>2. QED
      BY <3>1, WaitingMeant
  <2>2. QED
    BY <1>a, <1>2, <2>1
<1>3. ASSUME NEW r \in Requests, NEW p \in People, NEW e \in Emails, NEW x \in RequestType,
             p \in Holders(e), x.at = "verified", x.who = p,
             request' = [request EXCEPT ![r] = x], accounts' = accounts
      PROVE  Goal
  <2>1. accounts[p].status # "none"
    BY <1>b, <1>3, Markers DEF Holders, AccountMeant
  <2>2. request'[r] = x
    BY <1>a, <1>3
  <2>3. RequestMeant(r)'
    BY <1>3, <2>1, <2>2 DEF RequestMeant
  <2>4. QED
    BY <1>0, <1>3, <2>3
<1>4. ASSUME NEW r \in Requests, NEW p \in People, NEW e \in Emails, NEW w \in Passwords,
             Verify(r, p, e, w)
      PROVE  Goal
  <2> DEFINE x == [Ready EXCEPT !.at = "verified", !.who = p, !.password = w,
                                !.stale = ~credentials[p].hash.current]
  <2>1. CASE Matches(credentials[p].hash, w)
    <3>1. x \in RequestType /\ x.at = "verified" /\ x.who = p
      <4> DEFINE stale == ~credentials[p].hash.current
      <4>1. stale \in BOOLEAN
        OBVIOUS
      <4>2. x = [Ready EXCEPT !.at = "verified", !.who = p, !.password = w, !.stale = stale]
        OBVIOUS
      <4> HIDE DEF stale, x
      <4>3. QED
        BY <4>1, <4>2 DEF Ready, Done, RequestType
    <3>2. request' = [request EXCEPT ![r] = x] /\ p \in Holders(e) /\ accounts' = accounts
      BY <1>4, <2>1 DEF Verify
    <3> HIDE DEF x
    <3>3. QED
      BY <1>3, <3>1, <3>2
  <2>2. CASE ~Matches(credentials[p].hash, w)
    BY <1>1, <1>4, <2>2 DEF Verify
  <2>3. QED
    BY <2>1, <2>2
<1>5. ASSUME NEW r \in Requests, NEW p \in People, NEW e \in Emails, FindLocal(r, p, e)
      PROVE  Goal
  <2> DEFINE x == [Ready EXCEPT !.at = "verified", !.who = p]
  <2>1. x \in RequestType /\ x.at = "verified" /\ x.who = p
    BY Markers DEF RequestType
  <2>2. request' = [request EXCEPT ![r] = x] /\ p \in Holders(e) /\ accounts' = accounts
    BY <1>5 DEF FindLocal
  <2> HIDE DEF x
  <2>3. QED
    BY <1>3, <2>1, <2>2
<1>6. ASSUME NEW r \in Requests, ReadUser(r) PROVE Goal
  <2> DEFINE p == request[r].who
             at == IF request[r].stale THEN "rehash" ELSE "issue"
             x == [request[r] EXCEPT !.at = at, !.version = accounts[p].version,
                                     !.since = changes[p]]
  <2>1. p \in People /\ accounts[p].version = changes[p] + 1
    BY <1>6, <1>b DEF ReadUser, RequestMeant, AccountMeant
  <2>2. CASE Normal(p)
    <3>1. accounts[p].version \in Nat /\ changes[p] \in Nat /\ request[r] \in RequestType
      BY <1>a, <2>1 DEF AccountType
    <3>2. /\ x \in RequestType /\ x.at \in {"rehash", "issue"} /\ x.who = p
          /\ x.version = changes[p] + 1 /\ x.since = changes[p]
      BY <2>1, <3>1 DEF RequestType
    <3>3. request' = [request EXCEPT ![r] = x] /\ accounts' = accounts /\ changes' = changes
      BY <1>6, <1>a, <2>2 DEF ReadUser
    <3> HIDE DEF x
    <3>4. RequestMeant(r)'
      <4>1. request'[r] = x
        BY <1>a, <3>2, <3>3
      <4>2. QED
        BY <2>1, <2>2, <3>1, <3>2, <3>3, <4>1 DEF RequestMeant, Normal
    <3>5. QED
      BY <1>0, <3>2, <3>3, <3>4
  <2>3. CASE ~Normal(p)
    BY <1>1, <1>6, <2>3 DEF ReadUser
  <2>4. QED
    BY <2>2, <2>3
<1>7. ASSUME NEW r \in Requests, NEW at, Step(r, at), request[r].who \in People,
             at \in {"issue", "choose", "revoke"}, accounts[request[r].who].status # "none",
             at = "issue" => request[r].at = "rehash"
      PROVE  Goal
  <2> DEFINE x == [request[r] EXCEPT !.at = at]
  <2>1. /\ x \in RequestType /\ x.at = at /\ x.who = request[r].who
        /\ x.version = request[r].version /\ x.since = request[r].since
    BY <1>a, <1>7 DEF RequestType
  <2>2. request' = [request EXCEPT ![r] = x]
    BY <1>7 DEF Step
  <2> HIDE DEF x
  <2>3. request'[r] = x
    BY <1>a, <2>2
  <2>4. accounts'[x.who].status # "none"
    BY <1>7, <2>1 DEF MovesOn
  <2>5. at = "issue" => x.version = x.since + 1 /\ x.since <= changes'[x.who]
    <3>1. ASSUME at = "issue" PROVE x.version = x.since + 1 /\ x.since <= changes[x.who]
      BY <1>7, <1>b, <2>1, <3>1 DEF RequestMeant
    <3>2. /\ changes[x.who] <= changes'[x.who] /\ changes[x.who] \in Nat
          /\ changes'[x.who] \in Nat /\ x.since \in Nat
      BY <1>7, <1>a, <2>1 DEF MovesOn, RequestType
    <3>3. QED
      BY <3>1, <3>2
  <2>6. RequestMeant(r)'
    BY <1>7, <2>1, <2>3, <2>4, <2>5 DEF RequestMeant
  <2>7. QED
    BY <1>0, <2>1, <2>2, <2>6
<1>8. ASSUME NEW r \in Requests, Rehash(r) PROVE Goal
  <2>1. /\ request[r].who \in People /\ accounts[request[r].who].status # "none"
        /\ request[r].at = "rehash"
    BY <1>8, <1>b DEF Rehash, RequestMeant
  <2>2. Step(r, "issue") \/ End(r, FALSE)
    BY <1>8 DEF Rehash
  <2>3. QED
    BY <1>1, <1>7, <2>1, <2>2
<1>9. ASSUME NEW r \in Requests, NEW p \in People, ReturnGuest(r, p) PROVE Goal
  <2> DEFINE x == [Ready EXCEPT !.at = "issue", !.who = p, !.version = accounts[p].version,
                                !.since = changes[p]]
  <2>1. CASE Normal(p)
    <3>1. accounts[p].version \in Nat /\ changes[p] \in Nat /\ accounts[p].version = changes[p] + 1
      BY <1>a, <1>b, <2>1 DEF AccountType, AccountMeant, Normal
    <3>2. /\ x \in RequestType /\ x.at = "issue" /\ x.who = p
          /\ x.version = changes[p] + 1 /\ x.since = changes[p]
      BY <3>1, Markers DEF RequestType
    <3>3. request' = [request EXCEPT ![r] = x] /\ accounts' = accounts /\ changes' = changes
      BY <1>9, <2>1 DEF ReturnGuest
    <3> HIDE DEF x
    <3>4. RequestMeant(r)'
      <4>1. request'[r] = x
        BY <1>a, <3>2, <3>3
      <4>2. QED
        BY <2>1, <3>1, <3>2, <3>3, <4>1 DEF RequestMeant, Normal
    <3>5. QED
      BY <1>0, <3>2, <3>3, <3>4
  <2>2. CASE ~Normal(p)
    BY <1>1, <1>9, <2>2 DEF ReturnGuest
  <2>3. QED
    BY <2>1, <2>2
<1>10. ASSUME NEW r \in Requests, NEW t \in Tokens, ReadSession(r, t) PROVE Goal
  <2> DEFINE x == [Ready EXCEPT !.at = "session", !.token = t, !.ok = Acceptable(t)]
  <2>1. CASE sessions[t].over
    BY <1>1, <1>10, <2>1 DEF ReadSession
  <2>2. CASE ~sessions[t].over
    <3>1. Acceptable(t) \in BOOLEAN
      BY DEF Acceptable
    <3>2. /\ x \in RequestType /\ x.at = "session" /\ x.token = t /\ x.ok = Acceptable(t)
      BY <3>1, Markers DEF RequestType
    <3>3. /\ request' = [request EXCEPT ![r] = x] /\ accounts' = accounts
          /\ sessions' = sessions /\ sessions[t] # NoSession
      BY <1>10, <2>2 DEF ReadSession
    <3> HIDE DEF x
    <3>4. x.ok \/ ~Normal(sessions[t].owner) \/ accounts[sessions[t].owner].version # sessions[t].version
      BY <2>2, <3>2, <3>3 DEF Acceptable
    <3>5. RequestMeant(r)'
      <4>1. request'[r] = x
        BY <1>a, <3>2, <3>3
      <4>2. QED
        BY <3>2, <3>3, <3>4, <4>1 DEF RequestMeant, Normal
    <3>6. QED
      BY <1>0, <3>2, <3>3, <3>5
  <2>3. QED
    BY <2>1, <2>2
<1>11. ASSUME NEW r \in Requests, Authenticate(r) PROVE Goal
  <2> DEFINE t == request[r].token
             s == sessions[t]
             x == [request[r] EXCEPT !.at = "authenticated", !.who = s.owner,
                                     !.since = changes[s.owner]]
  <2>1. CASE Normal(s.owner) /\ accounts[s.owner].version = s.version
    <3>1. /\ t \in Tokens /\ s # NoSession /\ request[r].ok /\ s.owner \in People
          /\ s.version = s.since + 1
      BY <1>11, <1>b, <2>1 DEF Authenticate, RequestMeant, SessionMeant
    <3>2. /\ accounts[s.owner].status = "normal" /\ accounts[s.owner].version = changes[s.owner] + 1
          /\ s.since \in Nat /\ changes[s.owner] \in Nat
      BY <1>a, <1>b, <2>1, <3>1 DEF Normal, AccountMeant, SessionType
    <3>3. s.since = changes[s.owner]
      BY <2>1, <3>1, <3>2
    <3>4. /\ x \in RequestType /\ x.at = "authenticated" /\ x.who = s.owner /\ x.token = t
          /\ x.ok = request[r].ok /\ x.since = changes[s.owner]
      <4> DEFINE q == request[r]
                 o == s.owner
                 n == changes[s.owner]
      <4>1. q \in RequestType /\ o \in People /\ n \in Nat
        BY <1>a, <3>1, <3>2
      <4>2. x = [q EXCEPT !.at = "authenticated", !.who = o, !.since = n]
        OBVIOUS
      <4>3. t = q.token
        OBVIOUS
      <4> HIDE DEF x, q, o, n, t
      <4>4. /\ x \in RequestType /\ x.at = "authenticated" /\ x.who = o /\ x.token = q.token
            /\ x.ok = q.ok /\ x.since = n
        BY <4>1, <4>2 DEF RequestType
      <4>5. QED
        BY <4>3, <4>4 DEF q, o, n
    <3>5. /\ request' = [request EXCEPT ![r] = x] /\ accounts' = accounts /\ sessions' = sessions
      BY <1>11, <1>a, <2>1 DEF Authenticate
    <3>6. RequestMeant(r)'
      <4>1. request'[r] = x
        BY <1>a, <3>5
      <4> HIDE DEF x
      <4>2. sessions'[x.token].since = x.since /\ sessions'[x.token] # NoSession
        BY <3>1, <3>3, <3>4, <3>5
      <4>3. accounts'[x.who].status # "none" /\ x.who \in People /\ x.token \in Tokens /\ x.ok
        BY <3>1, <3>2, <3>4, <3>5
      <4>4. QED
        BY <3>4, <4>1, <4>2, <4>3 DEF RequestMeant
    <3> HIDE DEF x
    <3>7. QED
      BY <1>0, <3>4, <3>5, <3>6
  <2>2. CASE ~(Normal(s.owner) /\ accounts[s.owner].version = s.version)
    BY <1>1, <1>11, <2>2 DEF Authenticate
  <2>3. QED
    BY <2>1, <2>2
<1>12. ASSUME NEW r \in Requests, NEW w \in Passwords, CheckPassword(r, w) PROVE Goal
  <2> DEFINE x == [request[r] EXCEPT !.at = "choose", !.password = w]
  <2>1. request[r].who \in People /\ accounts[request[r].who].status # "none"
    BY <1>12, <1>b DEF CheckPassword, RequestMeant
  <2>2. ASSUME request' = [request EXCEPT ![r] = x], accounts' = accounts
        PROVE  Goal
    <3>1. x \in RequestType /\ x.at = "choose" /\ x.who = request[r].who
      BY <1>a, ChoosingRequest
    <3> HIDE DEF x
    <3>2. request'[r] = x
      BY <1>a, <2>2
    <3>3. RequestMeant(r)'
      BY <2>1, <2>2, <3>1, <3>2 DEF RequestMeant
    <3>4. QED
      BY <1>0, <2>2, <3>1, <3>3
  <2>3. \/ request' = [request EXCEPT ![r] = x] /\ accounts' = accounts
        \/ End(r, FALSE)
    BY <1>12, <1>a DEF CheckPassword
  <2>4. QED
    BY <1>1, <2>2, <2>3
<1>13. ASSUME NEW r \in Requests, NEW w \in Passwords, ChangePassword(r, w) PROVE Goal
  <2>1. /\ request[r].who \in People /\ accounts[request[r].who].status # "none"
    BY <1>13, <1>b DEF ChangePassword, RequestMeant
  <2>2. Step(r, "revoke") \/ End(r, FALSE)
    BY <1>13 DEF ChangePassword
  <2>3. QED
    BY <1>1, <1>7, <2>1, <2>2
<1>14. ASSUME NEW r \in Requests,
              \/ \E p \in People, e \in Emails, w \in Passwords, t \in Tokens : Register(r, p, e, w, t)
              \/ \E t \in Tokens : IssueSession(r, t)
              \/ \E p \in People, d \in Devices, t \in Tokens : CreateGuest(r, p, d, t)
              \/ UseProfile(r) \/ RevokeAllSessions(r) \/ DeleteAccount(r)
              \/ \E s \in Subjects : BindGuest(r, s)
       PROVE  Goal
  <2>1. \E ok \in BOOLEAN : End(r, ok)
    BY <1>14 DEF Register, IssueSession, CreateGuest, UseProfile, RevokeAllSessions, DeleteAccount,
                 BindGuest, Normal
  <2>2. QED
    BY <1>1, <2>1
<1>15. ASSUME NEW r \in Requests, Again(r) PROVE Goal
  <2>1. request' = [request EXCEPT ![r] = Ready] /\ Ready \in RequestType /\ Ready.at = "ready"
    BY <1>15, Markers DEF Again
  <2>2. request'[r].at = "ready"
    BY <1>a, <2>1
  <2>3. RequestMeant(r)'
    BY <2>2, AtRest
  <2>4. QED
    BY <1>0, <2>1, <2>3
<1>16. ASSUME \/ \E p \in People, st \in {"normal", "banned", "deleted"} : SetUserStatus(p, st)
              \/ \E t \in Tokens : Expire(t)
              \/ UNCHANGED sessionsVars
       PROVE  Goal
  BY <1>2, <1>16 DEF SetUserStatus, Expire, sessionsVars
<1>17. Goal
  BY <1>4, <1>5, <1>6, <1>8, <1>9, <1>10, <1>11, <1>12, <1>13, <1>14, <1>15, <1>16
  DEF SessionsNext, Entry, Use
<1>18. chosen' \in [People -> Passwords \cup {NoPassword}]
  <2>1. \/ chosen' = chosen
        \/ \E p \in People, w \in Passwords : chosen' = [chosen EXCEPT ![p] = w]
    <3>1. ASSUME NEW r \in Requests, NEW w \in Passwords, ChangePassword(r, w)
          PROVE  \/ chosen' = chosen
                 \/ \E p \in People, v \in Passwords : chosen' = [chosen EXCEPT ![p] = v]
      <4>1. request[r].who \in People
        BY <1>b, <3>1 DEF ChangePassword, RequestMeant
      <4>2. chosen' = chosen \/ chosen' = [chosen EXCEPT ![request[r].who] = w]
        BY <3>1 DEF ChangePassword
      <4>3. QED
        BY <4>1, <4>2
    <3>2. ASSUME NEW r \in Requests, NEW p \in People, NEW e \in Emails, NEW w \in Passwords,
                 NEW t \in Tokens, Register(r, p, e, w, t)
          PROVE  \E o \in People, v \in Passwords : chosen' = [chosen EXCEPT ![o] = v]
      BY <3>2 DEF Register
    <3>3. ASSUME NEW r \in Requests,
                 \/ \E p \in People, e \in Emails :
                          FindLocal(r, p, e) \/ \E w \in Passwords : Verify(r, p, e, w)
                 \/ ReadUser(r) \/ Rehash(r)
                 \/ \E t \in Tokens : IssueSession(r, t) \/ ReadSession(r, t)
                 \/ \E p \in People, d \in Devices, t \in Tokens : CreateGuest(r, p, d, t)
                 \/ \E p \in People : ReturnGuest(r, p)
                 \/ Authenticate(r) \/ Again(r)
          PROVE  chosen' = chosen
      BY <3>3 DEF FindLocal, Verify, ReadUser, Rehash, IssueSession, ReadSession, CreateGuest,
                  ReturnGuest, Authenticate, Again
    <3>4. ASSUME NEW r \in Requests,
                 \/ UseProfile(r) \/ RevokeAllSessions(r) \/ DeleteAccount(r)
                 \/ \E w \in Passwords : CheckPassword(r, w)
                 \/ \E s \in Subjects : BindGuest(r, s)
          PROVE  chosen' = chosen
      BY <3>4 DEF UseProfile, RevokeAllSessions, DeleteAccount, CheckPassword, BindGuest
    <3>5. ASSUME \/ \E p \in People, st \in {"normal", "banned", "deleted"} : SetUserStatus(p, st)
                 \/ \E t \in Tokens : Expire(t)
                 \/ UNCHANGED sessionsVars
          PROVE  chosen' = chosen
      BY <3>5 DEF SetUserStatus, Expire, sessionsVars
    <3>6. QED
      BY <3>1, <3>2, <3>3, <3>4, <3>5 DEF SessionsNext, Entry, Use
  <2>2. QED
    BY <1>a, <2>1
<1>19. QED
  BY <1>17, <1>18
----------------------------------------------------------------------------
(* The theorems.                                                           *)

\* The invariant holds at first.
LEMMA AccountsBegin ==
    ASSUME SessionsAssumption, SessionsInit
    PROVE  AccountsInv
<1> USE SessionsAssumption
<1> DEFINE first == [NoAccount EXCEPT !.status = "normal", !.binding = "bound", !.version = 1]
<1>1. /\ first \in AccountType /\ first.status = "normal" /\ first.binding = "bound"
      /\ first.version = 1
  BY DEF NoAccount, AccountType
<1>2. /\ \A p \in People : accounts[p] \in {NoAccount, first}
      /\ \A p \in People : credentials[p] \in {NoCredential} \cup
            [email : Emails, active : {TRUE}, hash : [password : Passwords, current : BOOLEAN]]
      /\ \A p \in People : (accounts[p] # NoAccount) <=> (credentials[p] # NoCredential)
      /\ \A p, q \in People : p # q /\ credentials[p] # NoCredential
                                => credentials[p].email # credentials[q].email
      /\ \A p \in People : changes[p] = 0
      /\ \A t \in Tokens : sessions[t] = NoSession
      /\ \A r \in Requests : request[r] = Ready
      /\ \A s \in Subjects : subjects[s] = Nobody
  BY DEF SessionsInit
<1> HIDE DEF first
<1>3. SessionsTypeOK
  <2>1. accounts \in [People -> AccountType]
    BY <1>1, Markers DEF SessionsInit, first
  <2>2. credentials \in [People -> CredentialType]
    <3>1. [email : Emails, active : {TRUE}, hash : [password : Passwords, current : BOOLEAN]]
             \subseteq CredentialType
      BY DEF CredentialType, Hashes
    <3>2. QED
      BY <3>1, Markers DEF SessionsInit
  <2>3. /\ sessions \in [Tokens -> SessionType] /\ request \in [Requests -> RequestType]
        /\ subjects \in [Subjects -> People \cup {Nobody}] /\ changes \in [People -> Nat]
    BY Markers DEF SessionsInit
  <2>4. chosen \in [People -> Passwords \cup {NoPassword}]
    <3>1. \A p \in People : credentials[p].hash.password \in Passwords \cup {NoPassword}
      BY <2>2 DEF CredentialType, Hashes
    <3>2. QED
      BY <3>1 DEF SessionsInit
  <2>5. QED
    BY <2>1, <2>2, <2>3, <2>4
    DEF SessionsTypeOK, AccountType, CredentialType, SessionType, RequestType
<1>4. ASSUME NEW p \in People PROVE AccountMeant(p) /\ CredentialMeant(p) /\ BindingMeant(p)
  <2>1. \A s \in Subjects : subjects[s] # p
    BY <1>2 DEF SessionsAssumption
  <2>2. CASE accounts[p] = NoAccount
    BY <1>2, <2>1, <2>2, Markers DEF AccountMeant, CredentialMeant, BindingMeant
  <2>3. CASE accounts[p] = first
    <3>1. credentials[p] # NoCredential /\ credentials[p].email \in Emails
      BY <1>1, <1>2, <2>3, Markers
    <3>2. QED
      BY <1>1, <1>2, <2>3, <3>1 DEF AccountMeant, CredentialMeant, BindingMeant
  <2>4. QED
    BY <1>2, <2>2, <2>3
<1>5. AddressesOpenOne
  BY <1>2, Markers DEF AddressesOpenOne
<1>6. (\A t \in Tokens : SessionMeant(t)) /\ (\A r \in Requests : RequestMeant(r))
  BY <1>2, Markers DEF SessionMeant, RequestMeant
<1>7. QED
  BY <1>3, <1>4, <1>5, <1>6 DEF AccountsInv

\* Every step preserves the invariant.
LEMMA AccountsStep ==
    ASSUME SessionsAssumption, AccountsInv, [SessionsNext]_sessionsVars
    PROVE  AccountsInv'
<1>1. Written
  BY WrittenStep
<1>2. /\ accounts' \in [People -> AccountType] /\ credentials' \in [People -> CredentialType]
      /\ subjects' \in [Subjects -> People \cup {Nobody}]
      /\ sessions' \in [Tokens -> SessionType] /\ changes' \in [People -> Nat]
  BY <1>1, DocumentTypes DEF AccountsInv
<1>3. MovesOn
  BY <1>1, MoveOn
<1>4. /\ request' \in [Requests -> RequestType] /\ \A r \in Requests : RequestMeant(r)'
      /\ chosen' \in [People -> Passwords \cup {NoPassword}]
  BY <1>2, <1>3, RequestsStep
<1>5. SessionsTypeOK'
  BY <1>2, <1>4, TypesAgain
<1>6. QED
  BY <1>1, <1>4, <1>5, DocumentsMeant, SessionsMeant DEF AccountsInv

\* The invariant holds in every state: versions count changes, a session is of an
\* account that exists, and a request knows what it read.
THEOREM AccountsInvariant == SessionsSpec => []AccountsInv
<1>1. SessionsInit => AccountsInv
  BY AccountsBegin, SessionsAssumption
<1>2. AccountsInv /\ [SessionsNext]_sessionsVars => AccountsInv'
  BY AccountsStep, SessionsAssumption
<1>3. QED
  BY <1>1, <1>2, PTL DEF SessionsSpec

\* Every variable keeps its type.
THEOREM AccountsTyped == SessionsSpec => []SessionsTypeOK
<1>1. AccountsInv => SessionsTypeOK
  BY DEF AccountsInv
<1>2. QED
  BY <1>1, AccountsInvariant, PTL

\* What is accepted is current: the version of the session is the version of the
\* account, and each is one more than the changes it stands for.
LEMMA AcceptedCurrent ==
    ASSUME AccountsInv PROVE AcceptedIsCurrent
<1>a. changes \in [People -> Nat] /\ sessions \in [Tokens -> SessionType]
  BY Types DEF AccountsInv
<1>1. ASSUME NEW t \in Tokens, Acceptable(t) PROVE sessions[t].since = changes[sessions[t].owner]
  <2> DEFINE s == sessions[t]
  <2>1. /\ s # NoSession /\ accounts[s.owner].status = "normal" /\ accounts[s.owner].version = s.version
    BY <1>1 DEF Acceptable, Normal
  <2>2. s.owner \in People /\ s.version = s.since + 1
    BY <2>1 DEF AccountsInv, SessionMeant
  <2>3. accounts[s.owner].version = changes[s.owner] + 1
    BY <2>1, <2>2 DEF AccountsInv, AccountMeant
  <2>4. s.since \in Nat /\ changes[s.owner] \in Nat
    BY <1>a, <2>2 DEF SessionType
  <2>5. QED
    BY <2>1, <2>2, <2>3, <2>4
<1>2. ASSUME NEW r \in Requests, request[r].at = "authenticated"
      PROVE  request[r].ok /\ sessions[request[r].token].since = request[r].since
  BY <1>2 DEF AccountsInv, RequestMeant
<1>3. QED
  BY <1>1, <1>2 DEF AcceptedIsCurrent

\* A bound account has a credential or an identity, and an address opens one.
LEMMA BoundKnown ==
    ASSUME AccountsInv PROVE BoundMeansKnown
<1>1. ASSUME NEW e \in Emails PROVE Cardinality(Holders(e)) <= 1
  <2>1. \A p, q \in Holders(e) : p = q
    BY DEF Holders, AccountsInv, AddressesOpenOne
  <2>2. CASE Holders(e) = {}
    BY <2>2, FS_EmptySet
  <2>3. CASE Holders(e) # {}
    <3>1. PICK p : Holders(e) = {p}
      BY <2>1, <2>3
    <3>2. Cardinality({p}) = 1
      BY FS_Singleton
    <3>3. QED
      BY <3>1, <3>2
  <2>4. QED
    BY <2>2, <2>3
<1>2. QED
  BY <1>1 DEF BoundMeansKnown, AccountsInv, CredentialMeant, BindingMeant

\* A session that opens an account was issued by a login that read the account
\* after its last change of status or role, an authentication accepts only what was
\* acceptable at its first read, an account is bound exactly when somebody is known
\* to own it, an address opens at most one account, and a deleted account by none.
THEOREM AccountsAreSafe == SessionsSpec => []SessionsSafe
<1>1. AccountsInv => SessionsSafe
  BY AcceptedCurrent, BoundKnown DEF SessionsSafe
<1>2. QED
  BY <1>1, AccountsInvariant, PTL
-----------------------------------------------------------------------------
(* Callbacks.                                                                *)

StepType == [status : StepStatuses, version : {0, 2}, job : Steps \cup {NoFact}]

\* What is on its way came from the service: of a step, with addresses that
\* callbacks may carry.
SentMeant ==
    \A m \in sent : /\ m.nonce \in Nonces /\ m.digest \in Digests /\ m.ref \in Steps /\ m.job \in Steps
                    /\ \A o \in m.outputs : o.url \in Urls

CallbackShapes ==
    /\ creation \in [Creations -> CreationStatuses]
    /\ step \in [Steps -> StepType]
    /\ recipe \in [TwoSteps -> {"pending", "consumed"}]
    /\ DOMAIN execution = Steps
    /\ asset \in [Steps -> Urls \cup {NoFact}]
    /\ receipt \in [Nonces -> Facts \cup {NoFact}]
    /\ refunds \in [Creations -> {0, 1}]
    /\ SentMeant

Taken == {"succeeded", "generation_failed"}

\* A step, its result and the receipts for it.
ResultOf(s, n) ==
    /\ receipt[n] # NoFact /\ receipt[n].step = s
    /\ receipt[n].terminal = "completed" /\ receipt[n].url = asset[s]
FailureOf(s, n) == receipt[n] # NoFact /\ receipt[n].step = s /\ receipt[n].terminal # "completed"

StepMeant(s) ==
    /\ step[s].version = 2 <=> step[s].status \in Taken
    /\ step[s].status = "succeeded" <=> asset[s] # NoFact
    /\ step[s].status = "succeeded" => \E n \in Nonces : ResultOf(s, n)
    /\ step[s].status = "generation_failed" => \E n \in Nonces : FailureOf(s, n)

\* A receipt speaks for a step that has the terminal it tells.
ReceiptMeant(n) ==
    receipt[n] # NoFact =>
        LET f == receipt[n]
        IN  IF f.terminal = "completed"
            THEN step[f.step].status = "succeeded" /\ f.url = asset[f.step]
            ELSE step[f.step].status = "generation_failed"

\* The second step waits for the first one's result.
OrderMeant(c) ==
    /\ step[<<c, 1>>].status # "blocked"
    /\ c \in TwoSteps /\ step[<<c, 2>>].status # "blocked" => step[<<c, 1>>].status = "succeeded"

AllDone(c) == \A n \in Sequence(c) : step[<<c, n>>].status = "succeeded"
Broken(c) == \E n \in Sequence(c) : step[<<c, n>>].status \in {"generation_failed", "submission_failed"}

CreationMeant(c) ==
    /\ creation[c] = "succeeded" <=> AllDone(c)
    /\ refunds[c] = IF Broken(c) THEN 1 ELSE 0
    /\ refunds[c] = 1 <=> creation[c] \in {"generation_failed", "submission_failed"}

SecondMeant(c) ==
    /\ recipe[c] = "consumed" <=> step[<<c, 2>>].status # "blocked"
    /\ recipe[c] = "consumed" =>
          /\ execution[<<c, 2>>].assets = {[role |-> "opening_frame", url |-> asset[<<c, 1>>]]}
          /\ Compiles(execution[<<c, 2>>])

CallbacksInv ==
    /\ CallbackShapes
    /\ \A s \in Steps : StepMeant(s)
    /\ \A n \in Nonces : ReceiptMeant(n)
    /\ \A c \in Creations : OrderMeant(c) /\ CreationMeant(c)
    /\ \A c \in TwoSteps : SecondMeant(c)

\* What a step leaves of terminals and receipts.
Stands ==
    /\ \A s \in Steps : step[s].version = 2 => step'[s] = step[s] /\ asset'[s] = asset[s]
    /\ \A n \in Nonces : receipt[n] # NoFact => receipt'[n] = receipt[n]
-----------------------------------------------------------------------------
LEMMA StepParts ==
    ASSUME CallbacksAssumption
    PROVE  /\ \A s \in Steps : /\ s = <<s[1], s[2]>> /\ s[1] \in Creations /\ s[2] \in Sequence(s[1])
                               /\ s[2] \in {1, 2} /\ (s[2] = 2 => s[1] \in TwoSteps)
           /\ \A c \in Creations : \A n \in Sequence(c) : <<c, n>> \in Steps
           /\ \A c \in Creations : <<c, 1>> \in Steps
           /\ \A c \in TwoSteps : c \in Creations /\ <<c, 2>> \in Steps
<1>1. ASSUME NEW s \in Steps
      PROVE  /\ s = <<s[1], s[2]>> /\ s[1] \in Creations /\ s[2] \in Sequence(s[1])
             /\ s[2] \in {1, 2} /\ (s[2] = 2 => s[1] \in TwoSteps)
  <2>1. PICK c \in Creations, n \in {1, 2} : s = <<c, n>>
    BY DEF Steps
  <2>2. n = 2 => c \in TwoSteps
    BY <2>1 DEF Steps
  <2> QED
    BY <2>1, <2>2 DEF Sequence
<1>2. \A c \in Creations : <<c, 1>> \in Steps
  BY DEF Steps
<1>3. \A c \in TwoSteps : c \in Creations /\ <<c, 2>> \in Steps
  BY DEF Steps, CallbacksAssumption
<1>4. \A c \in Creations : \A n \in Sequence(c) : <<c, n>> \in Steps
  BY <1>2, <1>3 DEF Sequence
<1> QED
  BY <1>1, <1>2, <1>3, <1>4

LEMMA InvariantSays == CallbacksInv => CallbacksSafe
<1> SUFFICES ASSUME CallbacksInv PROVE CallbacksSafe
  OBVIOUS
<1>1. ASSUME NEW s \in Steps
      PROVE  /\ step[s].status = "succeeded" <=> asset[s] # NoFact
             /\ step[s].status = "succeeded" <=> \E n \in Nonces : ResultOf(s, n)
             /\ step[s].status = "generation_failed" <=> \E n \in Nonces : FailureOf(s, n)
  <2>1. StepMeant(s) /\ \A n \in Nonces : ReceiptMeant(n)
    BY DEF CallbacksInv
  <2>2. \A n \in Nonces : ResultOf(s, n) => step[s].status = "succeeded"
    BY <2>1 DEF ResultOf, ReceiptMeant
  <2>3. \A n \in Nonces : FailureOf(s, n) => step[s].status = "generation_failed"
    BY <2>1 DEF FailureOf, ReceiptMeant
  <2> QED
    BY <2>1, <2>2, <2>3 DEF StepMeant
<1>2. \A c \in Creations : CreationMeant(c)
  BY DEF CallbacksInv
<1>3. TerminalsAgree
  BY <1>1, <1>2 DEF TerminalsAgree, CreationMeant, AllDone, Broken, ResultOf, FailureOf
<1>4. SecondOfFirst
  BY DEF CallbacksInv, SecondOfFirst, SecondMeant
<1> QED
  BY <1>3, <1>4 DEF CallbacksSafe

LEMMA CallbacksStart ==
    ASSUME CallbacksAssumption, CallbacksInit
    PROVE  CallbacksInv
<1>1. CallbackShapes
  BY DEF CallbacksInit, CallbackShapes, SentMeant, CreationStatuses, StepStatuses, StepType
<1>2. \A s \in Steps : step[s].status = (IF s[2] = 2 THEN "blocked" ELSE "ready") /\ step[s].version = 0
  BY DEF CallbacksInit
<1>3. \A s \in Steps : StepMeant(s)
  BY <1>2 DEF CallbacksInit, StepMeant, Taken
<1>4. \A n \in Nonces : ReceiptMeant(n)
  BY DEF CallbacksInit, ReceiptMeant
<1>5. ASSUME NEW c \in Creations PROVE OrderMeant(c) /\ CreationMeant(c)
  <2>1. <<c, 1>> \in Steps /\ step[<<c, 1>>].status = "ready"
    BY <1>2, StepParts
  <2>2. c \in TwoSteps => step[<<c, 2>>].status = "blocked"
    BY <1>2, StepParts
  <2>3. 1 \in Sequence(c) /\ ~AllDone(c)
    BY <2>1 DEF Sequence, AllDone
  <2>4. ~Broken(c)
    BY <2>1, <2>2 DEF Sequence, Broken
  <2> QED
    BY <2>1, <2>2, <2>3, <2>4 DEF OrderMeant, CreationMeant, CallbacksInit
<1>6. ASSUME NEW c \in TwoSteps PROVE SecondMeant(c)
  <2>1. step[<<c, 2>>].status = "blocked"
    BY <1>2, StepParts
  <2> QED
    BY <2>1 DEF SecondMeant, CallbacksInit
<1> QED
  BY <1>1, <1>3, <1>4, <1>5, <1>6 DEF CallbacksInv
-----------------------------------------------------------------------------
\* What stands keeps its meaning: a step that has a terminal, and a receipt.
LEMMA WhatStands ==
    ASSUME CallbacksAssumption, CallbacksInv, Stands
    PROVE  /\ \A s \in Steps : step[s].version = 2 => StepMeant(s)'
           /\ \A n \in Nonces : receipt[n] # NoFact => ReceiptMeant(n)'
<1>1. ASSUME NEW s \in Steps, step[s].version = 2
      PROVE  StepMeant(s)'
  <2>1. StepMeant(s) /\ step'[s] = step[s] /\ asset'[s] = asset[s]
    BY <1>1 DEF CallbacksInv, Stands
  <2>2. \A n \in Nonces : ResultOf(s, n) => ResultOf(s, n)'
    BY <2>1 DEF Stands, ResultOf
  <2>3. \A n \in Nonces : FailureOf(s, n) => FailureOf(s, n)'
    BY <2>1 DEF Stands, FailureOf
  <2>4. step[s].status = "succeeded" => \E n \in Nonces : ResultOf(s, n)'
    BY <2>1, <2>2 DEF StepMeant
  <2>5. step[s].status = "generation_failed" => \E n \in Nonces : FailureOf(s, n)'
    BY <2>1, <2>3 DEF StepMeant
  <2> QED
    BY <2>1, <2>4, <2>5 DEF StepMeant
<1>2. ASSUME NEW n \in Nonces, receipt[n] # NoFact
      PROVE  ReceiptMeant(n)'
  <2>1. receipt'[n] = receipt[n] /\ ReceiptMeant(n)
    BY <1>2 DEF CallbacksInv, Stands
  <2>2. receipt[n] \in Facts /\ receipt[n].step \in Steps
    BY <1>2 DEF CallbacksInv, CallbackShapes, Facts
  <2>3. StepMeant(receipt[n].step)
    BY <2>2 DEF CallbacksInv
  <2>4. step[receipt[n].step].version = 2
    BY <2>1, <2>3, <1>2 DEF ReceiptMeant, StepMeant, Taken
  <2>5. step'[receipt[n].step] = step[receipt[n].step] /\ asset'[receipt[n].step] = asset[receipt[n].step]
    BY <2>2, <2>4 DEF Stands
  <2> QED
    BY <2>1, <2>5 DEF ReceiptMeant
<1> QED
  BY <1>1, <1>2

\* A step without a terminal that gets none stays without a result.
LEMMA WhatWaits ==
    ASSUME CallbacksInv, NEW s \in Steps, step[s].version # 2,
           asset'[s] = asset[s], step'[s].version = step[s].version,
           step'[s].status \notin Taken
    PROVE  StepMeant(s)'
<1>1. StepMeant(s)
  BY DEF CallbacksInv
<1> QED
  BY <1>1 DEF StepMeant, Taken

\* What a creation and its refund say follows from how its steps ended.
LEMMA SameEnds ==
    ASSUME CallbacksAssumption, NEW c \in Creations, CreationMeant(c),
           refunds'[c] = refunds[c],
           creation'[c] = creation[c] \/ (creation[c] = "pending_submission" /\ creation'[c] = "cancelling"),
           \A n \in Sequence(c) : \A ended \in {"succeeded", "generation_failed", "submission_failed"} :
               step'[<<c, n>>].status = ended <=> step[<<c, n>>].status = ended
    PROVE  CreationMeant(c)'
<1>1. AllDone(c)' <=> AllDone(c)
  BY DEF AllDone
<1>2. Broken(c)' <=> Broken(c)
  BY DEF Broken
<1> QED
  BY <1>1, <1>2 DEF CreationMeant

\* A creation that still waits has no refund, no failed step and an open one.
LEMMA WhilePending ==
    ASSUME CallbacksInv, NEW c \in Creations, creation[c] = "pending_submission"
    PROVE  refunds[c] = 0 /\ ~Broken(c) /\ ~AllDone(c)
<1>1. CreationMeant(c)
  BY DEF CallbacksInv
<1> QED
  BY <1>1 DEF CreationMeant

\* A step of which only the service has heard.
LEMMA Quiet ==
    ASSUME CallbacksInv, SentMeant',
           UNCHANGED <<creation, step, recipe, execution, asset, receipt, refunds>>
    PROVE  CallbacksInv' /\ Stands
<1>1. CallbackShapes'
  BY DEF CallbacksInv, CallbackShapes
<1>2. \A s \in Steps : StepMeant(s)'
  BY DEF CallbacksInv, StepMeant, ResultOf, FailureOf
<1>3. \A n \in Nonces : ReceiptMeant(n)'
  BY DEF CallbacksInv, ReceiptMeant
<1>4. \A c \in Creations : OrderMeant(c)' /\ CreationMeant(c)'
  BY DEF CallbacksInv, OrderMeant, CreationMeant, AllDone, Broken
<1>5. \A c \in TwoSteps : SecondMeant(c)'
  BY DEF CallbacksInv, SecondMeant
<1>6. Stands
  BY DEF Stands
<1> QED
  BY <1>1, <1>2, <1>3, <1>4, <1>5, <1>6 DEF CallbacksInv

\* An accepted submission, and one found afterwards, bind the job to a step
\* that was ready.
LEMMA Bound ==
    ASSUME CallbacksAssumption, CallbacksInv, NEW s \in Steps,
           step[s].status = "ready", BoundTo(s),
           UNCHANGED <<creation, recipe, execution, asset, receipt, refunds, sent>>
    PROVE  CallbacksInv' /\ Stands
<1>1. step \in [Steps -> StepType]
  BY DEF CallbacksInv, CallbackShapes
<1>2. /\ step' = [step EXCEPT ![s].status = "submitted", ![s].job = s]
      /\ step'[s].status = "submitted" /\ step'[s].version = step[s].version
      /\ \A t \in Steps \ {s} : step'[t] = step[t]
  BY <1>1 DEF BoundTo, StepType
<1>3. step'[s] \in StepType
  BY <1>1, <1>2 DEF BoundTo, StepType, StepStatuses
<1>4. step' \in [Steps -> StepType]
  BY <1>1, <1>2, <1>3
<1>5. step[s].version # 2
  BY DEF CallbacksInv, StepMeant, Taken
<1>6. Stands
  BY <1>2, <1>5 DEF Stands
<1>7. CallbackShapes'
  BY <1>4 DEF CallbacksInv, CallbackShapes, SentMeant
<1>8. ASSUME NEW t \in Steps PROVE StepMeant(t)'
  <2>1. CASE step[t].version = 2
    BY <2>1, <1>6, WhatStands
  <2>2. CASE step[t].version # 2
    <3>1. step'[t].version = step[t].version /\ step'[t].status \notin Taken
      BY <1>2, <2>2 DEF CallbacksInv, StepMeant, Taken
    <3> QED
      BY <3>1, <2>2, WhatWaits
  <2> QED
    BY <2>1, <2>2
<1>9. \A n \in Nonces : ReceiptMeant(n)'
  BY <1>6, WhatStands DEF ReceiptMeant
<1>10. \A t \in Steps : \A ended \in {"succeeded", "generation_failed", "submission_failed", "blocked"} :
          step'[t].status = ended <=> step[t].status = ended
  BY <1>2
<1>11. ASSUME NEW c \in Creations PROVE OrderMeant(c)' /\ CreationMeant(c)'
  <2>1. OrderMeant(c) /\ CreationMeant(c)
    BY DEF CallbacksInv
  <2>2. OrderMeant(c)'
    BY <2>1, <1>10, StepParts DEF OrderMeant
  <2>3. CreationMeant(c)'
    BY <2>1, <1>10, StepParts, SameEnds
  <2> QED
    BY <2>2, <2>3
<1>12. ASSUME NEW c \in TwoSteps PROVE SecondMeant(c)'
  <2>1. SecondMeant(c) /\ recipe'[c] = recipe[c]
        /\ execution'[<<c, 2>>] = execution[<<c, 2>>] /\ asset'[<<c, 1>>] = asset[<<c, 1>>]
    BY DEF CallbacksInv
  <2>2. <<c, 2>> \in Steps
    BY StepParts
  <2>3. step'[<<c, 2>>].status = "blocked" <=> step[<<c, 2>>].status = "blocked"
    BY <1>10, <2>2
  <2> QED
    BY <2>1, <2>3 DEF SecondMeant, Compiles
<1> QED
  BY <1>6, <1>7, <1>8, <1>9, <1>11, <1>12 DEF CallbacksInv

\* The fields a rejected submission writes.
\* A rejected submission ends its step and its creation, and refunds it.
LEMMA Rejected ==
    ASSUME CallbacksAssumption, CallbacksInv, NEW s \in Steps,
           step[s].status = "ready", creation[s[1]] = "pending_submission", RejectedAt(s),
           UNCHANGED <<recipe, execution, asset, receipt, sent>>
    PROVE  CallbacksInv' /\ Stands
<1>0. /\ step' = [step EXCEPT ![s].status = "submission_failed"]
      /\ creation' = [creation EXCEPT ![s[1]] = "submission_failed"]
      /\ refunds' = [refunds EXCEPT ![s[1]] = @ + 1]
  BY DEF RejectedAt
<1>1. /\ step \in [Steps -> StepType] /\ creation \in [Creations -> CreationStatuses]
      /\ refunds \in [Creations -> {0, 1}]
  BY DEF CallbacksInv, CallbackShapes
<1>2. /\ step'[s].status = "submission_failed" /\ step'[s].version = step[s].version
      /\ \A t \in Steps \ {s} : step'[t] = step[t]
  BY <1>0, <1>1 DEF StepType
<1>3. step'[s] \in StepType
  BY <1>0, <1>1, <1>2 DEF StepType, StepStatuses
<1>4. step' \in [Steps -> StepType]
  BY <1>0, <1>1, <1>2, <1>3
<1>5. step[s].version # 2
  BY DEF CallbacksInv, StepMeant, Taken
<1>6. Stands
  BY <1>2, <1>5 DEF Stands
<1>7. s[1] \in Creations /\ refunds[s[1]] = 0 /\ ~AllDone(s[1])
  BY StepParts, WhilePending
<1>8. CallbackShapes'
  <2>1. refunds' \in [Creations -> {0, 1}] /\ creation' \in [Creations -> CreationStatuses]
    BY <1>0, <1>1, <1>7 DEF CreationStatuses
  <2> QED
    BY <1>4, <2>1 DEF CallbacksInv, CallbackShapes, SentMeant
<1>9. ASSUME NEW t \in Steps PROVE StepMeant(t)'
  <2>1. CASE step[t].version = 2
    BY <2>1, <1>6, WhatStands
  <2>2. CASE step[t].version # 2
    <3>1. step'[t].version = step[t].version /\ step'[t].status \notin Taken
      BY <1>2, <2>2 DEF CallbacksInv, StepMeant, Taken
    <3> QED
      BY <3>1, <2>2, WhatWaits
  <2> QED
    BY <2>1, <2>2
<1>10. \A n \in Nonces : ReceiptMeant(n)'
  BY <1>6, WhatStands DEF ReceiptMeant
<1>11. \A t \in Steps : \A ended \in {"succeeded", "blocked"} :
          step'[t].status = ended <=> step[t].status = ended
  BY <1>2
<1>12. ASSUME NEW c \in Creations PROVE OrderMeant(c)' /\ CreationMeant(c)'
  <2>1. OrderMeant(c) /\ CreationMeant(c)
    BY DEF CallbacksInv
  <2>2. OrderMeant(c)'
    BY <2>1, <1>11, StepParts DEF OrderMeant
  <2>3. CASE c # s[1]
    <3>1. \A n \in Sequence(c) : <<c, n>> \in Steps \ {s}
      BY <2>3, StepParts
    <3>2. creation'[c] = creation[c] /\ refunds'[c] = refunds[c]
      BY <1>0, <1>1, <2>3
    <3>3. CreationMeant(c)'
      BY <2>1, <1>2, <3>1, <3>2, SameEnds
    <3> QED
      BY <3>3, <2>2
  <2>4. CASE c = s[1]
    <3>1. creation'[c] = "submission_failed" /\ refunds'[c] = 1
      BY <1>0, <1>1, <1>7, <2>4
    <3>2. s = <<c, s[2]>> /\ s[2] \in Sequence(c)
      BY <2>4, StepParts
    <3>3. Broken(c)' /\ ~AllDone(c)'
      BY <1>2, <3>2 DEF Broken, AllDone
    <3>4. CreationMeant(c)'
      BY <3>1, <3>3 DEF CreationMeant
    <3> QED
      BY <3>4, <2>2
  <2> QED
    BY <2>3, <2>4
<1>13. ASSUME NEW c \in TwoSteps PROVE SecondMeant(c)'
  <2>1. SecondMeant(c) /\ recipe'[c] = recipe[c]
        /\ execution'[<<c, 2>>] = execution[<<c, 2>>] /\ asset'[<<c, 1>>] = asset[<<c, 1>>]
    BY DEF CallbacksInv
  <2>2. <<c, 2>> \in Steps
    BY StepParts
  <2>3. step'[<<c, 2>>].status = "blocked" <=> step[<<c, 2>>].status = "blocked"
    BY <1>11, <2>2
  <2> QED
    BY <2>1, <2>3 DEF SecondMeant, Compiles
<1> QED
  BY <1>6, <1>8, <1>9, <1>10, <1>12, <1>13 DEF CallbacksInv

\* The user's wish to cancel changes the creation's status alone.
LEMMA Asked ==
    ASSUME CallbacksAssumption, CallbacksInv, NEW c \in Creations, AskCancel(c)
    PROVE  CallbacksInv' /\ Stands
<1> USE DEF AskCancel
<1>1. creation \in [Creations -> CreationStatuses]
  BY DEF CallbacksInv, CallbackShapes
<1>2. CallbackShapes'
  BY <1>1 DEF CallbacksInv, CallbackShapes, SentMeant, CreationStatuses
<1>3. \A s \in Steps : StepMeant(s)'
  BY DEF CallbacksInv, StepMeant, ResultOf, FailureOf
<1>4. \A n \in Nonces : ReceiptMeant(n)'
  BY DEF CallbacksInv, ReceiptMeant
<1>5. ASSUME NEW d \in Creations PROVE OrderMeant(d)' /\ CreationMeant(d)'
  <2>1. OrderMeant(d) /\ CreationMeant(d)
    BY DEF CallbacksInv
  <2>2. creation'[d] = creation[d] \/ (creation[d] = "pending_submission" /\ creation'[d] = "cancelling")
    BY <1>1
  <2>3. CreationMeant(d)'
    BY <2>1, <2>2, SameEnds
  <2> QED
    BY <2>1, <2>3 DEF OrderMeant
<1>6. \A d \in TwoSteps : SecondMeant(d)'
  BY DEF CallbacksInv, SecondMeant
<1>7. Stands
  BY DEF Stands
<1> QED
  BY <1>2, <1>3, <1>4, <1>5, <1>6, <1>7 DEF CallbacksInv
-----------------------------------------------------------------------------
\* What a verified callback says is one of the controlled facts.
LEMMA FactsOfCallbacks ==
    ASSUME SentMeant, NEW m \in sent, Parsed(m)
    PROVE  /\ FactOf(m) \in Facts
           /\ FactOf(m).terminal = "completed" => FactOf(m).url \in Urls
<1>1. /\ m.digest \in Digests /\ m.ref \in Steps /\ m.job \in Steps
      /\ \A o \in m.outputs : o.url \in Urls
  BY DEF SentMeant
<1>2. m.capability \in Capabilities /\ m.event \in {"completed", "failed", "cancelled"}
  BY DEF Parsed
<1>3. m.event = "completed" => (CHOOSE o \in m.outputs : TRUE) \in m.outputs
  <2>1. m.event = "completed" => Cardinality(m.outputs) = 1
    BY DEF Parsed, ParsedResult
  <2>2. m.event = "completed" => m.outputs # {}
    BY <2>1, FS_EmptySet
  <2> QED
    BY <2>2
<1>4. m.event = "completed" => (CHOOSE o \in m.outputs : TRUE).url \in Urls
  BY <1>1, <1>3
<1>5. FactOf(m).terminal = m.event /\ (m.event = "completed" => FactOf(m).url \in Urls)
  BY <1>4 DEF FactOf
<1>6. (IF m.event = "completed" THEN MediaOf(m.capability) ELSE NoFact) \in {"image", "video", NoFact}
  BY DEF MediaOf
<1>7. (IF m.event = "completed" THEN (CHOOSE o \in m.outputs : TRUE).url ELSE NoFact) \in Urls \cup {NoFact}
  BY <1>4
<1>8. FactOf(m) \in Facts
  BY <1>1, <1>2, <1>6, <1>7 DEF FactOf, Facts
<1> QED
  BY <1>5, <1>8

\* A receipt that is new, and the ones that were there.
LEMMA NewReceipt ==
    ASSUME CallbacksAssumption, CallbacksInv, NEW n \in Nonces, NEW f \in Facts,
           NonceFree(n), Receipted(n, f)
    PROVE  /\ receipt' \in [Nonces -> Facts \cup {NoFact}]
           /\ receipt'[n] = f /\ f # NoFact
           /\ \A k \in Nonces : receipt[k] # NoFact => receipt'[k] = receipt[k]
           /\ \A k \in Nonces \ {n} : receipt'[k] = receipt[k]
<1>1. receipt \in [Nonces -> Facts \cup {NoFact}]
  BY DEF CallbacksInv, CallbackShapes
<1>2. f # NoFact
  BY DEF CallbacksAssumption
<1> QED
  BY <1>1, <1>2 DEF NonceFree, Receipted

\* Taking a terminal touches no step that has one, and no receipt.
LEMMA TerminalTaken ==
    ASSUME CallbacksAssumption, CallbacksInv, NEW n \in Nonces, NEW f \in Facts,
           NonceFree(n), Receipted(n, f), step[f.step].version # 2,
           \A t \in Steps \ {f.step} : /\ asset'[t] = asset[t]
                                       /\ step[t].version = 2 => step'[t] = step[t]
    PROVE  Stands
BY NewReceipt DEF Stands

\* The last step's result: the step and its creation succeed together.
LEMMA FinalCompleted ==
    ASSUME CallbacksAssumption, CallbacksInv, NEW n \in Nonces, NEW f \in Facts,
           f.terminal = "completed", f.url \in Urls, CompleteFinal(n, f), SentMeant'
    PROVE  CallbacksInv' /\ Stands
<1> USE DEF CompleteFinal
<1> DEFINE s == f.step
<1>1. /\ step \in [Steps -> StepType] /\ creation \in [Creations -> CreationStatuses]
      /\ asset \in [Steps -> Urls \cup {NoFact}]
  BY DEF CallbacksInv, CallbackShapes
<1>2. s \in Steps /\ step[s].status = "submitted" /\ step[s].version = 0
  BY DEF Facts, TakesTerminal
<1>3. /\ step'[s].status = "succeeded" /\ step'[s].version = 2 /\ step'[s].job = step[s].job
      /\ \A t \in Steps \ {s} : step'[t] = step[t]
  BY <1>1, <1>2 DEF Terminated, StepType
<1>4. step'[s] \in StepType
  <2>1. step'[s] = [step[s] EXCEPT !.status = "succeeded", !.version = 2]
    BY <1>1, <1>2 DEF Terminated, StepType
  <2> QED
    BY <1>1, <1>2, <2>1 DEF StepType, StepStatuses
<1>5. step' \in [Steps -> StepType]
  BY <1>1, <1>3, <1>4, <1>2 DEF Terminated
<1>6. asset'[s] = f.url /\ f.url # NoFact /\ \A t \in Steps \ {s} : asset'[t] = asset[t]
  BY <1>1, <1>2 DEF CallbacksAssumption
<1>7. Stands
  BY <1>2, <1>3, <1>6, TerminalTaken
<1>8. CallbackShapes'
  <2>1. creation' \in [Creations -> CreationStatuses] /\ asset' \in [Steps -> Urls \cup {NoFact}]
    BY <1>1 DEF CreationStatuses
  <2> QED
    BY <1>5, <2>1, NewReceipt DEF CallbacksInv, CallbackShapes
<1>9. receipt'[n] = f /\ f # NoFact
  BY NewReceipt
<1>10. ASSUME NEW t \in Steps PROVE StepMeant(t)'
  <2>1. CASE step[t].version = 2
    BY <2>1, <1>7, WhatStands
  <2>2. CASE t = s
    <3>1. ResultOf(s, n)'
      BY <1>6, <1>9 DEF ResultOf
    <3> QED
      BY <2>2, <3>1, <1>3, <1>6 DEF StepMeant, Taken
  <2>3. CASE step[t].version # 2 /\ t # s
    <3>1. step'[t] = step[t] /\ step'[t].status \notin Taken
      BY <1>3, <2>3 DEF CallbacksInv, StepMeant
    <3> QED
      BY <3>1, <2>3, <1>6, WhatWaits
  <2> QED
    BY <2>1, <2>2, <2>3
<1>11. ASSUME NEW k \in Nonces PROVE ReceiptMeant(k)'
  <2>1. CASE receipt[k] # NoFact
    BY <2>1, <1>7, WhatStands
  <2>2. CASE k = n
    BY <2>2, <1>9, <1>3, <1>6 DEF ReceiptMeant
  <2>3. CASE receipt[k] = NoFact /\ k # n
    BY <2>3, NewReceipt DEF ReceiptMeant
  <2> QED
    BY <2>1, <2>2, <2>3
<1>12. /\ s = <<s[1], s[2]>> /\ s[1] \in Creations /\ s[2] \in Sequence(s[1])
       /\ \A k \in Sequence(s[1]) : k <= s[2]
  BY <1>2, StepParts DEF IsFinalStep
<1>13. ASSUME NEW c \in Creations PROVE OrderMeant(c)' /\ CreationMeant(c)'
  <2>1. OrderMeant(c) /\ CreationMeant(c)
    BY DEF CallbacksInv
  <2>2. OrderMeant(c)'
    BY <2>1, <1>2, <1>3, StepParts DEF OrderMeant
  <2>3. CASE c # s[1]
    <3>1. \A k \in Sequence(c) : <<c, k>> \in Steps \ {s}
      BY <2>3, StepParts
    <3>2. creation'[c] = creation[c] /\ refunds'[c] = refunds[c]
      BY <1>1, <2>3
    <3>3. CreationMeant(c)'
      BY <2>1, <1>3, <3>1, <3>2, SameEnds
    <3> QED
      BY <3>3, <2>2
  <2>4. CASE c = s[1]
    <3>1. creation'[c] = "succeeded" /\ refunds'[c] = 0 /\ ~Broken(c)
      BY <1>1, <2>4, WhilePending
    <3>2. ASSUME NEW k \in Sequence(c) PROVE step'[<<c, k>>].status = "succeeded"
      <4>1. CASE k = s[2]
        BY <4>1, <2>4, <1>12, <1>3
      <4>2. CASE k # s[2]
        <5>1. s[2] = 2 /\ k = 1 /\ c \in TwoSteps
          BY <4>2, <1>12, <2>4 DEF Sequence
        <5>2. s = <<c, 2>> /\ step[<<c, 2>>].status # "blocked"
          BY <5>1, <1>12, <2>4, <1>2
        <5>3. step[<<c, 1>>].status = "succeeded"
          BY <5>1, <5>2, <2>1 DEF OrderMeant
        <5> QED
          BY <5>1, <5>2, <5>3, <1>3, StepParts
      <4> QED
        BY <4>1, <4>2
    <3>3. AllDone(c)' /\ ~Broken(c)'
      BY <3>2 DEF AllDone, Broken
    <3>4. CreationMeant(c)'
      BY <3>1, <3>3 DEF CreationMeant
    <3> QED
      BY <3>4, <2>2
  <2> QED
    BY <2>3, <2>4
<1>14. ASSUME NEW c \in TwoSteps PROVE SecondMeant(c)'
  <2>1. SecondMeant(c) /\ c \in Creations /\ <<c, 2>> \in Steps /\ <<c, 1>> \in Steps
    BY StepParts DEF CallbacksInv
  <2>2. s # <<c, 1>>
    BY <2>1, <1>12 DEF Sequence
  <2>3. asset'[<<c, 1>>] = asset[<<c, 1>>]
    BY <2>1, <2>2, <1>6
  <2>4. step'[<<c, 2>>].status # "blocked" <=> step[<<c, 2>>].status # "blocked"
    BY <2>1, <1>2, <1>3
  <2> QED
    BY <2>1, <2>3, <2>4 DEF SecondMeant
<1> QED
  BY <1>7, <1>8, <1>10, <1>11, <1>13, <1>14 DEF CallbacksInv

\* A failure: the step and its creation fail together, and the charge is
\* reversed once.
LEMMA Failed ==
    ASSUME CallbacksAssumption, CallbacksInv, NEW n \in Nonces, NEW f \in Facts,
           f.terminal # "completed", Fail(n, f), SentMeant'
    PROVE  CallbacksInv' /\ Stands
<1> USE DEF Fail
<1> DEFINE s == f.step
<1>1. /\ step \in [Steps -> StepType] /\ creation \in [Creations -> CreationStatuses]
      /\ refunds \in [Creations -> {0, 1}]
  BY DEF CallbacksInv, CallbackShapes
<1>2. s \in Steps /\ step[s].status = "submitted" /\ step[s].version = 0
  BY DEF Facts, TakesTerminal
<1>3. /\ step'[s].status = "generation_failed" /\ step'[s].version = 2 /\ step'[s].job = step[s].job
      /\ \A t \in Steps \ {s} : step'[t] = step[t]
  BY <1>1, <1>2 DEF Terminated, StepType
<1>4. step'[s] \in StepType
  <2>1. step'[s] = [step[s] EXCEPT !.status = "generation_failed", !.version = 2]
    BY <1>1, <1>2 DEF Terminated, StepType
  <2> QED
    BY <1>1, <1>2, <2>1 DEF StepType, StepStatuses
<1>5. step' \in [Steps -> StepType]
  BY <1>1, <1>3, <1>4, <1>2 DEF Terminated
<1>6. asset[s] = NoFact
  BY <1>2 DEF CallbacksInv, StepMeant
<1>7. Stands
  BY <1>2, <1>3, TerminalTaken
<1>8. /\ s = <<s[1], s[2]>> /\ s[1] \in Creations /\ s[2] \in Sequence(s[1])
      /\ refunds[s[1]] = 0
  BY <1>2, StepParts, WhilePending
<1>9. CallbackShapes'
  <2>1. creation' \in [Creations -> CreationStatuses] /\ refunds' \in [Creations -> {0, 1}]
    BY <1>1, <1>8 DEF CreationStatuses
  <2> QED
    BY <1>5, <2>1, NewReceipt DEF CallbacksInv, CallbackShapes
<1>10. receipt'[n] = f /\ f # NoFact
  BY NewReceipt
<1>11. ASSUME NEW t \in Steps PROVE StepMeant(t)'
  <2>1. CASE step[t].version = 2
    BY <2>1, <1>7, WhatStands
  <2>2. CASE t = s
    <3>1. FailureOf(s, n)'
      BY <1>10 DEF FailureOf
    <3> QED
      BY <2>2, <3>1, <1>3, <1>6 DEF StepMeant, Taken
  <2>3. CASE step[t].version # 2 /\ t # s
    <3>1. step'[t] = step[t] /\ step'[t].status \notin Taken
      BY <1>3, <2>3 DEF CallbacksInv, StepMeant
    <3> QED
      BY <3>1, <2>3, WhatWaits
  <2> QED
    BY <2>1, <2>2, <2>3
<1>12. ASSUME NEW k \in Nonces PROVE ReceiptMeant(k)'
  <2>1. CASE receipt[k] # NoFact
    BY <2>1, <1>7, WhatStands
  <2>2. CASE k = n
    BY <2>2, <1>10, <1>3 DEF ReceiptMeant
  <2>3. CASE receipt[k] = NoFact /\ k # n
    BY <2>3, NewReceipt DEF ReceiptMeant
  <2> QED
    BY <2>1, <2>2, <2>3
<1>13. ASSUME NEW c \in Creations PROVE OrderMeant(c)' /\ CreationMeant(c)'
  <2>1. OrderMeant(c) /\ CreationMeant(c)
    BY DEF CallbacksInv
  <2>2. OrderMeant(c)'
    BY <2>1, <1>2, <1>3, StepParts DEF OrderMeant
  <2>3. CASE c # s[1]
    <3>1. \A k \in Sequence(c) : <<c, k>> \in Steps \ {s}
      BY <2>3, StepParts
    <3>2. creation'[c] = creation[c] /\ refunds'[c] = refunds[c]
      BY <1>1, <2>3
    <3>3. CreationMeant(c)'
      BY <2>1, <1>3, <3>1, <3>2, SameEnds
    <3> QED
      BY <3>3, <2>2
  <2>4. CASE c = s[1]
    <3>1. creation'[c] = "generation_failed" /\ refunds'[c] = 1
      BY <1>1, <1>8, <2>4
    <3>2. Broken(c)' /\ ~AllDone(c)'
      BY <1>3, <1>8, <2>4 DEF Broken, AllDone
    <3>3. CreationMeant(c)'
      BY <3>1, <3>2 DEF CreationMeant
    <3> QED
      BY <3>3, <2>2
  <2> QED
    BY <2>3, <2>4
<1>14. ASSUME NEW c \in TwoSteps PROVE SecondMeant(c)'
  <2>1. SecondMeant(c) /\ <<c, 2>> \in Steps
    BY StepParts DEF CallbacksInv
  <2>2. step'[<<c, 2>>].status # "blocked" <=> step[<<c, 2>>].status # "blocked"
    BY <2>1, <1>2, <1>3
  <2> QED
    BY <2>1, <2>2 DEF SecondMeant
<1> QED
  BY <1>7, <1>9, <1>11, <1>12, <1>13, <1>14 DEF CallbacksInv

\* The opening frame's result: the first step succeeds and the second one
\* leaves its block with an execution made of that result.
LEMMA FrameCompleted ==
    ASSUME CallbacksAssumption, CallbacksInv, NEW n \in Nonces, NEW f \in Facts,
           f.terminal = "completed", f.url \in Urls, CompleteFrame(n, f), SentMeant'
    PROVE  CallbacksInv' /\ Stands
<1> DEFINE s == f.step
           c == s[1]
           second == <<c, 2>>
<1>1. /\ step \in [Steps -> StepType] /\ recipe \in [TwoSteps -> {"pending", "consumed"}]
      /\ asset \in [Steps -> Urls \cup {NoFact}] /\ DOMAIN execution = Steps
  BY DEF CallbacksInv, CallbackShapes
<1>2. /\ NonceFree(n) /\ Receipted(n, f)
      /\ s \in Steps /\ step[s].status = "submitted" /\ step[s].version = 0
      /\ step[second].status = "blocked" /\ recipe[c] = "pending" /\ Binds(c, f.url)
      /\ recipe' = [recipe EXCEPT ![c] = "consumed"]
      /\ execution' = [execution EXCEPT ![second] = BoundRecipe(c, f.url)]
      /\ asset' = [asset EXCEPT ![s] = f.url]
      /\ UNCHANGED <<creation, refunds>>
  BY DEF CompleteFrame, Facts, TakesTerminal
<1>3. s = <<c, 1>> /\ c \in TwoSteps /\ c \in Creations /\ second \in Steps /\ second # s
  <2>1. s = <<c, s[2]>> /\ s[2] \in {1, 2} /\ c \in Creations /\ (s[2] = 2 => c \in TwoSteps)
    BY <1>2, StepParts
  <2>2. c \in TwoSteps
    BY <2>1 DEF CompleteFrame, IsFinalStep, Sequence
  <2>3. s[2] = 1
    BY <2>1, <2>2 DEF CompleteFrame, IsFinalStep, Sequence
  <2> QED
    BY <2>1, <2>2, <2>3, StepParts
<1>4. step' = [Terminated(s, "succeeded") EXCEPT ![second].status = "ready"]
  BY DEF CompleteFrame
<1>5. DEFINE took == Terminated(s, "succeeded")
<1>6. /\ took[s] = [step[s] EXCEPT !.status = "succeeded", !.version = 2]
      /\ took \in [Steps -> StepType]
      /\ \A t \in Steps \ {s} : took[t] = step[t]
  <2>1. /\ took[s] = [step[s] EXCEPT !.status = "succeeded", !.version = 2]
        /\ \A t \in Steps \ {s} : took[t] = step[t]
    BY <1>1, <1>2 DEF Terminated, StepType
  <2>2. took[s] \in StepType
    BY <1>1, <1>2, <2>1 DEF StepType, StepStatuses
  <2> QED
    BY <1>1, <2>1, <2>2 DEF Terminated
<1> HIDE DEF took
<1>7. step' = [took EXCEPT ![second].status = "ready"]
  BY <1>4 DEF took
<1>8. /\ step'[s] = [step[s] EXCEPT !.status = "succeeded", !.version = 2]
      /\ step'[second] = [step[second] EXCEPT !.status = "ready"]
      /\ \A t \in Steps \ {s, second} : step'[t] = step[t]
  BY <1>3, <1>6, <1>7
<1>9. /\ step'[s].status = "succeeded" /\ step'[s].version = 2
      /\ step'[second].status = "ready" /\ step'[second].version = step[second].version
  BY <1>1, <1>2, <1>3, <1>8 DEF StepType
<1>10. step' \in [Steps -> StepType]
  <2>1. step'[second] \in StepType
    BY <1>1, <1>3, <1>8 DEF StepType, StepStatuses
  <2> QED
    BY <1>3, <1>6, <1>7, <2>1
<1>11. asset'[s] = f.url /\ f.url # NoFact /\ \A t \in Steps \ {s} : asset'[t] = asset[t]
  BY <1>1, <1>2 DEF CallbacksAssumption
<1>12. step[second].version # 2
  BY <1>2, <1>3 DEF CallbacksInv, StepMeant, Taken
<1>13. Stands
  BY <1>2, <1>8, <1>11, <1>12, TerminalTaken
<1>14. CallbackShapes'
  <2>1. recipe' \in [TwoSteps -> {"pending", "consumed"}] /\ DOMAIN execution' = Steps
        /\ asset' \in [Steps -> Urls \cup {NoFact}]
    BY <1>1, <1>2
  <2>2. receipt' \in [Nonces -> Facts \cup {NoFact}]
    BY <1>2, NewReceipt
  <2>3. creation' \in [Creations -> CreationStatuses] /\ refunds' \in [Creations -> {0, 1}]
    BY <1>2 DEF CallbacksInv, CallbackShapes
  <2> QED
    BY <1>10, <2>1, <2>2, <2>3 DEF CallbackShapes
<1>15. /\ receipt'[n] = f /\ f # NoFact
       /\ \A k \in Nonces \ {n} : receipt'[k] = receipt[k]
  BY <1>2, NewReceipt
<1>16. ASSUME NEW t \in Steps PROVE StepMeant(t)'
  <2>1. CASE step[t].version = 2
    BY <2>1, <1>13, WhatStands
  <2>2. CASE t = s
    <3>1. ResultOf(s, n)'
      BY <1>11, <1>15 DEF ResultOf
    <3> QED
      BY <2>2, <3>1, <1>9, <1>11 DEF StepMeant, Taken
  <2>3. CASE step[t].version # 2 /\ t # s
    <3>1. step'[t].version = step[t].version /\ step'[t].status \notin Taken
      BY <1>8, <1>9, <2>3 DEF CallbacksInv, StepMeant, Taken
    <3> QED
      BY <3>1, <2>3, <1>11, WhatWaits
  <2> QED
    BY <2>1, <2>2, <2>3
<1>17. ASSUME NEW k \in Nonces PROVE ReceiptMeant(k)'
  <2>1. CASE receipt[k] # NoFact
    BY <2>1, <1>13, WhatStands
  <2>2. CASE k = n
    BY <2>2, <1>15, <1>9, <1>11 DEF ReceiptMeant
  <2>3. CASE receipt[k] = NoFact /\ k # n
    BY <2>3, <1>15 DEF ReceiptMeant
  <2> QED
    BY <2>1, <2>2, <2>3
<1>18. ASSUME NEW d \in Creations PROVE OrderMeant(d)' /\ CreationMeant(d)'
  <2>1. OrderMeant(d) /\ CreationMeant(d)
    BY DEF CallbacksInv
  <2>2. CASE d # c
    <3>1. \A k \in Sequence(d) : <<d, k>> \in Steps \ {s, second}
      BY <2>2, <1>3, StepParts
    <3>2. CreationMeant(d)'
      BY <2>1, <1>2, <1>8, <3>1, SameEnds
    <3>3. \A k \in Sequence(d) : step'[<<d, k>>] = step[<<d, k>>]
      BY <3>1, <1>8
    <3>4. OrderMeant(d)'
      BY <2>1, <3>3 DEF OrderMeant, Sequence
    <3> QED
      BY <3>2, <3>4
  <2>3. CASE d = c
    <3>1. OrderMeant(d)'
      BY <2>3, <1>3, <1>9 DEF OrderMeant
    <3>2. Sequence(d) = {1, 2}
      BY <2>3, <1>3 DEF Sequence
    <3>3. /\ step[<<d, 1>>].status = "submitted" /\ step[<<d, 2>>].status = "blocked"
          /\ step'[<<d, 1>>].status = "succeeded" /\ step'[<<d, 2>>].status = "ready"
      BY <2>3, <1>2, <1>3, <1>9
    <3>4. ~AllDone(d) /\ ~AllDone(d)'
      BY <3>2, <3>3 DEF AllDone
    <3>5. ~Broken(d) /\ ~Broken(d)'
      BY <3>2, <3>3 DEF Broken
    <3>6. CreationMeant(d)'
      BY <2>1, <1>2, <3>4, <3>5 DEF CreationMeant
    <3> QED
      BY <3>1, <3>6
  <2> QED
    BY <2>2, <2>3
<1>19. ASSUME NEW d \in TwoSteps PROVE SecondMeant(d)'
  <2>1. SecondMeant(d) /\ <<d, 1>> \in Steps /\ <<d, 2>> \in Steps
    BY StepParts DEF CallbacksInv
  <2>2. CASE d = c
    <3>1. execution'[<<d, 2>>] = BoundRecipe(c, f.url) /\ recipe'[d] = "consumed"
      BY <2>2, <1>1, <1>2, <1>3
    <3>2. asset'[<<d, 1>>] = f.url
      BY <2>2, <1>3, <1>11
    <3>3. Compiles(BoundRecipe(c, f.url))
      BY <1>2 DEF Binds
    <3>4. BoundRecipe(c, f.url).assets = {[role |-> "opening_frame", url |-> f.url]}
      BY DEF BoundRecipe
    <3>5. step'[<<d, 2>>].status # "blocked"
      BY <2>2, <1>9
    <3> QED
      BY <3>1, <3>2, <3>3, <3>4, <3>5 DEF SecondMeant
  <2>3. CASE d # c
    <3>1. <<d, 1>> \in Steps \ {s, second} /\ <<d, 2>> \in Steps \ {s, second}
      BY <2>1, <2>3, <1>3
    <3>2. /\ step'[<<d, 2>>] = step[<<d, 2>>] /\ asset'[<<d, 1>>] = asset[<<d, 1>>]
          /\ execution'[<<d, 2>>] = execution[<<d, 2>>] /\ recipe'[d] = recipe[d]
      BY <3>1, <2>3, <1>1, <1>2, <1>8, <1>11
    <3>3. Compiles(execution[<<d, 2>>])' <=> Compiles(execution[<<d, 2>>])
      BY <3>2 DEF Compiles, AssetsFit
    <3> QED
      BY <2>1, <3>2, <3>3 DEF SecondMeant
  <2> QED
    BY <2>2, <2>3
<1> QED
  BY <1>13, <1>14, <1>16, <1>17, <1>18, <1>19 DEF CallbacksInv

\* A terminal that is there already gets one more receipt of the same facts.
LEMMA Confirmed ==
    ASSUME CallbacksAssumption, CallbacksInv, NEW n \in Nonces, NEW f \in Facts,
           Confirm(n, f), SentMeant'
    PROVE  CallbacksInv' /\ Stands
<1> USE DEF Confirm
<1>1. /\ receipt'[n] = f /\ f # NoFact
      /\ receipt' \in [Nonces -> Facts \cup {NoFact}]
      /\ \A k \in Nonces : receipt[k] # NoFact => receipt'[k] = receipt[k]
      /\ \A k \in Nonces \ {n} : receipt'[k] = receipt[k]
  BY NewReceipt
<1>2. Stands
  BY <1>1 DEF Stands
<1>3. CallbackShapes'
  BY <1>1 DEF CallbacksInv, CallbackShapes
<1>4. ASSUME NEW s \in Steps PROVE StepMeant(s)'
  <2>1. CASE step[s].version = 2
    BY <2>1, <1>2, WhatStands
  <2>2. CASE step[s].version # 2
    BY <2>2, WhatWaits DEF CallbacksInv, StepMeant
  <2> QED
    BY <2>1, <2>2
<1>5. ASSUME NEW k \in Nonces PROVE ReceiptMeant(k)'
  <2>1. CASE receipt[k] # NoFact
    BY <2>1, <1>2, WhatStands
  <2>2. CASE k = n
    BY <2>2, <1>1 DEF ReceiptMeant, ExistingCompleted, ExistingFailed
  <2>3. CASE receipt[k] = NoFact /\ k # n
    BY <2>3, <1>1 DEF ReceiptMeant
  <2> QED
    BY <2>1, <2>2, <2>3
<1>6. \A c \in Creations : OrderMeant(c)' /\ CreationMeant(c)'
  BY DEF CallbacksInv, OrderMeant, CreationMeant, AllDone, Broken
<1>7. \A c \in TwoSteps : SecondMeant(c)'
  BY DEF CallbacksInv, SecondMeant
<1> QED
  BY <1>2, <1>3, <1>4, <1>5, <1>6, <1>7 DEF CallbacksInv
-----------------------------------------------------------------------------
\* Every step keeps the invariant, and what was taken.
LEMMA CallbackSteps ==
    ASSUME CallbacksAssumption, CallbacksInv, [CallbacksNext]_callbackVars
    PROVE  CallbacksInv' /\ Stands
<1>1. SentMeant
  BY DEF CallbacksInv, CallbackShapes
<1>2. ASSUME NEW s \in Steps, step[s].status = "ready", NEW meaning, ConcludedAs(s, meaning), SentMeant',
             UNCHANGED <<recipe, execution, asset, receipt, sent>>
      PROVE  CallbacksInv' /\ Stands
  <2>1. CASE BoundTo(s) /\ UNCHANGED <<creation, refunds>>
    BY <1>2, <2>1, Bound
  <2>2. CASE creation[s[1]] = "pending_submission" /\ RejectedAt(s)
    BY <1>2, <2>2, Rejected
  <2>3. CASE UNCHANGED <<step, creation, refunds>>
    BY <1>2, <2>3, Quiet
  <2> QED
    BY <1>2, <2>1, <2>2, <2>3 DEF ConcludedAs
<1>3. ASSUME NEW s \in Steps, Submit(s) \/ LookupExecution(s) PROVE CallbacksInv' /\ Stands
  <2>1. SentMeant' /\ UNCHANGED <<recipe, execution, asset, receipt, sent>>
    BY <1>1, <1>3 DEF Submit, LookupExecution, SentMeant
  <2>2. step[s].status = "ready" /\ \E meaning : ConcludedAs(s, meaning)
    BY <1>3 DEF Submit, LookupExecution
  <2> QED
    BY <1>2, <2>1, <2>2
<1>4. ASSUME NEW s \in Steps, Finish(s) PROVE CallbacksInv' /\ Stands
  <2>1. SentMeant'
    BY <1>1, <1>4 DEF Finish, SentMeant
  <2> QED
    BY <1>4, <2>1, Quiet DEF Finish
<1>5. ASSUME NEW s \in Steps, Send(s) PROVE CallbacksInv' /\ Stands
  <2>1. PICK n \in Nonces, d \in Digests, url \in Urls :
          sent' = sent \cup
            {[nonce |-> n, digest |-> d, at |-> clock, job |-> s, ref |-> s,
              capability |-> Capability(s), event |-> job[s], status |-> job[s],
              outputs |-> IF job[s] = "completed" THEN Outputs(s, url) ELSE {}]}
    BY <1>5 DEF Send
  <2>2. \A o \in IF job[s] = "completed" THEN Outputs(s, url) ELSE {} : o.url \in Urls
    BY DEF Outputs
  <2>3. SentMeant'
    BY <1>1, <2>1, <2>2 DEF SentMeant
  <2> QED
    BY <1>5, <2>3, Quiet DEF Send
<1>6. ASSUME NEW c \in Creations, AskCancel(c) PROVE CallbacksInv' /\ Stands
  BY <1>6, Asked
<1>7. ASSUME NEW m \in sent, Handle(m) PROVE CallbacksInv' /\ Stands
  <2>1. FactOf(m) \in Facts /\ (FactOf(m).terminal = "completed" => FactOf(m).url \in Urls)
    BY <1>1, <1>7, FactsOfCallbacks DEF Handle, Verified
  <2>2. m.nonce \in Nonces /\ SentMeant'
    BY <1>1, <1>7 DEF Handle, SentMeant
  <2>3. CASE FactOf(m).terminal = "completed" /\ CompleteFinal(m.nonce, FactOf(m))
    BY <2>1, <2>2, <2>3, FinalCompleted
  <2>4. CASE FactOf(m).terminal = "completed" /\ CompleteFrame(m.nonce, FactOf(m))
    BY <2>1, <2>2, <2>4, FrameCompleted
  <2>5. CASE FactOf(m).terminal # "completed" /\ Fail(m.nonce, FactOf(m))
    BY <2>1, <2>2, <2>5, Failed
  <2>6. CASE Confirm(m.nonce, FactOf(m))
    BY <2>1, <2>2, <2>6, Confirmed
  <2> QED
    BY <1>7, <2>3, <2>4, <2>5, <2>6 DEF Handle
<1>8. ASSUME Tick \/ UNCHANGED callbackVars PROVE CallbacksInv' /\ Stands
  <2>1. UNCHANGED <<creation, step, recipe, execution, asset, receipt, refunds, sent>>
    BY <1>8 DEF Tick, callbackVars
  <2>2. SentMeant'
    BY <1>1, <2>1 DEF SentMeant
  <2> QED
    BY <2>1, <2>2, Quiet
<1> QED
  BY <1>3, <1>4, <1>5, <1>6, <1>7, <1>8 DEF CallbacksNext

LEMMA CallbacksInvariant == CallbacksSpec => []CallbacksInv
<1>1. CallbacksInit => CallbacksInv
  BY CallbacksStart, CallbacksAssumption
<1>2. CallbacksInv /\ [CallbacksNext]_callbackVars => CallbacksInv'
  BY CallbackSteps, CallbacksAssumption
<1> QED
  BY <1>1, <1>2, PTL DEF CallbacksSpec

\* Whatever the service repeats, reorders or sends late: a result, its step,
\* its receipts, its creation and the refund agree, and a second step runs on
\* the frame the first one kept (the store's transactions of a verified
\* callback).
THEOREM CallbacksStaySafe == CallbacksSpec => []CallbacksSafe
BY CallbacksInvariant, InvariantSays, PTL

\* No callback changes a terminal that was taken, its result or what a nonce
\* stands for (the store's conditional updates and unique nonce).
THEOREM TerminalsStand == CallbacksSpec => TerminalStands
<1>1. CallbacksInv /\ [CallbacksNext]_callbackVars => Stands
  BY CallbackSteps, CallbacksAssumption
<1>2. CallbacksInv /\ [CallbacksNext]_callbackVars
        => [/\ \A s \in Steps : step[s].version = 2 => step'[s] = step[s] /\ asset'[s] = asset[s]
            /\ \A n \in Nonces : receipt[n] # NoFact => receipt'[n] = receipt[n]]_callbackVars
  BY <1>1 DEF Stands
<1> QED
  BY <1>2, CallbacksInvariant, PTL DEF CallbacksSpec, TerminalStands

\* Both together: what is believed of a creation agrees in every state, and
\* what was taken stays.
THEOREM CallbacksDoAgree == CallbacksSpec => CallbacksAgree
BY CallbacksStaySafe, TerminalsStand DEF CallbacksAgree
-----------------------------------------------------------------------------
(* The stream.                                                               *)

Event == [id : Nat, n : Nat]
Had == [id : Nat, n : Nat, life : Nat]

\* Events published before this process started.
Earlier == life.events - nextID

StreamShapes ==
    /\ nextID \in Nat /\ nextID <= life.events
    /\ life \in [events : Nat, restarts : Nat]
    /\ history \in Seq(Event)
    /\ got \in [Clients -> Seq(Had)]
    /\ DOMAIN channels \subseteq Clients
    /\ \A c \in DOMAIN channels : channels[c] \in Seq(Event) /\ Len(channels[c]) <= BufferSize

\* The last events of this process, without a gap; none but by their number.
HistoryMeant ==
    /\ Len(history) = IF nextID <= HistorySize THEN nextID ELSE HistorySize
    /\ \A i \in 1..Len(history) : /\ history[i].id = nextID - Len(history) + i
                                  /\ history[i].n = life.events - Len(history) + i

\* What comes after what at a client.
Succeeds(close, m, n) == m < n /\ (close => n = m + 1)

Got(c, i) == got[c][i].n
GotMeant(c) ==
    /\ \A i \in 1..Len(got[c]) :
        LET e == got[c][i]
        IN  IF e.life = life.restarts THEN e.id \in 1..nextID /\ e.n = e.id + Earlier
            ELSE e.life < life.restarts /\ e.n <= Earlier
    /\ \A i \in 1..(Len(got[c]) - 1) : Succeeds(c \notin excused, Got(c, i), Got(c, i + 1))

\* What a connection holds comes after what its client has, and nobody who is
\* not excused waits for anything else.
ChannelMeant(c) ==
    LET ch == channels[c]
    IN  /\ \A i \in 1..Len(ch) : ch[i].id \in 1..nextID /\ ch[i].n = ch[i].id + Earlier
        /\ \A i \in 1..(Len(ch) - 1) : Succeeds(c \notin excused, ch[i].n, ch[i + 1].n)
        /\ Len(ch) # 0 /\ Len(got[c]) # 0 => Succeeds(c \notin excused, Got(c, Len(got[c])), ch[1].n)
        /\ c \notin excused =>
              /\ Len(ch) # 0 => ch[Len(ch)].n = life.events
              /\ Len(ch) = 0 /\ Len(got[c]) # 0 => Got(c, Len(got[c])) = life.events

RealtimeInv ==
    /\ StreamShapes
    /\ HistoryMeant
    /\ \A c \in Clients : GotMeant(c)
    /\ \A c \in DOMAIN channels : ChannelMeant(c)
-----------------------------------------------------------------------------
\* The invariant says what a client has been told.
LEMMA StreamSays == RealtimeInv => StreamTellsInOrder
<1> SUFFICES ASSUME RealtimeInv, NEW c \in Clients, NEW i \in 1..(Len(got[c]) - 1)
             PROVE  /\ got[c][i].n < got[c][i + 1].n
                    /\ c \notin excused => got[c][i + 1].n = got[c][i].n + 1
  BY DEF StreamTellsInOrder
<1> QED
  BY DEF RealtimeInv, GotMeant, Got, Succeeds

LEMMA StreamStart == ASSUME RealtimeAssumption, RealtimeInit PROVE RealtimeInv
<1>1. StreamShapes
  BY EmptySeq DEF RealtimeInit, StreamShapes
<1>2. HistoryMeant
  BY DEF RealtimeInit, HistoryMeant, HistorySize, RealtimeAssumption
<1>3. ASSUME NEW c \in Clients PROVE GotMeant(c)
  <2>1. Len(got[c]) = 0
    BY DEF RealtimeInit
  <2> QED
    BY <2>1 DEF GotMeant
<1>4. DOMAIN channels = {}
  BY DEF RealtimeInit
<1> QED
  BY <1>1, <1>2, <1>3, <1>4 DEF RealtimeInv

\* An offer of one event: it is taken, or the channel is full.
LEMMA OfferOne ==
    ASSUME RealtimeAssumption, NEW ch \in Seq(Event), Len(ch) <= BufferSize, NEW e \in Event
    PROVE  /\ Len(ch) = BufferSize => Offered(ch, <<e>>) = ch
           /\ Len(ch) # BufferSize => Offered(ch, <<e>>) = Append(ch, e)
<1>1. Len(ch) \in Nat /\ <<e>> \in Seq(Event) /\ Len(<<e>>) = 1
  BY LenProperties
<1>2. CASE Len(ch) = BufferSize
  <2>1. SubSeq(<<e>>, 1, 0) = << >>
    BY SubSeqEmpty
  <2>2. Offered(ch, <<e>>) = ch \o SubSeq(<<e>>, 1, 0)
    BY <1>1, <1>2 DEF Offered, RealtimeAssumption
  <2> QED
    BY <1>2, <2>1, <2>2, ConcatEmptySeq
<1>3. CASE Len(ch) # BufferSize
  <2>1. Offered(ch, <<e>>) = ch \o SubSeq(<<e>>, 1, 1)
    <3>1. BufferSize - Len(ch) >= 1
      BY <1>1, <1>3 DEF RealtimeAssumption
    <3>2. (IF Len(<<e>>) > BufferSize - Len(ch) THEN BufferSize - Len(ch) ELSE Len(<<e>>)) = 1
      BY <1>1, <3>1 DEF RealtimeAssumption
    <3> QED
      BY <3>2 DEF Offered
  <2>2. SubSeq(<<e>>, 1, 1) = <<e>>
    BY <1>1, SubSeqFull
  <2>3. ch \o <<e>> = Append(ch, e)
    <3>1. /\ ch \o <<e>> \in Seq(Event) /\ Len(ch \o <<e>>) = Len(ch) + 1
          /\ \A i \in 1..(Len(ch) + 1) : (ch \o <<e>>)[i] = IF i <= Len(ch) THEN ch[i] ELSE <<e>>[i - Len(ch)]
      BY <1>1, ConcatProperties
    <3>2. /\ Append(ch, e) \in Seq(Event) /\ Len(Append(ch, e)) = Len(ch) + 1
          /\ \A i \in 1..(Len(ch) + 1) : Append(ch, e)[i] = IF i <= Len(ch) THEN ch[i] ELSE e
      OBVIOUS
    <3>3. \A i \in 1..(Len(ch) + 1) : (ch \o <<e>>)[i] = Append(ch, e)[i]
      BY <1>1, <3>1, <3>2
    <3> QED
      BY <3>1, <3>2, <3>3, SeqEqual
  <2> QED
    BY <1>3, <2>1, <2>2, <2>3
<1> QED
  BY <1>2, <1>3

\* A replay into a new channel: as many as it has room for, the first ones.
LEMMA OfferReplay ==
    ASSUME RealtimeAssumption, NEW r \in Seq(Event)
    PROVE  LET k == IF Len(r) > BufferSize THEN BufferSize ELSE Len(r)
           IN  /\ Offered(<< >>, r) \in Seq(Event)
               /\ Len(Offered(<< >>, r)) = k
               /\ \A i \in 1..k : Offered(<< >>, r)[i] = r[i]
<1> DEFINE k == IF Len(r) > BufferSize THEN BufferSize ELSE Len(r)
<1>1. Len(r) \in Nat /\ k \in Nat /\ k <= Len(r)
  BY LenProperties DEF RealtimeAssumption
<1>2. Offered(<< >>, r) = << >> \o SubSeq(r, 1, k)
  <2>1. BufferSize - Len(<< >>) = BufferSize
    BY DEF RealtimeAssumption
  <2> QED
    BY <2>1 DEF Offered
<1> HIDE DEF k
<1>3. \A i \in 1..k : r[i] \in Event
  BY <1>1, ElementOfSeq
<1>4. /\ SubSeq(r, 1, k) \in Seq(Event)
      /\ Len(SubSeq(r, 1, k)) = k
      /\ \A i \in 1..k : SubSeq(r, 1, k)[i] = r[i]
  <2>1. /\ SubSeq(r, 1, k) \in Seq(Event)
        /\ Len(SubSeq(r, 1, k)) = IF 1 <= k THEN k - 1 + 1 ELSE 0
        /\ \A i \in 1..(k - 1 + 1) : SubSeq(r, 1, k)[i] = r[1 + i - 1]
    BY <1>1, <1>3, SubSeqProperties
  <2> QED
    BY <1>1, <2>1
<1>5. Offered(<< >>, r) = SubSeq(r, 1, k)
  BY <1>2, <1>4, ConcatEmptySeq
<1> QED
  BY <1>4, <1>5 DEF k
-----------------------------------------------------------------------------
\* What a client has is not touched by a step that leaves the process alone.
LEMMA SameGot ==
    ASSUME RealtimeInv, NEW c \in Clients, got'[c] = got[c],
           life'.restarts = life.restarts, Earlier' = Earlier,
           nextID' \in Nat, nextID <= nextID', excused \subseteq excused'
    PROVE  GotMeant(c)'
<1>1. GotMeant(c) /\ nextID \in Nat
  BY DEF RealtimeInv, StreamShapes
<1>2. ASSUME NEW i \in 1..Len(got'[c])
      PROVE  IF got'[c][i].life = life'.restarts
             THEN got'[c][i].id \in 1..nextID' /\ got'[c][i].n = got'[c][i].id + Earlier'
             ELSE got'[c][i].life < life'.restarts /\ got'[c][i].n <= Earlier'
  <2>1. i \in 1..Len(got[c]) /\ got'[c][i] = got[c][i]
    OBVIOUS
  <2>2. IF got[c][i].life = life.restarts THEN got[c][i].id \in 1..nextID /\ got[c][i].n = got[c][i].id + Earlier
        ELSE got[c][i].life < life.restarts /\ got[c][i].n <= Earlier
    BY <1>1, <2>1 DEF GotMeant
  <2> QED
    BY <1>1, <2>1, <2>2
<1>3. \A i \in 1..(Len(got'[c]) - 1) : Succeeds(c \notin excused', got'[c][i].n, got'[c][i + 1].n)
  <2> SUFFICES ASSUME NEW i \in 1..(Len(got[c]) - 1) PROVE Succeeds(c \notin excused', got'[c][i].n, got'[c][i + 1].n)
    OBVIOUS
  <2>1. Succeeds(c \notin excused, got[c][i].n, got[c][i + 1].n)
    BY <1>1 DEF GotMeant, Got
  <2> QED
    BY <2>1 DEF Succeeds, Got
<1> QED
  BY <1>2, <1>3 DEF GotMeant, Got

\* A channel is what it was.
LEMMA SameChannel ==
    ASSUME RealtimeInv, NEW c \in DOMAIN channels, channels'[c] = channels[c], got'[c] = got[c],
           Earlier' = Earlier, nextID' \in Nat, nextID <= nextID', excused \subseteq excused',
           c \in excused' \/ life'.events = life.events
    PROVE  ChannelMeant(c)'
<1>1. ChannelMeant(c) /\ nextID \in Nat
  BY DEF RealtimeInv, StreamShapes
<1> QED
  BY <1>1 DEF ChannelMeant, Succeeds, Got
-----------------------------------------------------------------------------
\* The history keeps the last events, with the new one at its end.
LEMMA HistoryGrows ==
    ASSUME RealtimeAssumption, RealtimeInv, Publish
    PROVE  history' \in Seq(Event) /\ HistoryMeant'
<1> DEFINE event == [id |-> nextID + 1, n |-> life.events + 1]
           longer == Append(history, event)
<1>1. /\ nextID \in Nat /\ life \in [events : Nat, restarts : Nat] /\ history \in Seq(Event)
      /\ nextID <= life.events /\ HistorySize \in Nat \ {0} /\ Len(history) \in Nat
  BY LenProperties DEF RealtimeInv, StreamShapes, HistorySize, RealtimeAssumption
<1>2. /\ event \in Event /\ event.id = nextID + 1 /\ event.n = life.events + 1
      /\ nextID' = nextID + 1 /\ life'.events = life.events + 1
      /\ history' = Newest(longer, HistorySize)
  BY <1>1 DEF Publish, Event
<1> HIDE DEF event
<1>3. /\ longer \in Seq(Event) /\ Len(longer) = Len(history) + 1
      /\ \A i \in 1..Len(history) : longer[i] = history[i]
      /\ longer[Len(history) + 1] = event
  BY <1>1, <1>2
<1> HIDE DEF longer
<1>4. \A i \in 1..Len(longer) : /\ longer[i].id = nextID + 1 - Len(longer) + i
                                /\ longer[i].n = life.events + 1 - Len(longer) + i
  <2> SUFFICES ASSUME NEW i \in 1..Len(longer)
               PROVE  /\ longer[i].id = nextID + 1 - Len(longer) + i
                      /\ longer[i].n = life.events + 1 - Len(longer) + i
    OBVIOUS
  <2>1. CASE i \in 1..Len(history)
    <3>1. /\ history[i].id = nextID - Len(history) + i
          /\ history[i].n = life.events - Len(history) + i
      BY <2>1 DEF RealtimeInv, HistoryMeant
    <3> QED
      BY <3>1, <2>1, <1>1, <1>3
  <2>2. CASE i = Len(history) + 1
    BY <2>2, <1>1, <1>2, <1>3
  <2> QED
    BY <2>1, <2>2, <1>1, <1>3
<1>5. CASE Len(longer) > HistorySize
  <2> DEFINE m == Len(longer) - HistorySize + 1
  <2>1. history' = SubSeq(longer, m, Len(longer)) /\ m \in 1..Len(longer)
    BY <1>1, <1>2, <1>3, <1>5 DEF Newest
  <2>2. Len(longer) - m + 1 = HistorySize /\ m <= Len(longer) /\ m \in Int /\ Len(longer) \in Int
    BY <1>1, <1>3, <1>5
  <2> HIDE DEF m
  <2>3. \A i \in m..Len(longer) : longer[i] \in Event
    BY <1>3, <2>1, <2>2, ElementOfSeq
  <2>4. /\ history' \in Seq(Event) /\ Len(history') = HistorySize
        /\ \A i \in 1..HistorySize : history'[i] = longer[m + i - 1]
    BY <2>1, <2>2, <2>3, SubSeqProperties
  <2>5. Len(history) = HistorySize /\ nextID >= HistorySize
    BY <1>1, <1>3, <1>5 DEF RealtimeInv, HistoryMeant
  <2>6. m = 2
    BY <1>1, <1>3, <2>5 DEF m
  <2>7. ASSUME NEW i \in 1..Len(history')
        PROVE  /\ history'[i].id = nextID' - Len(history') + i
               /\ history'[i].n = life'.events - Len(history') + i
    <3>1. history'[i] = longer[i + 1] /\ i + 1 \in 1..Len(longer)
      BY <2>4, <2>5, <2>6, <1>1, <1>3
    <3>2. /\ longer[i + 1].id = nextID + 1 - Len(longer) + (i + 1)
          /\ longer[i + 1].n = life.events + 1 - Len(longer) + (i + 1)
      BY <3>1, <1>4
    <3> QED
      BY <3>1, <3>2, <2>4, <2>5, <1>1, <1>2, <1>3
  <2>8. Len(history') = IF nextID' <= HistorySize THEN nextID' ELSE HistorySize
    BY <2>4, <2>5, <1>1, <1>2
  <2>9. HistorySize' = HistorySize
    BY DEF HistorySize
  <2> QED
    BY <2>4, <2>7, <2>8, <2>9 DEF HistoryMeant
<1>6. CASE ~(Len(longer) > HistorySize)
  <2>1. history' = longer
    BY <1>2, <1>6 DEF Newest
  <2>2. Len(history) = nextID /\ nextID + 1 <= HistorySize
    BY <1>1, <1>3, <1>6 DEF RealtimeInv, HistoryMeant
  <2>3. HistorySize' = HistorySize
    BY DEF HistorySize
  <2> QED
    <3>1. Len(history') = nextID' /\ nextID' <= HistorySize
      BY <2>1, <2>2, <1>1, <1>2, <1>3
    <3>2. \A i \in 1..Len(history') : /\ history'[i].id = nextID' - Len(history') + i
                                      /\ history'[i].n = life'.events - Len(history') + i
      <4>1. Len(longer) \in Nat
        BY <1>1, <1>3
      <4>2. nextID' = nextID + 1 /\ life'.events = life.events + 1
        BY <1>2
      <4>3. ASSUME NEW i \in 1..Len(longer)
            PROVE  /\ longer[i].id = nextID' - Len(longer) + i
                   /\ longer[i].n = life'.events - Len(longer) + i
        <5>1. /\ longer[i].id = nextID + 1 - Len(longer) + i
              /\ longer[i].n = life.events + 1 - Len(longer) + i
          BY <1>4
        <5> QED
          BY <5>1, <4>1, <4>2, <1>1
      <4> QED
        BY <2>1, <4>3
    <3> QED
      BY <3>1, <3>2, <2>1, <2>3, <1>3 DEF HistoryMeant
<1> QED
  BY <1>5, <1>6

\* Publishing: every channel with room gets the event after what it holds.
LEMMA Published ==
    ASSUME RealtimeAssumption, RealtimeInv, Publish
    PROVE  RealtimeInv'
<1> DEFINE event == [id |-> nextID + 1, n |-> life.events + 1]
<1>1. /\ nextID \in Nat /\ life \in [events : Nat, restarts : Nat] /\ nextID <= life.events
      /\ got \in [Clients -> Seq(Had)] /\ DOMAIN channels \subseteq Clients
      /\ \A c \in DOMAIN channels : channels[c] \in Seq(Event) /\ Len(channels[c]) <= BufferSize
  BY DEF RealtimeInv, StreamShapes
<1>2. /\ event \in Event /\ event.id = nextID + 1 /\ event.n = life.events + 1
      /\ nextID' = nextID + 1 /\ got' = got
      /\ channels' = [c \in DOMAIN channels |-> Offered(channels[c], <<event>>)]
      /\ excused' = excused \cup {c \in DOMAIN channels : Len(channels[c]) = BufferSize}
  BY <1>1 DEF Publish, Event
<1>3. /\ life' \in [events : Nat, restarts : Nat]
      /\ life'.events = life.events + 1 /\ life'.restarts = life.restarts
  <2>1. life' = [life EXCEPT !.events = life.events + 1]
    BY DEF Publish
  <2>2. /\ life \in [events : Nat, restarts : Nat]
        /\ life.events \in Nat /\ life.events + 1 \in Nat
    BY <1>1
  <2> QED
    BY <2>1, <2>2
<1> HIDE DEF event
<1>4. Earlier' = Earlier /\ excused \subseteq excused' /\ nextID' \in Nat /\ nextID <= nextID'
  BY <1>1, <1>2, <1>3 DEF Earlier
<1>5. DOMAIN channels' = DOMAIN channels
  BY <1>2
<1>6. ASSUME NEW c \in DOMAIN channels
      PROVE  channels'[c] \in Seq(Event) /\ Len(channels'[c]) <= BufferSize /\ ChannelMeant(c)'
  <2>1. /\ channels[c] \in Seq(Event) /\ Len(channels[c]) <= BufferSize /\ Len(channels[c]) \in Nat
        /\ channels'[c] = Offered(channels[c], <<event>>) /\ c \in Clients /\ got[c] \in Seq(Had)
    BY <1>1, <1>2, LenProperties
  <2>2. CASE Len(channels[c]) = BufferSize
    <3>1. channels'[c] = channels[c]
      BY <1>2, <2>1, <2>2, OfferOne
    <3>2. ChannelMeant(c)'
      BY <1>2, <1>4, <2>2, <3>1, SameChannel
    <3> QED
      BY <2>1, <3>1, <3>2
  <2>3. CASE Len(channels[c]) # BufferSize
    <3>1. channels'[c] = Append(channels[c], event)
      BY <1>2, <2>1, <2>3, OfferOne
    <3> DEFINE ch == channels[c]
               k == Len(ch)
    <3>2. /\ channels'[c] \in Seq(Event) /\ Len(channels'[c]) = k + 1 /\ k \in Nat /\ k + 1 <= BufferSize
          /\ \A i \in 1..k : channels'[c][i] = ch[i]
          /\ channels'[c][k + 1] = event
      <4>1. k \in Nat /\ k + 1 <= BufferSize
        BY <2>1, <2>3 DEF RealtimeAssumption
      <4>2. /\ Append(ch, event) \in Seq(Event) /\ Len(Append(ch, event)) = k + 1
            /\ \A i \in 1..k : Append(ch, event)[i] = ch[i]
            /\ Append(ch, event)[k + 1] = event
        BY <1>2, <2>1
      <4> QED
        BY <3>1, <4>1, <4>2
    <3>3. c \in excused' <=> c \in excused
      BY <1>2, <2>3
    <3>4. /\ \A i \in 1..k : ch[i].id \in 1..nextID /\ ch[i].n = ch[i].id + Earlier
          /\ \A i \in 1..(k - 1) : Succeeds(c \notin excused, ch[i].n, ch[i + 1].n)
          /\ k # 0 /\ Len(got[c]) # 0 => Succeeds(c \notin excused, Got(c, Len(got[c])), ch[1].n)
          /\ c \notin excused =>
              /\ k # 0 => ch[k].n = life.events
              /\ k = 0 /\ Len(got[c]) # 0 => Got(c, Len(got[c])) = life.events
      BY DEF RealtimeInv, ChannelMeant
    <3> HIDE DEF ch, k
    <3>5. ASSUME NEW i \in 1..(k + 1)
          PROVE  channels'[c][i].id \in 1..nextID' /\ channels'[c][i].n = channels'[c][i].id + Earlier'
      <4>1. CASE i \in 1..k
        <5>1. channels'[c][i] = ch[i] /\ ch[i].id \in 1..nextID /\ ch[i].n = ch[i].id + Earlier
          BY <4>1, <3>2, <3>4
        <5> QED
          BY <5>1, <1>1, <1>4
      <4>2. CASE i = k + 1
        BY <4>2, <3>2, <1>1, <1>2, <1>4 DEF Earlier
      <4>3. k \in Nat /\ (i \in 1..k \/ i = k + 1)
        BY <3>2
      <4> QED
        BY <4>1, <4>2, <4>3
    <3>6. \A i \in 1..k : ch[i].n <= life.events
      BY <3>4, <1>1 DEF Earlier
    <3>7. ASSUME NEW i \in 1..k PROVE Succeeds(c \notin excused', channels'[c][i].n, channels'[c][i + 1].n)
      <4>1. CASE i \in 1..(k - 1)
        <5>3. k \in Nat /\ i \in 1..k /\ i + 1 \in 1..k
          BY <4>1, <3>2
        <5>1. channels'[c][i] = ch[i] /\ channels'[c][i + 1] = ch[i + 1]
          BY <5>3, <3>2
        <5>2. Succeeds(c \notin excused, ch[i].n, ch[i + 1].n)
          BY <4>1, <3>4
        <5> QED
          BY <5>1, <5>2, <3>3 DEF Succeeds
      <4>2. CASE i = k
        <5>1. channels'[c][i] = ch[k] /\ channels'[c][i + 1].n = life.events + 1
          BY <4>2, <3>2, <1>2
        <5>2. ch[k].n <= life.events /\ ch[k].n \in Int /\ (c \notin excused => ch[k].n = life.events)
          <6>1. k \in 1..k /\ k # 0
            BY <4>2, <3>2
          <6>2. ch[k].id \in 1..nextID /\ ch[k].n = ch[k].id + Earlier
            BY <6>1, <3>4
          <6> QED
            BY <6>1, <6>2, <3>4, <3>6, <1>1 DEF Earlier
        <5> QED
          BY <5>1, <5>2, <3>3, <1>1 DEF Succeeds
      <4> QED
        BY <4>1, <4>2, <3>2
    <3>8. Len(got[c]) # 0 => Succeeds(c \notin excused', Got(c, Len(got[c])), channels'[c][1].n)
      <4> SUFFICES ASSUME Len(got[c]) # 0 PROVE Succeeds(c \notin excused', Got(c, Len(got[c])), channels'[c][1].n)
        OBVIOUS
      <4>2. CASE k # 0
        <5>1. channels'[c][1] = ch[1]
          BY <4>2, <3>2
        <5>2. Succeeds(c \notin excused, Got(c, Len(got[c])), ch[1].n)
          BY <4>2, <3>4
        <5> QED
          BY <5>1, <5>2, <3>3 DEF Succeeds
      <4>3. CASE k = 0
        <5>1. channels'[c][1].n = life.events + 1
          BY <4>3, <3>2, <1>2
        <5>2. Got(c, Len(got[c])) <= life.events /\ Got(c, Len(got[c])) \in Nat
          <6>1. Len(got[c]) \in 1..Len(got[c]) /\ got[c][Len(got[c])] \in Had
            BY <2>1, LenProperties, ElementOfSeq
          <6>2. LET e == got[c][Len(got[c])]
                IN  IF e.life = life.restarts THEN e.id \in 1..nextID /\ e.n = e.id + Earlier
                    ELSE e.life < life.restarts /\ e.n <= Earlier
            BY <6>1, <2>1 DEF RealtimeInv, GotMeant
          <6> QED
            BY <6>1, <6>2, <1>1 DEF Got, Had, Earlier
        <5> QED
          BY <5>1, <5>2, <4>3, <3>3, <3>4, <1>1 DEF Succeeds
      <4> QED
        BY <4>2, <4>3
    <3>9. ChannelMeant(c)'
      <4>1. Len(channels'[c]) = k + 1 /\ k \in Nat /\ channels'[c][k + 1].n = life'.events
        BY <3>2, <1>2, <1>3
      <4>2. Len(got'[c]) = Len(got[c])
        BY <1>2
      <4>3. Got(c, Len(got[c]))' = Got(c, Len(got[c]))
        BY <1>2 DEF Got
      <4>4. \A i \in 1..Len(channels'[c]) : channels'[c][i].id \in 1..nextID' /\ channels'[c][i].n = channels'[c][i].id + Earlier'
        BY <4>1, <3>5
      <4>5. \A i \in 1..(Len(channels'[c]) - 1) : Succeeds(c \notin excused', channels'[c][i].n, channels'[c][i + 1].n)
        BY <4>1, <3>7
      <4>6. Len(got'[c]) # 0 => Succeeds(c \notin excused', Got(c, Len(got[c]))', channels'[c][1].n)
        BY <4>2, <4>3, <3>8
      <4>7. Len(channels'[c]) # 0 /\ channels'[c][Len(channels'[c])].n = life'.events
        BY <4>1
      <4> QED
        BY <4>2, <4>4, <4>5, <4>6, <4>7, <1>2 DEF ChannelMeant, Got
    <3> QED
      BY <3>2, <3>9
  <2> QED
    BY <2>2, <2>3
<1>7. StreamShapes'
  <2>1. nextID' <= life'.events
    BY <1>1, <1>2, <1>3
  <2>2. \A c \in DOMAIN channels' : channels'[c] \in Seq(Event) /\ Len(channels'[c]) <= BufferSize
    BY <1>5, <1>6
  <2>3. history' \in Seq(Event)
    BY HistoryGrows
  <2>4. got' \in [Clients -> Seq(Had)] /\ DOMAIN channels' \subseteq Clients
    BY <1>1, <1>2, <1>5
  <2> QED
    BY <2>1, <2>2, <2>3, <2>4, <1>3, <1>4 DEF StreamShapes
<1>8. \A c \in Clients : GotMeant(c)'
  BY <1>2, <1>3, <1>4, SameGot
<1> QED
  BY <1>5, <1>6, <1>7, <1>8, HistoryGrows DEF RealtimeInv

\* The number of the last event a client has, where it may resume.
LEMMA LatestMeant ==
    ASSUME RealtimeInv, NEW c \in Clients, Len(got[c]) # 0
    PROVE  /\ Len(got[c]) \in 1..Len(got[c]) /\ LastGot(got[c]) = got[c][Len(got[c])]
           /\ LastGot(got[c]) \in Had
           /\ IF LastGot(got[c]).life = life.restarts
              THEN LastGot(got[c]).id \in 1..nextID /\ LastGot(got[c]).n = LastGot(got[c]).id + Earlier
              ELSE LastGot(got[c]).life < life.restarts /\ LastGot(got[c]).n <= Earlier
<1>1. got[c] \in Seq(Had) /\ GotMeant(c)
  BY DEF RealtimeInv, StreamShapes
<1>2. Len(got[c]) \in 1..Len(got[c])
  BY <1>1, LenProperties
<1>3. LastGot(got[c]) = got[c][Len(got[c])]
  BY DEF LastGot
<1>4. got[c][Len(got[c])] \in Had
  BY <1>1, <1>2, ElementOfSeq
<1> QED
  BY <1>1, <1>2, <1>3, <1>4 DEF GotMeant

\* What is replayed after an event: the later ones of the history in order, all
\* of them if the event is there.
LEMMA Replayed ==
    ASSUME RealtimeAssumption, RealtimeInv, NEW lastID \in Nat
    PROVE  LET r == eventsAfter(lastID)
           IN  /\ r \in Seq(Event) /\ Len(r) \in Nat /\ Len(r) <= nextID
               /\ \A i \in 1..Len(r) : /\ r[i].id = nextID - Len(r) + i
                                       /\ r[i].n = life.events - Len(r) + i
               /\ Len(r) # 0 => r[1].id = lastID + 1
               /\ lastID <= nextID /\ lastID > nextID - Len(history) => Len(r) = nextID - lastID
<1> DEFINE from == {i \in DOMAIN history : history[i].id = lastID}
<1>1. /\ nextID \in Nat /\ life.events \in Nat /\ nextID <= life.events
      /\ history \in Seq(Event) /\ Len(history) \in Nat /\ DOMAIN history = 1..Len(history)
      /\ Len(history) <= nextID
  BY LenProperties DEF RealtimeInv, StreamShapes, HistoryMeant, HistorySize, RealtimeAssumption
<1>2. \A i \in 1..Len(history) : /\ history[i].id = nextID - Len(history) + i
                                 /\ history[i].n = life.events - Len(history) + i
  BY DEF RealtimeInv, HistoryMeant
<1>3. CASE from = {}
  <2>1. eventsAfter(lastID) = << >>
    BY <1>3 DEF eventsAfter
  <2>2. ~(lastID <= nextID /\ lastID > nextID - Len(history))
    <3> SUFFICES ASSUME lastID <= nextID, lastID > nextID - Len(history) PROVE FALSE
      OBVIOUS
    <3>1. lastID - nextID + Len(history) \in 1..Len(history)
      BY <1>1
    <3>2. history[lastID - nextID + Len(history)].id = lastID
      BY <1>1, <1>2, <3>1
    <3> QED
      BY <1>1, <1>3, <3>1, <3>2
  <2>3. << >> \in Seq(Event) /\ Len(<< >>) = 0
    BY EmptySeq
  <2> QED
    BY <2>1, <2>2, <2>3, <1>1
<1>4. CASE from # {}
  <2>1. PICK k : k = CHOOSE i \in from : TRUE
    OBVIOUS
  <2>2. k \in 1..Len(history) /\ history[k].id = lastID
    BY <1>1, <1>4, <2>1
  <2>3. eventsAfter(lastID) = SubSeq(history, 1 + k, Len(history))
    BY <1>4, <2>1 DEF eventsAfter
  <2>4. lastID = nextID - Len(history) + k
    BY <1>2, <2>2
  <2>5. PICK r : r = SubSeq(history, 1 + k, Len(history))
    OBVIOUS
  <2>6. 1 + k \in Int /\ Len(history) \in Int /\ k \in Nat /\ k <= Len(history)
    BY <1>1, <2>2
  <2>7. \A i \in (1 + k)..Len(history) : history[i] \in Event
    <3> TAKE i \in (1 + k)..Len(history)
    <3>1. i \in 1..Len(history)
      BY <1>1, <2>6
    <3> QED
      BY <1>1, <3>1, ElementOfSeq
  <2>8. /\ r \in Seq(Event)
        /\ Len(r) = IF 1 + k <= Len(history) THEN Len(history) - (1 + k) + 1 ELSE 0
        /\ \A i \in 1..(Len(history) - (1 + k) + 1) : r[i] = history[1 + k + i - 1]
    BY <2>5, <2>6, <2>7, SubSeqProperties
  <2>9. Len(r) = Len(history) - k
    BY <2>6, <2>8
  <2>10. \A i \in 1..Len(r) : r[i] = history[k + i] /\ k + i \in 1..Len(history)
    <3> TAKE i \in 1..Len(r)
    <3>1. i \in 1..(Len(history) - (1 + k) + 1) /\ 1 + k + i - 1 = k + i
      BY <2>6, <2>9
    <3> QED
      BY <2>6, <2>8, <2>9, <3>1
  <2>11. ASSUME NEW i \in 1..Len(r)
         PROVE  r[i].id = nextID - Len(r) + i /\ r[i].n = life.events - Len(r) + i
    <3>1. /\ r[i] = history[k + i]
          /\ history[k + i].id = nextID - Len(history) + (k + i)
          /\ history[k + i].n = life.events - Len(history) + (k + i)
      BY <2>10, <1>2
    <3> QED
      BY <3>1, <2>6, <2>9, <1>1
  <2>12. Len(r) # 0 => r[1].id = lastID + 1
    BY <2>4, <2>6, <2>9, <2>11, <1>1
  <2>13. Len(r) = nextID - lastID /\ Len(r) \in Nat /\ Len(r) <= nextID
    BY <2>4, <2>6, <2>9, <1>1
  <2> QED
    BY <2>3, <2>5, <2>8, <2>11, <2>12, <2>13
<1> QED
  BY <1>3, <1>4

\* The first events of a replay, in a channel that was empty.
LEMMA ReplayMeant ==
    ASSUME RealtimeAssumption, RealtimeInv, NEW c \in Clients, NEW r \in Seq(Event),
           Len(r) \in Nat, Len(r) <= nextID,
           \A i \in 1..Len(r) : r[i].id = nextID - Len(r) + i /\ r[i].n = life.events - Len(r) + i,
           c \in DOMAIN channels', channels'[c] = Offered(<< >>, r),
           UNCHANGED <<nextID, life, got>>,
           Len(r) # 0 /\ Len(got[c]) # 0 => Succeeds(c \notin excused', Got(c, Len(got[c])), r[1].n),
           c \notin excused' =>
               /\ Len(r) <= BufferSize
               /\ Len(r) = 0 /\ Len(got[c]) # 0 => Got(c, Len(got[c])) = life.events
    PROVE  channels'[c] \in Seq(Event) /\ Len(channels'[c]) <= BufferSize /\ ChannelMeant(c)'
<1>1. nextID \in Nat /\ life.events \in Nat /\ BufferSize \in Nat /\ BufferSize >= 1
  BY DEF RealtimeInv, StreamShapes, RealtimeAssumption
<1>2. PICK k : k = IF Len(r) > BufferSize THEN BufferSize ELSE Len(r)
  OBVIOUS
<1>3. /\ channels'[c] \in Seq(Event) /\ Len(channels'[c]) = k
      /\ \A i \in 1..k : channels'[c][i] = r[i]
  BY <1>2, OfferReplay
<1>4. k \in Nat /\ k <= Len(r) /\ k <= BufferSize /\ (k = 0 <=> Len(r) = 0)
  BY <1>1, <1>2
<1>5. ASSUME NEW i \in 1..k
      PROVE  channels'[c][i].id \in 1..nextID' /\ channels'[c][i].n = channels'[c][i].id + Earlier'
  <2>1. channels'[c][i].id = nextID - Len(r) + i /\ channels'[c][i].n = life.events - Len(r) + i
    BY <1>3, <1>4
  <2> QED
    BY <2>1, <1>1, <1>4 DEF Earlier
<1>6. ASSUME NEW i \in 1..(k - 1) PROVE Succeeds(c \notin excused', channels'[c][i].n, channels'[c][i + 1].n)
  <2>1. i \in 1..Len(r) /\ i + 1 \in 1..Len(r) /\ i \in 1..k /\ i + 1 \in 1..k
    BY <1>4
  <2>2. channels'[c][i].n = life.events - Len(r) + i /\ channels'[c][i + 1].n = life.events - Len(r) + (i + 1)
    BY <1>3, <2>1
  <2>3. /\ life.events - Len(r) + i < life.events - Len(r) + (i + 1)
        /\ life.events - Len(r) + (i + 1) = (life.events - Len(r) + i) + 1
    BY <1>1
  <2> QED
    BY <2>2, <2>3 DEF Succeeds
<1>7. Len(got'[c]) = Len(got[c]) /\ Got(c, Len(got[c]))' = Got(c, Len(got[c])) /\ life'.events = life.events
  BY DEF Got
<1>8. k # 0 /\ Len(got[c]) # 0 => Succeeds(c \notin excused', Got(c, Len(got[c])), channels'[c][1].n)
  BY <1>3, <1>4
<1>9. c \notin excused' /\ k # 0 => channels'[c][k].n = life.events
  <2> SUFFICES ASSUME c \notin excused', k # 0 PROVE channels'[c][k].n = life.events
    OBVIOUS
  <2>1. k = Len(r) /\ k \in 1..Len(r) /\ k \in 1..k
    BY <1>1, <1>2, <1>4
  <2>2. channels'[c][k].n = life.events - Len(r) + k
    BY <1>3, <2>1
  <2> QED
    BY <2>1, <2>2, <1>1
<1>10. c \notin excused' /\ k = 0 /\ Len(got[c]) # 0 => Got(c, Len(got[c])) = life.events
  BY <1>4
<1>11. ChannelMeant(c)'
  BY <1>3, <1>5, <1>6, <1>7, <1>8, <1>9, <1>10 DEF ChannelMeant, Got
<1> QED
  BY <1>3, <1>4, <1>11

\* A client that connects: what it is replayed follows what it has, and is all
\* that it lacks unless it is excused.
LEMMA Subscribed ==
    ASSUME RealtimeAssumption, RealtimeInv, NEW c \in Clients, SubscribeSince(c)
    PROVE  RealtimeInv'
<1> DEFINE replay == IF got[c] = << >> THEN << >> ELSE eventsAfter(LastGot(got[c]).id)
<1>1. /\ nextID \in Nat /\ life \in [events : Nat, restarts : Nat] /\ nextID <= life.events
      /\ got[c] \in Seq(Had) /\ Len(got[c]) \in Nat /\ (got[c] = << >> <=> Len(got[c]) = 0)
      /\ DOMAIN channels \subseteq Clients
      /\ BufferSize \in Nat /\ BufferSize >= 1
  BY EmptySeq, LenProperties DEF RealtimeInv, StreamShapes, RealtimeAssumption
<1>2. /\ c \notin DOMAIN channels /\ DOMAIN channels' = DOMAIN channels \cup {c}
      /\ channels'[c] = Offered(<< >>, replay)
      /\ \A d \in DOMAIN channels : channels'[d] = channels[d]
      /\ excused \subseteq excused'
      /\ c \notin excused' => (got[c] # << >> => LastGot(got[c]).life = life.restarts /\ Behind(c) <= BufferSize)
      /\ UNCHANGED <<nextID, history, got, life>>
  BY DEF SubscribeSince
<1> HIDE DEF replay
<1>3. channels'[c] \in Seq(Event) /\ Len(channels'[c]) <= BufferSize /\ ChannelMeant(c)'
  <2>1. CASE Len(got[c]) = 0
    <3>1. replay = << >> /\ << >> \in Seq(Event) /\ Len(<< >>) = 0
      BY <2>1, <1>1, EmptySeq DEF replay
    <3>2. channels'[c] = Offered(<< >>, << >>)
      BY <3>1, <1>2
    <3> QED
      BY <3>1, <3>2, <2>1, <1>1, <1>2, ReplayMeant
  <2>2. CASE Len(got[c]) # 0
    <3>1. PICK e \in Had : e = LastGot(got[c])
      BY <2>2, LatestMeant
    <3>2. /\ Got(c, Len(got[c])) = e.n /\ e.id \in Nat /\ e.n \in Nat
          /\ IF e.life = life.restarts THEN e.id \in 1..nextID /\ e.n = e.id + Earlier
             ELSE e.life < life.restarts /\ e.n <= Earlier
      BY <2>2, <3>1, LatestMeant DEF Got, Had
    <3>3. PICK r : r = eventsAfter(e.id)
      OBVIOUS
    <3>4. replay = r
      BY <2>2, <1>1, <3>1, <3>3 DEF replay
    <3>5. /\ r \in Seq(Event) /\ Len(r) \in Nat /\ Len(r) <= nextID
          /\ \A i \in 1..Len(r) : r[i].id = nextID - Len(r) + i /\ r[i].n = life.events - Len(r) + i
          /\ Len(r) # 0 => r[1].id = e.id + 1
          /\ e.id <= nextID /\ e.id > nextID - Len(history) => Len(r) = nextID - e.id
      BY <3>2, <3>3, Replayed
    <3>6. Len(r) # 0 => r[1].n = e.id + 1 + Earlier
      BY <3>5, <1>1 DEF Earlier
    <3>7. c \notin excused' => e.life = life.restarts /\ life.events - e.n <= BufferSize
      BY <1>1, <1>2, <2>2, <3>1 DEF Behind
    <3>8. Len(r) # 0 => Succeeds(c \notin excused', e.n, r[1].n)
      BY <3>2, <3>6, <3>7, <1>1 DEF Succeeds, Earlier
    <3>9. c \notin excused' => Len(r) = nextID - e.id /\ Len(r) <= BufferSize /\ (Len(r) = 0 => e.n = life.events)
      <4> SUFFICES ASSUME c \notin excused'
                   PROVE  Len(r) = nextID - e.id /\ Len(r) <= BufferSize /\ (Len(r) = 0 => e.n = life.events)
        OBVIOUS
      <4>1. e.id \in 1..nextID /\ e.n = e.id + Earlier /\ life.events - e.n <= BufferSize
        BY <3>2, <3>7
      <4>2. nextID - e.id <= BufferSize
        BY <4>1, <1>1 DEF Earlier
      <4>3. Len(history) = (IF nextID <= HistorySize THEN nextID ELSE HistorySize) /\ HistorySize = 4 * BufferSize
        BY DEF RealtimeInv, HistoryMeant, HistorySize
      <4>4. e.id > nextID - Len(history)
        BY <4>1, <4>2, <4>3, <1>1
      <4> QED
        BY <4>1, <4>2, <4>4, <3>5, <1>1 DEF Earlier
    <3>10. channels'[c] = Offered(<< >>, r)
      BY <1>2, <3>4
    <3>11. c \in DOMAIN channels'
      BY <1>2
    <3> QED
      BY <3>2, <3>5, <3>8, <3>9, <3>10, <3>11, <1>2, ReplayMeant
  <2> QED
    BY <2>1, <2>2
<1>4. ASSUME NEW d \in DOMAIN channels PROVE ChannelMeant(d)'
  <2>1. /\ Earlier' = Earlier /\ nextID' = nextID /\ life'.events = life.events /\ got'[d] = got[d]
        /\ channels'[d] = channels[d]
    BY <1>2 DEF Earlier
  <2> QED
    BY <2>1, <1>1, <1>2, SameChannel
<1>5. \A d \in Clients : GotMeant(d)'
  <2>1. Earlier' = Earlier /\ life'.restarts = life.restarts /\ nextID' = nextID /\ got' = got
    BY <1>2 DEF Earlier
  <2> QED
    BY <2>1, <1>1, <1>2, SameGot
<1>6. StreamShapes'
  <2>1. DOMAIN channels' \subseteq Clients
    BY <1>1, <1>2
  <2>2. \A d \in DOMAIN channels' : channels'[d] \in Seq(Event) /\ Len(channels'[d]) <= BufferSize
    BY <1>2, <1>3 DEF RealtimeInv, StreamShapes
  <2> QED
    BY <2>1, <2>2, <1>2 DEF RealtimeInv, StreamShapes
<1>7. HistoryMeant'
  BY <1>2 DEF RealtimeInv, HistoryMeant, HistorySize
<1> QED
  BY <1>2, <1>3, <1>4, <1>5, <1>6, <1>7 DEF RealtimeInv

\* The handler takes the first event of the channel and gives it to the client.
LEMMA Delivered ==
    ASSUME RealtimeAssumption, RealtimeInv, NEW c \in Clients, Deliver(c)
    PROVE  RealtimeInv'
<1> DEFINE had == [id |-> channels[c][1].id, n |-> channels[c][1].n, life |-> life.restarts]
           k == Len(channels[c])
           g == Len(got[c])
<1>1. /\ nextID \in Nat /\ life \in [events : Nat, restarts : Nat] /\ nextID <= life.events
      /\ got \in [Clients -> Seq(Had)] /\ g \in Nat
      /\ DOMAIN channels \subseteq Clients
  BY LenProperties DEF RealtimeInv, StreamShapes
<1>2. /\ c \in DOMAIN channels /\ channels[c] \in Seq(Event) /\ channels[c] # << >> /\ k \in Nat /\ k >= 1 /\ k <= BufferSize
      /\ ChannelMeant(c) /\ GotMeant(c)
  BY EmptySeq DEF Deliver, RealtimeInv, StreamShapes
<1>3. UNCHANGED <<nextID, history, excused, life>> /\ Earlier' = Earlier
  BY DEF Deliver, Earlier
<1>4. channels[c][1] \in Event
  BY <1>2, ElementOfSeq
<1>5. had \in Had /\ had.id = channels[c][1].id /\ had.n = channels[c][1].n /\ had.life = life.restarts
  BY <1>1, <1>4 DEF Had, Event
<1>6. got' = [got EXCEPT ![c] = Append(@, had)] /\ channels' = [channels EXCEPT ![c] = Tail(@)]
  BY DEF Deliver
<1> HIDE DEF had
<1>7. /\ got'[c] = Append(got[c], had) /\ got'[c] \in Seq(Had) /\ Len(got'[c]) = g + 1
      /\ \A i \in 1..g : got'[c][i] = got[c][i]
      /\ got'[c][g + 1] = had
      /\ \A d \in Clients \ {c} : got'[d] = got[d]
  <2>1. got[c] \in Seq(Had)
    BY <1>1
  <2>2. got'[c] = Append(got[c], had) /\ \A d \in Clients \ {c} : got'[d] = got[d]
    BY <1>1, <1>6
  <2>3. /\ Append(got[c], had) \in Seq(Had) /\ Len(Append(got[c], had)) = g + 1
        /\ \A i \in 1..g : Append(got[c], had)[i] = got[c][i]
        /\ Append(got[c], had)[g + 1] = had
    BY <2>1, <1>5
  <2> QED
    BY <2>2, <2>3
<1>8. /\ channels'[c] \in Seq(Event) /\ Len(channels'[c]) = k - 1
      /\ \A i \in 1..(k - 1) : channels'[c][i] = channels[c][i + 1]
      /\ DOMAIN channels' = DOMAIN channels
      /\ \A d \in DOMAIN channels \ {c} : channels'[d] = channels[d]
  <2>1. /\ Tail(channels[c]) \in Seq(Event) /\ Len(Tail(channels[c])) = k - 1
        /\ \A i \in 1..(k - 1) : Tail(channels[c])[i] = channels[c][i + 1]
    BY <1>2, HeadTailProperties
  <2>2. /\ channels'[c] = Tail(channels[c]) /\ DOMAIN channels' = DOMAIN channels
        /\ \A d \in DOMAIN channels \ {c} : channels'[d] = channels[d]
    BY <1>2, <1>6
  <2> QED
    BY <2>1, <2>2
<1>9. /\ \A i \in 1..k : channels[c][i].id \in 1..nextID /\ channels[c][i].n = channels[c][i].id + Earlier
      /\ \A i \in 1..(k - 1) : Succeeds(c \notin excused, channels[c][i].n, channels[c][i + 1].n)
      /\ g # 0 => Succeeds(c \notin excused, got[c][g].n, channels[c][1].n)
      /\ c \notin excused => channels[c][k].n = life.events
  BY <1>2 DEF ChannelMeant, Got
<1>10. /\ \A i \in 1..g :
            IF got[c][i].life = life.restarts THEN got[c][i].id \in 1..nextID /\ got[c][i].n = got[c][i].id + Earlier
            ELSE got[c][i].life < life.restarts /\ got[c][i].n <= Earlier
       /\ \A i \in 1..(g - 1) : Succeeds(c \notin excused, got[c][i].n, got[c][i + 1].n)
  BY <1>2 DEF GotMeant, Got
<1> HIDE DEF k, g
<1>11. GotMeant(c)'
  <2>1. ASSUME NEW i \in 1..(g + 1)
        PROVE  IF got'[c][i].life = life.restarts
               THEN got'[c][i].id \in 1..nextID /\ got'[c][i].n = got'[c][i].id + Earlier
               ELSE got'[c][i].life < life.restarts /\ got'[c][i].n <= Earlier
    <3>1. CASE i \in 1..g
      BY <3>1, <1>7, <1>10
    <3>2. CASE i = g + 1
      <4>1. channels[c][1].id \in 1..nextID /\ channels[c][1].n = channels[c][1].id + Earlier
        BY <1>2, <1>9
      <4> QED
        BY <3>2, <4>1, <1>5, <1>7
    <3> QED
      BY <3>1, <3>2, <1>1
  <2>2. ASSUME NEW i \in 1..g
        PROVE  Succeeds(c \notin excused, got'[c][i].n, got'[c][i + 1].n)
    <3>1. CASE i \in 1..(g - 1)
      <4>1. got'[c][i] = got[c][i] /\ got'[c][i + 1] = got[c][i + 1]
        BY <3>1, <1>1, <1>7
      <4> QED
        BY <3>1, <4>1, <1>10
    <3>2. CASE i = g
      <4>1. got'[c][i].n = got[c][g].n /\ got'[c][i + 1].n = channels[c][1].n /\ g # 0
        BY <3>2, <1>1, <1>5, <1>7
      <4> QED
        BY <4>1, <1>9
    <3> QED
      BY <3>1, <3>2, <1>1
  <2>3. Len(got'[c]) = g + 1 /\ (g + 1) - 1 = g
    BY <1>1, <1>7
  <2> QED
    BY <2>1, <2>2, <2>3, <1>3 DEF GotMeant, Got
<1>12. ChannelMeant(c)'
  <2>1. ASSUME NEW i \in 1..(k - 1)
        PROVE  channels'[c][i].id \in 1..nextID /\ channels'[c][i].n = channels'[c][i].id + Earlier
    <3>1. i + 1 \in 1..k /\ channels'[c][i] = channels[c][i + 1]
      BY <1>2, <1>8
    <3> QED
      BY <3>1, <1>9
  <2>2. ASSUME NEW i \in 1..((k - 1) - 1)
        PROVE  Succeeds(c \notin excused, channels'[c][i].n, channels'[c][i + 1].n)
    <3>1. i + 1 \in 1..(k - 1) /\ channels'[c][i] = channels[c][i + 1] /\ channels'[c][i + 1] = channels[c][(i + 1) + 1]
      BY <1>2, <1>8
    <3> QED
      BY <3>1, <1>9
  <2>3. k - 1 # 0 => Succeeds(c \notin excused, got'[c][g + 1].n, channels'[c][1].n)
    <3> SUFFICES ASSUME k - 1 # 0 PROVE Succeeds(c \notin excused, got'[c][g + 1].n, channels'[c][1].n)
      OBVIOUS
    <3>1. 1 \in 1..(k - 1) /\ channels'[c][1] = channels[c][1 + 1]
      BY <1>2, <1>8
    <3>2. got'[c][g + 1].n = channels[c][1].n
      BY <1>5, <1>7
    <3> QED
      BY <3>1, <3>2, <1>9
  <2>4. c \notin excused /\ k - 1 # 0 => channels'[c][k - 1].n = life.events
    <3> SUFFICES ASSUME c \notin excused, k - 1 # 0 PROVE channels'[c][k - 1].n = life.events
      OBVIOUS
    <3>1. k - 1 \in 1..(k - 1) /\ channels'[c][k - 1] = channels[c][(k - 1) + 1] /\ (k - 1) + 1 = k
      BY <1>2, <1>8
    <3> QED
      BY <3>1, <1>9
  <2>5. c \notin excused /\ k - 1 = 0 => got'[c][g + 1].n = life.events
    <3> SUFFICES ASSUME c \notin excused, k - 1 = 0 PROVE got'[c][g + 1].n = life.events
      OBVIOUS
    <3>1. k = 1
      BY <1>2
    <3> QED
      BY <3>1, <1>5, <1>7, <1>9
  <2>6. Len(got'[c]) = g + 1 /\ Len(channels'[c]) = k - 1
    BY <1>7, <1>8
  <2> QED
    BY <2>1, <2>2, <2>3, <2>4, <2>5, <2>6, <1>3 DEF ChannelMeant, Got
<1>13. ASSUME NEW d \in DOMAIN channels, d # c PROVE ChannelMeant(d)'
  <2>1. channels'[d] = channels[d] /\ got'[d] = got[d] /\ nextID' = nextID /\ life'.events = life.events /\ excused' = excused
    BY <1>1, <1>3, <1>7, <1>8, <1>13
  <2> QED
    BY <2>1, <1>1, <1>3, SameChannel
<1>14. ASSUME NEW d \in Clients, d # c PROVE GotMeant(d)'
  <2>1. got'[d] = got[d] /\ nextID' = nextID /\ life'.restarts = life.restarts /\ excused' = excused
    BY <1>3, <1>7, <1>14
  <2> QED
    BY <2>1, <1>1, <1>3, SameGot
<1>15. StreamShapes'
  <2>1. got' \in [Clients -> Seq(Had)]
    BY <1>1, <1>6, <1>7
  <2>2. \A d \in DOMAIN channels' : channels'[d] \in Seq(Event) /\ Len(channels'[d]) <= BufferSize
    <3> TAKE d \in DOMAIN channels'
    <3>1. d # c => channels[d] \in Seq(Event) /\ Len(channels[d]) <= BufferSize
      BY <1>8 DEF RealtimeInv, StreamShapes
    <3>2. k - 1 <= BufferSize
      BY <1>2 DEF RealtimeAssumption
    <3> QED
      BY <3>1, <3>2, <1>8
  <2> QED
    BY <2>1, <2>2, <1>1, <1>3, <1>8 DEF RealtimeInv, StreamShapes
<1>16. HistoryMeant'
  BY <1>3 DEF RealtimeInv, HistoryMeant, HistorySize
<1> QED
  BY <1>8, <1>11, <1>12, <1>13, <1>14, <1>15, <1>16 DEF RealtimeInv

\* Connections end; nobody's channel changes but those that are gone.
LEMMA GoneShapes ==
    ASSUME RealtimeInv, NEW gone, Unsubscribed(gone)
    PROVE  /\ DOMAIN channels' = DOMAIN channels \ gone
           /\ \A d \in DOMAIN channels' : d \in DOMAIN channels /\ channels'[d] = channels[d]
           /\ excused \subseteq excused'
BY DEF Unsubscribed

LEMMA Disconnected ==
    ASSUME RealtimeAssumption, RealtimeInv, NEW c \in Clients, Unsubscribe(c)
    PROVE  RealtimeInv'
<1>1. UNCHANGED <<nextID, history, got, life>> /\ Earlier' = Earlier /\ Unsubscribed({c})
  BY DEF Unsubscribe, Earlier
<1>2. /\ DOMAIN channels' = DOMAIN channels \ {c}
      /\ \A d \in DOMAIN channels' : d \in DOMAIN channels /\ channels'[d] = channels[d]
      /\ excused \subseteq excused'
  BY <1>1, GoneShapes
<1>3. nextID \in Nat /\ nextID' \in Nat /\ nextID <= nextID'
  BY <1>1 DEF RealtimeInv, StreamShapes
<1>4. ASSUME NEW d \in DOMAIN channels' PROVE ChannelMeant(d)'
  <2>1. got'[d] = got[d] /\ life'.events = life.events
    BY <1>1
  <2> QED
    BY <2>1, <1>1, <1>2, <1>3, SameChannel
<1>5. ASSUME NEW d \in Clients PROVE GotMeant(d)'
  <2>1. got'[d] = got[d] /\ life'.restarts = life.restarts
    BY <1>1
  <2> QED
    BY <2>1, <1>1, <1>2, <1>3, SameGot
<1>6. StreamShapes' /\ HistoryMeant'
  BY <1>1, <1>2 DEF RealtimeInv, StreamShapes, HistoryMeant, HistorySize
<1> QED
  BY <1>4, <1>5, <1>6 DEF RealtimeInv

\* A new process: what clients have is of an earlier one.
LEMMA Restarted ==
    ASSUME RealtimeAssumption, RealtimeInv, Restart
    PROVE  RealtimeInv'
<1>1. /\ nextID \in Nat /\ life \in [events : Nat, restarts : Nat] /\ nextID <= life.events
      /\ got \in [Clients -> Seq(Had)]
  BY DEF RealtimeInv, StreamShapes
<1>2. /\ nextID' = 0 /\ history' = << >> /\ got' = got /\ Unsubscribed(DOMAIN channels)
      /\ life' \in [events : Nat, restarts : Nat]
      /\ life'.events = life.events /\ life'.restarts = life.restarts + 1
  BY <1>1 DEF Restart
<1>3. DOMAIN channels' = {} /\ excused \subseteq excused'
  BY <1>2, GoneShapes
<1>4. Earlier' = life.events
  BY <1>1, <1>2 DEF Earlier
<1>5. ASSUME NEW d \in Clients PROVE GotMeant(d)'
  <2>1. GotMeant(d) /\ got[d] \in Seq(Had)
    BY <1>1 DEF RealtimeInv
  <2>2. ASSUME NEW i \in 1..Len(got[d])
        PROVE  got[d][i].life # life'.restarts /\ got[d][i].life < life'.restarts /\ got[d][i].n <= life.events
    <3>1. got[d][i] \in Had
      BY <2>1, ElementOfSeq
    <3>2. IF got[d][i].life = life.restarts THEN got[d][i].id \in 1..nextID /\ got[d][i].n = got[d][i].id + Earlier
          ELSE got[d][i].life < life.restarts /\ got[d][i].n <= Earlier
      BY <2>1 DEF GotMeant
    <3>3. PICK have : have = got[d][i]
      OBVIOUS
    <3>4. have.life \in Nat /\ have.n \in Nat /\ have.id \in Nat
      BY <3>1, <3>3 DEF Had
    <3>5. life.events \in Nat /\ life.restarts \in Nat /\ life'.restarts = life.restarts + 1
      BY <1>1, <1>2
    <3>6. Earlier \in Nat /\ Earlier <= life.events /\ nextID + Earlier = life.events
      BY <1>1, <3>5 DEF Earlier
    <3>7. have.life <= life.restarts /\ have.n <= life.events
      BY <1>1, <3>2, <3>3, <3>4, <3>5, <3>6
    <3> QED
      BY <3>3, <3>4, <3>5, <3>7
  <2>3. ASSUME NEW i \in 1..(Len(got[d]) - 1)
        PROVE  Succeeds(d \notin excused', got[d][i].n, got[d][i + 1].n)
    <3>1. Succeeds(d \notin excused, got[d][i].n, got[d][i + 1].n)
      BY <2>1 DEF GotMeant, Got
    <3> QED
      BY <3>1, <1>3 DEF Succeeds
  <2> QED
    BY <2>2, <2>3, <1>2, <1>4 DEF GotMeant, Got
<1>6. StreamShapes'
  BY <1>1, <1>2, <1>3, EmptySeq DEF StreamShapes
<1>7. HistoryMeant'
  BY <1>2 DEF HistoryMeant, HistorySize, RealtimeAssumption
<1> QED
  BY <1>3, <1>5, <1>6, <1>7 DEF RealtimeInv
-----------------------------------------------------------------------------
LEMMA StreamSteps ==
    ASSUME RealtimeAssumption, RealtimeInv, [RealtimeNext]_realtimeVars
    PROVE  RealtimeInv'
<1>1. CASE UNCHANGED realtimeVars
  <2>1. Earlier' = Earlier /\ UNCHANGED <<nextID, history, channels, got, excused, life>>
    BY <1>1 DEF realtimeVars, Earlier
  <2>2. nextID \in Nat /\ nextID <= nextID'
    BY <2>1 DEF RealtimeInv, StreamShapes
  <2>3. \A c \in Clients : GotMeant(c)'
    BY <2>1, <2>2, SameGot
  <2>4. \A c \in DOMAIN channels : ChannelMeant(c)'
    BY <2>1, <2>2, SameChannel
  <2>5. StreamShapes' /\ HistoryMeant'
    BY <2>1 DEF RealtimeInv, StreamShapes, HistoryMeant, HistorySize
  <2> QED
    BY <2>1, <2>3, <2>4, <2>5 DEF RealtimeInv
<1> QED
  BY <1>1, Published, Subscribed, Delivered, Disconnected, Restarted DEF RealtimeNext

LEMMA StreamInvariant == RealtimeSpec => []RealtimeInv
<1>1. RealtimeInit => RealtimeInv
  BY StreamStart, RealtimeAssumption
<1>2. RealtimeInv /\ [RealtimeNext]_realtimeVars => RealtimeInv'
  BY StreamSteps, RealtimeAssumption
<1> QED
  BY <1>1, <1>2, PTL DEF RealtimeSpec

\* For any number of clients, events and restarts and any room of a connection:
\* no client is told an event twice or after a later one, and none that kept up
\* misses one (Publish, SubscribeSince and the handler of the hub).
THEOREM StreamsTellInOrder == RealtimeSpec => []StreamTellsInOrder
BY StreamInvariant, StreamSays, PTL
-----------------------------------------------------------------------------
(* The gateway.                                                             *)

RoutingPlaces == {"idle", "denied", "serve", "forward", "admission", "answered"}
IsRouting ==
    /\ routed = [step |-> routed.step, r |-> routed.r, enabled |-> routed.enabled,
                 by |-> routed.by, code |-> routed.code]
    /\ routed.step \in RoutingPlaces /\ routed.r \in ClientRequests \cup {NoRequest}
Tally == [here : {0, 1}, node : {0, 1}]

GatewayShapes ==
    /\ IsRouting /\ did \in [PurchaseKeys -> Tally]
    /\ gatewayCount \in [writes : Nat, sends : Nat]

\* Nobody has taken a request that is on its way; only a ping is asked of both.
RoutedMeant ==
    /\ routed.step # "idle" => routed.r \in ClientRequests
    /\ (routed.step = "answered" <=> routed.code # 0)
    /\ routed.step # "answered" => routed.by = {}
    /\ routed.step = "admission" => routed.r.path = "ping"

\* While the switch is left alone the side of a request is the one it would be
\* sent to now, and so is the side of every purchase.
SidesStand ==
    gatewayCount.writes = 0 =>
        /\ document.whole
        /\ routed.step = "serve" => TakenHere(routed.r)
        /\ routed.step = "forward" => ~TakenHere(routed.r)
        /\ \A k \in PurchaseKeys :
              /\ did[k].here = 1 =>
                    \E r \in ClientRequests : r.path \in Purchases /\ r.key = k /\ TakenHere(r)
              /\ did[k].node = 1 =>
                    \E r \in ClientRequests : r.path \in Purchases /\ r.key = k /\ ~TakenHere(r)

GatewayInv ==
    /\ GatewayShapes /\ RoutedMeant /\ SidesStand /\ TakenByOne
    /\ document.whole => document.routes = written
-----------------------------------------------------------------------------
LEMMA GatewayBegins == GatewayInit => GatewayInv
<1> SUFFICES ASSUME GatewayInit PROVE GatewayInv
  OBVIOUS
<1>1. IsRouting /\ routed.step = "idle" /\ routed.by = {} /\ routed.code = 0
  BY DEF GatewayInit, NoRouting, IsRouting, RoutingPlaces
<1>2. document.whole
  BY GatewayAssumption DEF GatewayInit
<1>3. did = [k \in PurchaseKeys |-> [here |-> 0, node |-> 0]] /\ written = document.routes
      /\ gatewayCount = [writes |-> 0, sends |-> 0]
  BY DEF GatewayInit
<1>4. GatewayShapes
  BY <1>1, <1>2, <1>3 DEF GatewayShapes, Tally
<1>5. RoutedMeant /\ TakenByOne
  BY <1>1 DEF RoutedMeant, TakenByOne
<1>6. SidesStand
  BY <1>1, <1>2, <1>3 DEF SidesStand
<1> QED
  BY <1>3, <1>4, <1>5, <1>6 DEF GatewayInv

\* A route is decided by what can be read and by what is installed.
LEMMA SideKept ==
    ASSUME handlers' = handlers, document' = document, NEW r
    PROVE  TakenHere(r)' = TakenHere(r)
BY DEF TakenHere, SwitchedOn, Readable

LEMMA Routes ==
    ASSUME GatewayInv, NEW r \in ClientRequests, Route(r)
    PROVE  GatewayInv'
<1>1. /\ UNCHANGED <<handlers, scoped, document, written, did>>
      /\ gatewayCount' = [gatewayCount EXCEPT !.sends = @ + 1]
  BY DEF Route
<1>2. PICK place \in {"forward", "denied", "admission", "serve"} :
         /\ place = "forward" <=> ~TakenHere(r)
         /\ place \in {"admission", "serve"} => AppAllowed(r)
         /\ place = "admission" => r.path = "ping"
         /\ routed' = [NoRouting EXCEPT !.r = r, !.enabled = written, !.step = place]
  BY DEF Route
<1>3. routed' = [step |-> place, r |-> r, enabled |-> written, by |-> {}, code |-> 0]
  BY <1>2 DEF NoRouting
<1>4. GatewayShapes'
  BY <1>1, <1>3 DEF GatewayInv, GatewayShapes, IsRouting, RoutingPlaces
<1>5. RoutedMeant'
  <2>1. routed'.step = place /\ routed'.r = r /\ routed'.by = {} /\ routed'.code = 0
    BY <1>3
  <2> QED
    BY <1>2, <2>1 DEF RoutedMeant
<1>6. TakenByOne'
  <2>1. place = "serve" => r.path \in Unswitched \cup written
    BY <1>2 DEF TakenHere, SwitchedOn, Readable, GatewayInv
  <2>2. place = "serve" => (scoped /\ r.path \notin Unscoped => r.app = "own")
    BY <1>2 DEF AppAllowed
  <2>3. place = "forward" /\ r.path = "admin" => "admin" \notin handlers
    BY <1>2 DEF TakenHere, Exact, HandlerOf, Unswitched, Candidate
  <2> QED
    BY <1>1, <1>3, <2>1, <2>2, <2>3 DEF TakenByOne
<1>7. SidesStand'
  <2>1. gatewayCount'.writes = gatewayCount.writes
    BY <1>1 DEF GatewayInv, GatewayShapes
  <2>2. \A s : TakenHere(s)' = TakenHere(s)
    BY <1>1, SideKept
  <2> QED
    BY <1>1, <1>2, <1>3, <2>1, <2>2 DEF SidesStand, GatewayInv
<1> QED
  BY <1>1, <1>4, <1>5, <1>6, <1>7 DEF GatewayInv

\* A request has its answer, from a side or from none.
HasAnswer ==
    /\ UNCHANGED <<handlers, scoped, document, written, gatewayCount>>
    /\ routed.step \notin {"idle", "answered"}
    /\ IsRouting' /\ routed'.step = "answered" /\ routed'.r = routed.r /\ routed'.code # 0
    /\ routed'.by = {"here", "node"} => routed.r.path = "ping"

LEMMA AnsweredOnly ==
    ASSUME GatewayInv, HasAnswer, did' = did
    PROVE  GatewayInv'
<1>1. \A s : TakenHere(s)' = TakenHere(s)
  BY SideKept DEF HasAnswer
<1>2. GatewayShapes'
  BY DEF GatewayInv, GatewayShapes, HasAnswer
<1>3. RoutedMeant' /\ TakenByOne'
  BY DEF GatewayInv, RoutedMeant, TakenByOne, HasAnswer
<1>4. SidesStand'
  BY <1>1 DEF GatewayInv, SidesStand, HasAnswer
<1> QED
  BY <1>2, <1>3, <1>4 DEF GatewayInv, HasAnswer

\* And the side that has it may have executed it.
LEMMA AnsweredBy ==
    ASSUME GatewayInv, HasAnswer, NEW side \in {"here", "node"},
           routed.step = (IF side = "here" THEN "serve" ELSE "forward"),
           did' = did \/ Executed(side)
    PROVE  GatewayInv'
<1>1. \A s : TakenHere(s)' = TakenHere(s)
  BY SideKept DEF HasAnswer
<1>3. CASE did' = did
  BY <1>3, AnsweredOnly
<1>4. CASE did' # did
  <2> DEFINE k == routed.r.key
  <2>1. /\ routed.r \in ClientRequests /\ routed.r.path \in Purchases /\ k \in PurchaseKeys
        /\ routed.step = IF side = "here" THEN "serve" ELSE "forward"
        /\ did' = IF side = "here" THEN [did EXCEPT ![k].here = 1] ELSE [did EXCEPT ![k].node = 1]
    BY <1>4, GatewayAssumption DEF GatewayInv, RoutedMeant, Executed
  <2>2. did \in [PurchaseKeys -> Tally]
    BY DEF GatewayInv, GatewayShapes
  <2>3. /\ did' \in [PurchaseKeys -> Tally] /\ \A j \in PurchaseKeys \ {k} : did'[j] = did[j]
        /\ side = "here" => did'[k].here = 1 /\ did'[k].node = did[k].node
        /\ side = "node" => did'[k].node = 1 /\ did'[k].here = did[k].here
    BY <2>1, <2>2 DEF Tally
  <2>4. GatewayShapes'
    BY <2>3 DEF GatewayInv, GatewayShapes, HasAnswer
  <2>5. RoutedMeant' /\ TakenByOne'
    BY DEF GatewayInv, RoutedMeant, TakenByOne, HasAnswer
  <2>6. SidesStand'
    <3> SUFFICES ASSUME gatewayCount.writes = 0 PROVE SidesStand'
      BY DEF SidesStand, HasAnswer
    <3>1. /\ document.whole /\ (TakenHere(routed.r) <=> side = "here")
      BY <2>1 DEF GatewayInv, SidesStand
    <3>2. ASSUME NEW j \in PurchaseKeys
          PROVE  /\ did'[j].here = 1 =>
                       \E r \in ClientRequests : r.path \in Purchases /\ r.key = j /\ TakenHere(r)
                 /\ did'[j].node = 1 =>
                       \E r \in ClientRequests : r.path \in Purchases /\ r.key = j /\ ~TakenHere(r)
      <4>1. CASE j = k
        BY <2>1, <2>3, <3>1, <4>1 DEF GatewayInv, SidesStand
      <4>2. CASE j # k
        BY <2>3, <4>2 DEF GatewayInv, SidesStand
      <4> QED
        BY <4>1, <4>2
    <3> QED
      BY <1>1, <3>1, <3>2 DEF SidesStand, HasAnswer
  <2> QED
    BY <2>4, <2>5, <2>6 DEF GatewayInv, HasAnswer
<1> QED
  BY <1>3, <1>4

LEMMA Answers ==
    ASSUME GatewayInv, Deny \/ Serve \/ Forward \/ AdmitPing
    PROVE  GatewayInv'
<1>0. IsRouting /\ (routed.step # "answered" => routed.by = {})
      /\ (routed.step = "admission" => routed.r.path = "ping")
  BY DEF GatewayInv, GatewayShapes, RoutedMeant
<1>1. CASE Deny
  <2>1. PICK r, enabled, none :
           routed = [step |-> "denied", r |-> r, enabled |-> enabled, by |-> {}, code |-> none]
    <3>1. routed.step = "denied"
      BY <1>1 DEF Deny
    <3>2. routed.by = {}
      BY <1>0, <3>1
    <3>3. routed = [step |-> "denied", r |-> routed.r, enabled |-> routed.enabled, by |-> {}, code |-> routed.code]
      BY <1>0, <3>1, <3>2 DEF IsRouting
    <3> QED
      BY <3>3
  <2>2. routed' = [step |-> "answered", r |-> r, enabled |-> enabled, by |-> {}, code |-> 403]
    <3>1. routed' = [routed EXCEPT !.step = "answered", !.code = 403]
      BY <1>1 DEF Deny
    <3> QED
      BY <2>1, <3>1
  <2>3. IsRouting'
    BY <1>0, <2>1, <2>2 DEF IsRouting, RoutingPlaces
  <2>4. HasAnswer /\ did' = did
    BY <1>1, <2>1, <2>2, <2>3 DEF Deny, HasAnswer
  <2> QED
    BY <2>4, AnsweredOnly
<1>2. CASE Serve
  <2>1. PICK r, enabled, none :
           routed = [step |-> "serve", r |-> r, enabled |-> enabled, by |-> {}, code |-> none]
    BY <1>0, <1>2 DEF IsRouting, Serve
  <2>2. PICK code \in {200, 500} :
           routed' = [routed EXCEPT !.step = "answered", !.by = @ \cup {"here"}, !.code = code]
    BY <1>2 DEF Serve
  <2>3. routed' = [step |-> "answered", r |-> r, enabled |-> enabled,
                   by |-> {} \cup {"here"}, code |-> code]
    BY <2>1, <2>2
  <2>4. IsRouting'
    BY <1>0, <2>1, <2>3 DEF IsRouting, RoutingPlaces
  <2>5. HasAnswer
    BY <1>2, <2>1, <2>3, <2>4 DEF Serve, HasAnswer
  <2>6. routed.step = "serve" /\ (did' = did \/ Executed("here"))
    BY <1>2 DEF Serve
  <2> QED
    BY <2>5, <2>6, AnsweredBy
<1>3. CASE Forward
  <2>1. PICK r, enabled, none :
           routed = [step |-> "forward", r |-> r, enabled |-> enabled, by |-> {}, code |-> none]
    BY <1>0, <1>3 DEF IsRouting, Forward
  <2>2. PICK code \in {200, 502, 504} :
           routed' = [routed EXCEPT !.step = "answered", !.by = @ \cup {"node"}, !.code = code]
    BY <1>3 DEF Forward
  <2>3. routed' = [step |-> "answered", r |-> r, enabled |-> enabled,
                   by |-> {} \cup {"node"}, code |-> code]
    BY <2>1, <2>2
  <2>4. IsRouting'
    BY <1>0, <2>1, <2>3 DEF IsRouting, RoutingPlaces
  <2>5. HasAnswer
    BY <1>3, <2>1, <2>3, <2>4 DEF Forward, HasAnswer
  <2>6. routed.step = "forward" /\ (did' = did \/ Executed("node"))
    BY <1>3 DEF Forward
  <2> QED
    BY <2>5, <2>6, AnsweredBy
<1>4. CASE AdmitPing
  <2>0. routed.step = "admission" /\ UNCHANGED <<handlers, scoped, document, written, did, gatewayCount>>
    <3>1. routed.step = "admission"
      BY <1>4 DEF AdmitPing
    <3>2. UNCHANGED <<handlers, scoped, document, written, did, gatewayCount>>
      BY <1>4 DEF AdmitPing
    <3> QED
      BY <3>1, <3>2
  <2>1. PICK r, enabled, old, none :
           routed = [step |-> "admission", r |-> r, enabled |-> enabled, by |-> old, code |-> none]
    BY <1>0, <2>0 DEF IsRouting
  <2>2. PICK code \in {200, 404, 502, 504}, same \in BOOLEAN :
           routed' = [routed EXCEPT !.step = "answered", !.code = code,
                          !.by = IF code = 200 /\ same THEN {"node", "here"} ELSE {"node"}]
    BY <1>4 DEF AdmitPing
  <2> DEFINE by == IF code = 200 /\ same THEN {"node", "here"} ELSE {"node"}
  <2> HIDE DEF by
  <2>3. routed' = [step |-> "answered", r |-> r, enabled |-> enabled, by |-> by, code |-> code]
    BY <2>1, <2>2 DEF by
  <2>4. IsRouting'
    BY <1>0, <2>1, <2>3 DEF IsRouting, RoutingPlaces
  <2>5. HasAnswer /\ did' = did
    BY <1>0, <2>0, <2>1, <2>3, <2>4 DEF HasAnswer
  <2> QED
    BY <2>5, AnsweredOnly
<1> QED
  BY <1>1, <1>2, <1>3, <1>4

LEMMA PurchaseWrites ==
    ASSUME GatewayInv, BeginWrite \/ EndWrite
    PROVE  GatewayInv'
<1>1. UNCHANGED <<handlers, scoped, routed, did>>
  BY DEF BeginWrite, EndWrite
<1>2. gatewayCount' \in [writes : Nat, sends : Nat] /\ gatewayCount'.writes # 0
  <2>1. CASE BeginWrite
    BY <2>1 DEF BeginWrite, GatewayInv, GatewayShapes
  <2>2. CASE EndWrite
    BY <2>2 DEF EndWrite, GatewayInv, GatewayShapes, SidesStand
  <2> QED
    BY <2>1, <2>2
<1>3. document'.whole => document'.routes = written'
  <2>1. CASE BeginWrite
    BY <2>1 DEF BeginWrite
  <2>2. CASE EndWrite
    BY <2>2 DEF EndWrite, GatewayInv, GatewayShapes
  <2> QED
    BY <2>1, <2>2
<1>4. GatewayShapes' /\ RoutedMeant' /\ TakenByOne'
  BY <1>1, <1>2 DEF GatewayInv, GatewayShapes, IsRouting, RoutedMeant, TakenByOne
<1>5. SidesStand'
  BY <1>2 DEF SidesStand
<1> QED
  BY <1>3, <1>4, <1>5 DEF GatewayInv

LEMMA GatewayInvariant == GatewaySpec => []GatewayInv
<1>1. ASSUME GatewayInv, [GatewayNext]_gatewayVars PROVE GatewayInv'
  <2>1. CASE UNCHANGED gatewayVars
    <3>1. \A s : TakenHere(s)' = TakenHere(s)
      BY <2>1, SideKept DEF gatewayVars
    <3>2. GatewayShapes' /\ RoutedMeant' /\ TakenByOne'
      BY <1>1, <2>1 DEF gatewayVars, GatewayInv, GatewayShapes, IsRouting, RoutedMeant, TakenByOne
    <3>3. SidesStand'
      BY <1>1, <2>1, <3>1 DEF gatewayVars, GatewayInv, SidesStand
    <3> QED
      BY <1>1, <2>1, <3>2, <3>3 DEF gatewayVars, GatewayInv
  <2> QED
    BY <1>1, <2>1, Routes, Answers, PurchaseWrites DEF GatewayNext
<1> QED
  BY <1>1, GatewayBegins, PTL DEF GatewaySpec

\* GatewaySafe: one side takes each request, and one side executes a purchase
\* however often it is sent, while the switch is left alone.
THEOREM GatewayStaysSafe == GatewaySpec => []GatewaySafe
<1>1. GatewayInv => GatewaySafe
  <2> SUFFICES ASSUME GatewayInv PROVE TakenByOne /\ ExecutedOnce
    BY DEF GatewaySafe
  <2>1. TakenByOne
    BY DEF GatewayInv
  <2>2. ASSUME gatewayCount.writes = 0, NEW k \in PurchaseKeys PROVE did[k].here + did[k].node <= 1
    <3>1. did[k].here \in {0, 1} /\ did[k].node \in {0, 1}
      BY DEF GatewayInv, GatewayShapes, Tally
    <3>2. ~(did[k].here = 1 /\ did[k].node = 1)
      BY <2>2, GatewayAssumption DEF GatewayInv, SidesStand
    <3> QED
      BY <3>1, <3>2
  <2> QED
    BY <2>1, <2>2 DEF ExecutedOnce
<1> QED
  BY <1>1, GatewayInvariant, PTL

THEOREM GatewayTyped == GatewaySpec => []GatewayTypeOK
<1>1. GatewayInv => GatewayTypeOK
  BY DEF GatewayInv, GatewayShapes, IsRouting, RoutingPlaces, RoutedMeant, GatewayTypeOK
<1> QED
  BY <1>1, GatewayInvariant, PTL
-----------------------------------------------------------------------------
(* The media routes.                                                        *)

MediaPhases == {"idle", "object", "image", "refresh", "other", "fetch", "made", "answered"}
Reading(phase, ask, made, a) == [phase |-> phase, ask |-> ask, made |-> made, answer |-> a]

\* An image answered is one that is there, under the name derived from the request.
AnswerFits(ask, a) == a.kind = "image" => a.key = CacheKey(ask) /\ a.key \in DOMAIN public

ReadingFits(r) ==
    \E phase \in MediaPhases : \E ask, made, a :
        readings[r] = Reading(phase, ask, made, a) /\ AnswerFits(ask, a)

\* An image of the public bucket is what its name says.
NamedRight(k) == k[1] = "img" => public[k].of = k[2]

PublicFits ==
    \A k \in DOMAIN public : NamedRight(k) /\ (k[1] # "src" => mediaHandler = "serving")

MediaInv ==
    /\ config \in MediaConfigs /\ mediaHandler = Handler(config)
    /\ DOMAIN readings = Readers /\ \A r \in Readers : ReadingFits(r)
    /\ PublicFits
-----------------------------------------------------------------------------
LEMMA MediaBegins == MediaInit => MediaInv
<1> SUFFICES ASSUME MediaInit PROVE MediaInv
  OBVIOUS
<1>1. ASSUME NEW r \in Readers PROVE ReadingFits(r)
  <2>1. readings[r] = Reading("idle", [path |-> "none"], << >>, NoAnswer)
    BY DEF MediaInit, NoReading, Reading
  <2>2. AnswerFits([path |-> "none"], NoAnswer)
    BY DEF AnswerFits, NoAnswer
  <2> QED
    BY <2>1, <2>2 DEF ReadingFits, MediaPhases
<1>2. \A k \in DOMAIN public : k[1] = "src"
  BY DEF MediaInit
<1>3. PublicFits
  BY <1>2 DEF PublicFits, NamedRight
<1> QED
  BY <1>1, <1>3 DEF MediaInit, MediaInv

\* What a reader gets leaves the others' answers good, as long as nothing is
\* taken from the bucket.
LEMMA ReadingMoves ==
    ASSUME MediaInv, UNCHANGED <<config, mediaHandler>>,
           NEW r \in Readers, NEW phase \in MediaPhases, NEW ask, NEW made, NEW a,
           DOMAIN readings' = Readers, readings'[r] = Reading(phase, ask, made, a),
           \A q \in Readers \ {r} : readings'[q] = readings[q],
           AnswerFits(ask, a)',
           DOMAIN public \subseteq DOMAIN public', PublicFits'
    PROVE  MediaInv'
<1>2. ASSUME NEW q \in Readers PROVE ReadingFits(q)'
  <2>1. CASE q = r
    BY <2>1 DEF ReadingFits
  <2>2. CASE q # r
    <3>1. PICK at, for, of, found :
             at \in MediaPhases /\ readings[q] = Reading(at, for, of, found) /\ AnswerFits(for, found)
      BY DEF MediaInv, ReadingFits
    <3>2. AnswerFits(for, found)'
      BY <3>1 DEF AnswerFits
    <3>3. readings'[q] = Reading(at, for, of, found)
      BY <2>2, <3>1
    <3> QED
      BY <3>1, <3>2, <3>3 DEF ReadingFits
  <2> QED
    BY <2>1, <2>2
<1> QED
  BY <1>2 DEF MediaInv

LEMMA MediaAsked ==
    ASSUME MediaInv, NEW r \in Readers, NEW ask \in MediaAsks, Ask(r, ask)
    PROVE  MediaInv'
<1> ask.path \in MediaPhases
  BY MediaAssumption DEF MediaPhases
<1>0. PICK reading : reading = [NoReading EXCEPT !.phase = ask.path, !.ask = ask]
  OBVIOUS
<1>1. /\ DOMAIN readings' = Readers /\ readings'[r] = Reading(ask.path, ask, << >>, NoAnswer)
      /\ \A q \in Readers \ {r} : readings'[q] = readings[q]
  <2>1. reading = Reading(ask.path, ask, << >>, NoAnswer)
    BY <1>0 DEF NoReading, Reading
  <2> QED
    BY <1>0, <2>1 DEF MediaInv, Ask
<1>2. UNCHANGED <<config, mediaHandler, public>>
  BY DEF Ask
<1>3. AnswerFits(ask, NoAnswer)'
  BY DEF AnswerFits, NoAnswer
<1>4. PublicFits'
  BY <1>2 DEF MediaInv, PublicFits, NamedRight
<1> QED
  BY <1>1, <1>2, <1>3, <1>4, ReadingMoves

\* A reader is answered: what was asked stays the question.
LEMMA AnswerGiven ==
    ASSUME MediaInv, UNCHANGED <<config, mediaHandler>>, NEW r \in Readers, NEW b, Answer(r, b),
           NEW ask, readings[r].ask = ask, AnswerFits(ask, b)',
           DOMAIN public \subseteq DOMAIN public', PublicFits'
    PROVE  MediaInv'
<1>1. PICK phase, made, a : phase \in MediaPhases /\ readings[r] = Reading(phase, ask, made, a)
  BY DEF MediaInv, ReadingFits, Reading
<1>2. /\ DOMAIN readings' = Readers /\ readings'[r] = Reading("answered", ask, made, b)
      /\ \A q \in Readers \ {r} : readings'[q] = readings[q]
  <2> DEFINE one == [readings EXCEPT ![r].phase = "answered"]
  <2>1. DOMAIN one = Readers /\ one[r] = Reading("answered", ask, made, a)
        /\ \A q \in Readers \ {r} : one[q] = readings[q]
    BY <1>1 DEF MediaInv, Reading
  <2>2. readings' = [one EXCEPT ![r].answer = b]
    BY DEF Answer
  <2> HIDE DEF one
  <2>3. readings'[r] = Reading("answered", ask, made, b)
    BY <2>1, <2>2 DEF Reading
  <2> QED
    BY <2>1, <2>2, <2>3
<1> QED
  BY <1>2, ReadingMoves DEF MediaPhases

\* The bucket is left alone.
LEMMA BucketKept == ASSUME MediaInv, UNCHANGED <<mediaHandler, public>> PROVE PublicFits'
BY DEF MediaInv, PublicFits, NamedRight

LEMMA CodesFit == ASSUME NEW ask, NEW n PROVE AnswerFits(ask, Code(n)) /\ AnswerFits(ask, Code(n))'
BY DEF AnswerFits, Code, NoAnswer

LEMMA Refused ==
    ASSUME MediaInv, NEW r \in Readers, NEW n, Answer(r, Code(n)),
           UNCHANGED <<config, mediaHandler, public>>
    PROVE  MediaInv'
BY BucketKept, CodesFit, AnswerGiven

LEMMA ObjectServed ==
    ASSUME MediaInv, NEW r \in Readers, ServeObject(r)
    PROVE  MediaInv'
<1> DEFINE asked == readings[r].ask
<1> DEFINE given ==
      CASE asked.method = "OPTIONS" -> Code(204)
        [] asked.method = "POST" \/ ~ValidObject(asked) -> Code(404)
        [] Redirected(asked) ->
              [NoAnswer EXCEPT !.kind = "link", !.code = 302,
                               !.good = SignedExpiry(config), !.kept = AgeOf(asked)]
        [] asked.key \notin Objects -> Code(404)
        [] OTHER -> [NoAnswer EXCEPT !.kind = "stream", !.code = IF asked.range THEN 206 ELSE 200]
<1>1. Answer(r, given) /\ UNCHANGED <<config, mediaHandler, public>>
  BY DEF ServeObject
<1>2. PICK ask, b : ask = asked /\ b = given
  OBVIOUS
<1>3. AnswerFits(ask, b)'
  <2>1. b.kind # "image"
    BY <1>2 DEF Code, NoAnswer
  <2> QED
    BY <2>1 DEF AnswerFits
<1> QED
  BY <1>1, <1>2, <1>3, BucketKept, AnswerGiven

LEMMA LinkRenewed ==
    ASSUME MediaInv, NEW r \in Readers, Refresh(r)
    PROVE  MediaInv'
<1> DEFINE asked == readings[r].ask
<1> DEFINE given ==
      IF asked.host \in {"none", "own"} /\ ValidObject(asked)
      THEN [NoAnswer EXCEPT !.kind = "refreshed", !.code = 200, !.key = <<asked.key, asked.download>>]
      ELSE Code(400)
<1>1. Answer(r, given) /\ UNCHANGED <<config, mediaHandler, public>>
  BY DEF Refresh
<1>2. PICK ask, b : ask = asked /\ b = given
  OBVIOUS
<1>3. AnswerFits(ask, b)'
  <2>1. b.kind # "image"
    BY <1>2 DEF Code, NoAnswer
  <2> QED
    BY <2>1 DEF AnswerFits
<1> QED
  BY <1>1, <1>2, <1>3, BucketKept, AnswerGiven

\* A reader goes on to another step, with what was read for him.
LEMMA GoneOn ==
    ASSUME MediaInv, UNCHANGED <<config, mediaHandler, public>>, NEW r \in Readers,
           NEW phase \in MediaPhases, NEW found,
           \/ readings' = [readings EXCEPT ![r].phase = phase]
           \/ readings' = [readings EXCEPT ![r].phase = phase, ![r].made = found]
    PROVE  MediaInv'
<1>1. PICK at, ask, made, a :
         at \in MediaPhases /\ readings[r] = Reading(at, ask, made, a) /\ AnswerFits(ask, a)
  BY DEF MediaInv, ReadingFits
<1> DEFINE one == [readings EXCEPT ![r].phase = phase]
<1>2. DOMAIN one = Readers /\ one[r] = Reading(phase, ask, made, a)
      /\ \A q \in Readers \ {r} : one[q] = readings[q]
  BY <1>1 DEF MediaInv, Reading
<1>3. readings' = one \/ readings' = [one EXCEPT ![r].made = found]
  OBVIOUS
<1> HIDE DEF one
<1>4. /\ DOMAIN readings' = Readers /\ \A q \in Readers \ {r} : readings'[q] = readings[q]
      /\ readings'[r] \in {Reading(phase, ask, made, a), Reading(phase, ask, found, a)}
  BY <1>2, <1>3 DEF Reading
<1>5. AnswerFits(ask, a)'
  BY <1>1 DEF AnswerFits
<1> QED
  BY <1>4, <1>5, BucketKept, ReadingMoves

\* An image found is redirected to; any other is to be made.
LEMMA LookedUp ==
    ASSUME MediaInv, NEW r \in Readers, LookUpImage(r)
    PROVE  MediaInv'
<1>1. UNCHANGED <<config, mediaHandler, public>>
  BY DEF LookUpImage
<1> PICK ask : ask = readings[r].ask
  OBVIOUS
<1>2. CASE Answer(r, Code(400))
  BY <1>1, <1>2, Refused
<1>3. CASE CacheKey(ask) \in DOMAIN public /\ Answer(r, Kept(ask))
  <2>1. AnswerFits(ask, Kept(ask))'
    BY <1>1, <1>3 DEF AnswerFits, Kept, NoAnswer
  <2> QED
    BY <1>1, <1>3, <2>1, BucketKept, AnswerGiven
<1>4. CASE readings' = [readings EXCEPT ![r].phase = "fetch"]
  BY <1>1, <1>4, GoneOn DEF MediaPhases
<1> QED
  BY <1>2, <1>3, <1>4 DEF LookUpImage

LEMMA Fetched ==
    ASSUME MediaInv, NEW r \in Readers, FetchSource(r)
    PROVE  MediaInv'
<1>1. UNCHANGED <<config, mediaHandler, public>>
  BY DEF FetchSource
<1>2. CASE \E n : Answer(r, Code(n))
  BY <1>1, <1>2, Refused
<1>3. CASE \E found : readings' = [readings EXCEPT ![r].phase = "made", ![r].made = found]
  BY <1>1, <1>3, GoneOn DEF MediaPhases
<1> QED
  BY <1>2, <1>3 DEF FetchSource

\* What is stored is stored under its name.
LEMMA Stored ==
    ASSUME MediaInv, NEW r \in Readers, StoreImage(r)
    PROVE  MediaInv'
<1>1. UNCHANGED <<config, mediaHandler>> /\ mediaHandler = "serving"
  BY DEF StoreImage, Serving
<1> PICK ask : ask = readings[r].ask
  OBVIOUS
<1>2. CASE Answer(r, Code(503)) /\ UNCHANGED public
  BY <1>1, <1>2, Refused
<1>3. CASE ~(Answer(r, Code(503)) /\ UNCHANGED public)
  <2> PICK key, of : key = CacheKey(ask) /\ of = ParseImageOptions(ask)
    OBVIOUS
  <2>1. /\ public' = [k \in DOMAIN public \cup {key} |->
                       IF k = key THEN [bytes |-> 1, pixels |-> 1, of |-> of] ELSE public[k]]
        /\ Answer(r, Kept(ask)) \/ Answer(r, Code(503))
    BY <1>3 DEF StoreImage
  <2>2. DOMAIN public' = DOMAIN public \cup {key} /\ public'[key].of = of
        /\ \A k \in DOMAIN public \ {key} : public'[k] = public[k]
    BY <2>1
  <2>3. key[1] = "img" /\ key[2] = of
    BY DEF CacheKey
  <2>5. NamedRight(key)'
    BY <2>2, <2>3 DEF NamedRight
  <2>6. PublicFits'
    <3>1. ASSUME NEW k \in DOMAIN public \ {key} PROVE NamedRight(k)'
      <4>1. NamedRight(k) /\ public'[k] = public[k]
        BY <2>2 DEF MediaInv, PublicFits
      <4> QED
        BY <4>1 DEF NamedRight
    <3> QED
      BY <1>1, <2>2, <2>5, <3>1 DEF PublicFits
  <2>7. AnswerFits(ask, Kept(ask))'
    BY <2>2 DEF AnswerFits, Kept, NoAnswer
  <2> QED
    BY <1>1, <2>1, <2>2, <2>6, <2>7, CodesFit, AnswerGiven
<1> QED
  BY <1>2, <1>3 DEF StoreImage

LEMMA Left ==
    ASSUME MediaInv, NEW r \in Readers, Leave(r)
    PROVE  MediaInv'
<1>1. /\ DOMAIN readings' = Readers /\ readings'[r] = NoReading
      /\ \A q \in Readers \ {r} : readings'[q] = readings[q]
  BY DEF MediaInv, Leave
<1>2. readings'[r] = Reading("idle", [path |-> "none"], << >>, NoAnswer)
  BY <1>1 DEF NoReading, Reading
<1>3. UNCHANGED <<config, mediaHandler, public>> /\ AnswerFits([path |-> "none"], NoAnswer)'
  BY DEF Leave, AnswerFits, NoAnswer
<1> QED
  BY <1>1, <1>2, <1>3, BucketKept, ReadingMoves DEF MediaPhases

\* A source written anew is no image of the gateway's.
LEMMA Uploaded ==
    ASSUME MediaInv, Upload
    PROVE  MediaInv'
<1> PICK key, px : /\ key[1] = "src"
                   /\ public' = [k \in DOMAIN public \cup {key} |->
                         IF k = key THEN [bytes |-> 2, pixels |-> px, of |-> << >>] ELSE public[k]]
  BY DEF Upload
<1>1. UNCHANGED <<config, mediaHandler, readings>>
  BY DEF Upload
<1>2. DOMAIN public' = DOMAIN public \cup {key} /\ \A k \in DOMAIN public \ {key} : public'[k] = public[k]
  OBVIOUS
<1>3. PublicFits'
  BY <1>1, <1>2 DEF MediaInv, PublicFits, NamedRight
<1>4. ASSUME NEW r \in Readers PROVE ReadingFits(r)'
  <2>1. PICK phase, ask, made, a :
           phase \in MediaPhases /\ readings[r] = Reading(phase, ask, made, a) /\ AnswerFits(ask, a)
    BY DEF MediaInv, ReadingFits
  <2>2. AnswerFits(ask, a)'
    BY <1>2, <2>1 DEF AnswerFits
  <2> QED
    BY <1>1, <2>1, <2>2 DEF ReadingFits
<1> QED
  BY <1>1, <1>3, <1>4 DEF MediaInv

LEMMA MediaInvariant == MediaSpec => []MediaInv
<1>1. ASSUME MediaInv, [MediaNext]_mediaVars PROVE MediaInv'
  <2>1. CASE UNCHANGED mediaVars
    <3>1. PublicFits'
      BY <1>1, <2>1, BucketKept DEF mediaVars
    <3>2. ASSUME NEW r \in Readers PROVE ReadingFits(r)'
      BY <1>1, <2>1 DEF mediaVars, MediaInv, ReadingFits, AnswerFits
    <3> QED
      BY <1>1, <2>1, <3>1, <3>2 DEF mediaVars, MediaInv
  <2>2. ASSUME NEW r \in Readers, Unavailable(r) \/ Unknown(r) PROVE MediaInv'
    BY <1>1, <2>2, Refused DEF Unavailable, Unknown
  <2> QED
    BY <1>1, <2>1, <2>2, MediaAsked, ObjectServed, LinkRenewed, LookedUp, Fetched, Stored, Left, Uploaded DEF MediaNext
<1> QED
  BY <1>1, MediaBegins, PTL DEF MediaSpec

\* RedirectsLead: the image behind a redirect is there and is the one that was
\* asked for, whichever of the simultaneous readers made it.
THEOREM RedirectsAlwaysLead == MediaSpec => []RedirectsLead
<1>1. ASSUME MediaInv, NEW r \in Readers, readings[r].answer.kind = "image"
      PROVE  /\ readings[r].answer.key \in DOMAIN public
             /\ public[readings[r].answer.key].of = ParseImageOptions(readings[r].ask)
  <2>1. PICK ask, a : ask = readings[r].ask /\ a = readings[r].answer
    OBVIOUS
  <2>2. AnswerFits(ask, a)
    BY <1>1, <2>1 DEF MediaInv, ReadingFits, Reading
  <2>3. a.key = CacheKey(ask) /\ a.key \in DOMAIN public /\ NamedRight(a.key)
    BY <1>1, <2>1, <2>2 DEF AnswerFits, MediaInv, PublicFits
  <2> QED
    BY <2>1, <2>3 DEF NamedRight, CacheKey
<1>2. MediaInv => RedirectsLead
  BY <1>1 DEF RedirectsLead
<1> QED
  BY <1>2, MediaInvariant, PTL

THEOREM MediaTyped == MediaSpec => []MediaTypeOK
<1>1. MediaInv => MediaTypeOK
  BY DEF MediaInv, MediaTypeOK, ReadingFits, Reading, MediaPhases, PublicFits
<1> QED
  BY <1>1, MediaInvariant, PTL
-----------------------------------------------------------------------------
(* The providers.                                                           *)

Outcomes == {"none", "not sent", "unknown", "bound"}

\* The one job of a task is where the task's route says, and its own.
JobMeant(s, j) ==
    /\ \E tenant, webhook, status :
          j = [provider |-> route[s].provider, account |-> route[s].account, step |-> s,
               tenant |-> tenant, webhook |-> webhook, status |-> status]
    /\ route[s] # NoRoute /\ answer[s] \in {"unknown", "bound"}

\* A task has one job at most; what was delivered of it, or concluded from it, is
\* how it ended.
TaskMeant(s) ==
    /\ route[s] # NoRoute => route[s].provider \in {LocalProvider, B2B}
    /\ jobs[s] = {} \/ \E j : jobs[s] = {j} /\ JobMeant(s, j)
    /\ answer[s] = "bound" => jobs[s] # {}
    /\ inbox[s] # Absent => \E j \in jobs[s] : inbox[s].status = j.status /\ Concluded(j.status)
    /\ applied[s] # "none" => \E j \in jobs[s] : applied[s] = j.status /\ Concluded(j.status)

ProvidersShapes ==
    /\ running \in [Roles -> ProviderConfigs \cup {Absent}]
    /\ \A role \in Roles : On(role) => Startable(running[role])
    /\ sender \in [Tenants -> LongKeys]
    /\ answer \in [Tasks -> Outcomes] /\ DOMAIN route = Tasks /\ DOMAIN jobs = Tasks
    /\ DOMAIN inbox = Tasks /\ DOMAIN applied = Tasks

ProvidersInv == ProvidersShapes /\ \A s \in Tasks : TaskMeant(s)
-----------------------------------------------------------------------------
LEMMA ProvidersBegin == ProvidersInit => ProvidersInv
BY DEF ProvidersInit, ProvidersInv, ProvidersShapes, TaskMeant, On, NoRoute, Outcomes

\* A process is started or stopped, or a secret changed: nothing of the tasks moves.
LEMMA Operated ==
    ASSUME ProvidersInv,
           \/ \E role \in Roles : Stop(role) \/ \E c \in ProviderConfigs : Start(role, c)
           \/ \E t \in Tenants, key \in LongKeys : RotateSecret(t, key)
    PROVE  ProvidersInv'
<1>1. UNCHANGED <<route, jobs, answer, inbox, applied>>
  BY DEF Stop, Start, RotateSecret
<1>2. \A s \in Tasks : TaskMeant(s)'
  BY <1>1 DEF ProvidersInv, TaskMeant, JobMeant
<1>3. CASE \E role \in Roles, c \in ProviderConfigs \cup {Absent} :
              running' = [running EXCEPT ![role] = c] /\ (c # Absent => Startable(c)) /\ sender' = sender
  <2>1. PICK role \in Roles, c \in ProviderConfigs \cup {Absent} :
           running' = [running EXCEPT ![role] = c] /\ (c # Absent => Startable(c))
    BY <1>3
  <2>2. running' \in [Roles -> ProviderConfigs \cup {Absent}] /\ running'[role] = c
        /\ \A r \in Roles \ {role} : running'[r] = running[r]
    BY <2>1 DEF ProvidersInv, ProvidersShapes
  <2>3. ASSUME NEW r \in Roles, On(r)' PROVE Startable(running[r])'
    <3>1. CASE r = role
      <4>1. c # Absent
        BY <2>2, <2>3, <3>1 DEF On
      <4> QED
        BY <2>1, <2>2, <3>1, <4>1 DEF Startable, ValidateGeneration, EffectiveProvider, NewRegistry, NewClient,
           validLocal, validB2B, LocalKeys, B2BKeys
    <3>2. CASE r # role
      <4>1. running'[r] = running[r] /\ On(r) /\ Startable(running[r])
        BY <2>2, <2>3, <3>2 DEF On, ProvidersInv, ProvidersShapes
      <4> QED
        BY <4>1 DEF Startable, ValidateGeneration, EffectiveProvider, NewRegistry, NewClient,
           validLocal, validB2B, LocalKeys, B2BKeys
    <3> QED
      BY <3>1, <3>2
  <2> QED
    BY <1>1, <1>2, <1>3, <2>2, <2>3 DEF ProvidersInv, ProvidersShapes
<1>4. CASE \E t \in Tenants, key \in LongKeys : RotateSecret(t, key)
  BY <1>1, <1>2, <1>4 DEF RotateSecret, ProvidersInv, ProvidersShapes, On
<1> QED
  BY <1>3, <1>4 DEF Stop, Start

\* One task moves and the others stay.
LEMMA TaskMoves ==
    ASSUME ProvidersInv, UNCHANGED <<running, sender>>, NEW s \in Tasks, TaskMeant(s)',
           DOMAIN route' = Tasks, DOMAIN jobs' = Tasks, answer' \in [Tasks -> Outcomes],
           DOMAIN inbox' = Tasks, DOMAIN applied' = Tasks,
           \A q \in Tasks \ {s} : /\ route'[q] = route[q] /\ jobs'[q] = jobs[q] /\ answer'[q] = answer[q]
                                  /\ inbox'[q] = inbox[q] /\ applied'[q] = applied[q]
    PROVE  ProvidersInv'
<1>1. ASSUME NEW q \in Tasks PROVE TaskMeant(q)'
  <2>1. CASE q = s
    BY <2>1
  <2>2. CASE q # s
    <3>1. /\ route'[q] = route[q] /\ jobs'[q] = jobs[q] /\ answer'[q] = answer[q]
          /\ inbox'[q] = inbox[q] /\ applied'[q] = applied[q]
      BY <2>2
    <3>2. TaskMeant(q)
      BY DEF ProvidersInv
    <3> QED
      BY <3>1, <3>2 DEF TaskMeant, JobMeant
  <2> QED
    BY <2>1, <2>2
<1> QED
  BY <1>1 DEF ProvidersInv, ProvidersShapes, On

\* A task that was given no answer has no job, and nothing was concluded of it.
LEMMA NothingBefore ==
    ASSUME ProvidersInv, NEW s \in Tasks, answer[s] \notin {"unknown", "bound"} \/ route[s] = NoRoute
    PROVE  jobs[s] = {} /\ inbox[s] = Absent /\ applied[s] = "none"
BY DEF ProvidersInv, TaskMeant, JobMeant

LEMMA Admitted ==
    ASSUME ProvidersInv, NEW s \in Tasks, AdmitTask(s)
    PROVE  ProvidersInv'
<1>1. jobs[s] = {} /\ inbox[s] = Absent /\ applied[s] = "none"
  BY NothingBefore DEF AdmitTask
<1>2. route'[s].provider \in {LocalProvider, B2B}
  <2>1. EffectiveProvider(running["gateway"]) \in {LocalProvider, B2B}
    BY DEF AdmitTask, ProvidersInv, ProvidersShapes, Roles, Startable, ValidateGeneration
  <2>2. PICK frozen : frozen = [provider |-> EffectiveProvider(running["gateway"]),
                                account |-> AccountOf(running["gateway"],
                                                      EffectiveProvider(running["gateway"]))]
    OBVIOUS
  <2>3. route' = [route EXCEPT ![s] = frozen]
    BY <2>2 DEF AdmitTask
  <2> QED
    BY <2>1, <2>2, <2>3 DEF ProvidersInv, ProvidersShapes
<1>3. UNCHANGED <<running, jobs, answer, sender, inbox, applied, providersCount>>
  BY DEF AdmitTask
<1>4. DOMAIN route' = Tasks /\ \A q \in Tasks \ {s} : route'[q] = route[q]
  BY DEF AdmitTask, ProvidersInv, ProvidersShapes
<1>5. answer[s] # "bound"
  BY <1>1 DEF ProvidersInv, TaskMeant
<1>6. TaskMeant(s)'
  BY <1>1, <1>2, <1>3, <1>4, <1>5 DEF TaskMeant
<1> QED
  BY <1>3, <1>4, <1>6, TaskMoves DEF ProvidersInv, ProvidersShapes

\* What a submission leaves: no job, or the one its route says; said to be bound
\* only when there is one.
LEMMA Submitted ==
    ASSUME ProvidersInv, NEW s \in Tasks, SubmitTask(s)
    PROVE  ProvidersInv'
<1> PICK c : c = running["worker"]
  OBVIOUS
<1>1. jobs[s] = {} /\ inbox[s] = Absent /\ applied[s] = "none"
  BY NothingBefore DEF SubmitTask
<1>2. UNCHANGED <<running, route, sender, inbox, applied>>
  BY DEF SubmitTask
<1>3. route[s] # NoRoute /\ ForRoute(route[s], c) = route[s]
  BY DEF SubmitTask, ForRoute
<1>4. PICK kept : kept = JobOf(s, c, route[s])
  OBVIOUS
<1>5. PICK said \in {"not sent", "unknown", "bound"} :
         /\ answer' = [answer EXCEPT ![s] = said]
         /\ jobs' = jobs \/ jobs' = [jobs EXCEPT ![s] = {kept}]
         /\ said = "not sent" => jobs' = jobs
         /\ said = "bound" => jobs' = [jobs EXCEPT ![s] = {kept}]
  BY <1>3, <1>4 DEF SubmitTask, Believed
<1>6. /\ answer'[s] = said /\ answer' \in [Tasks -> Outcomes] /\ DOMAIN jobs' = Tasks
      /\ \A q \in Tasks \ {s} : answer'[q] = answer[q] /\ jobs'[q] = jobs[q]
      /\ jobs'[s] \in {{}, {kept}}
      /\ said = "not sent" => jobs'[s] = {}
      /\ said = "bound" => jobs'[s] = {kept}
  BY <1>1, <1>5 DEF ProvidersInv, ProvidersShapes, Outcomes
<1>7. jobs'[s] = {kept} => JobMeant(s, kept)'
  <2>1. \E tenant, webhook, status :
           kept = [provider |-> route[s].provider, account |-> route[s].account, step |-> s,
                  tenant |-> tenant, webhook |-> webhook, status |-> status]
    BY <1>4 DEF JobOf
  <2>2. jobs'[s] = {kept} => said # "not sent"
    BY <1>6
  <2> QED
    BY <1>2, <1>3, <1>6, <2>1, <2>2 DEF JobMeant
<1>8. route[s].provider \in {LocalProvider, B2B}
  BY <1>3 DEF ProvidersInv, TaskMeant
<1>9. TaskMeant(s)'
  BY <1>1, <1>2, <1>6, <1>7, <1>8 DEF TaskMeant
<1> QED
  BY <1>2, <1>6, <1>9, TaskMoves DEF ProvidersInv, ProvidersShapes

\* A job that is over stays as it is, so what was read of it stands.
LEMMA Advanced ==
    ASSUME ProvidersInv, NEW s \in Tasks, Advance(s)
    PROVE  ProvidersInv'
<1>1. UNCHANGED <<running, route, answer, sender, inbox, applied>>
  BY DEF Advance
<1>2. PICK j, status :
         j \in jobs[s] /\ ~Concluded(j.status) /\ jobs' = [jobs EXCEPT ![s] = {[j EXCEPT !.status = status]}]
  BY DEF Advance
<1>3. jobs[s] = {j} /\ JobMeant(s, j)
  BY <1>2 DEF ProvidersInv, TaskMeant
<1>4. inbox[s] = Absent /\ applied[s] = "none"
  BY <1>2, <1>3 DEF ProvidersInv, TaskMeant
<1>5. PICK next : next = [j EXCEPT !.status = status]
  OBVIOUS
<1>6. JobMeant(s, next)'
  <2>1. PICK provider, acct, tenant, webhook, old :
           /\ provider = route[s].provider /\ acct = route[s].account
           /\ j = [provider |-> provider, account |-> acct, step |-> s,
                   tenant |-> tenant, webhook |-> webhook, status |-> old]
    BY <1>3 DEF JobMeant
  <2>2. next = [provider |-> provider, account |-> acct, step |-> s,
                tenant |-> tenant, webhook |-> webhook, status |-> status]
    BY <1>5, <2>1
  <2> QED
    BY <1>1, <1>3, <2>1, <2>2 DEF JobMeant
<1>7. jobs'[s] = {next} /\ DOMAIN jobs' = Tasks /\ \A q \in Tasks \ {s} : jobs'[q] = jobs[q]
  BY <1>2, <1>5 DEF ProvidersInv, ProvidersShapes
<1>8. TaskMeant(s)'
  BY <1>1, <1>4, <1>6, <1>7 DEF ProvidersInv, TaskMeant
<1> QED
  BY <1>1, <1>7, <1>8, TaskMoves DEF ProvidersInv, ProvidersShapes

LEMMA WebhookDelivered ==
    ASSUME ProvidersInv, NEW s \in Tasks, DeliverWebhook(s)
    PROVE  ProvidersInv'
<1>1. UNCHANGED <<running, route, jobs, answer, sender, applied>>
  BY DEF DeliverWebhook
<1>2. PICK j \in jobs[s] :
         /\ Concluded(j.status)
         /\ inbox' = [inbox EXCEPT ![s] =
                [tenant |-> j.tenant, account |-> running["gateway"].b2b.account, status |-> j.status]]
  BY DEF DeliverWebhook
<1>3. inbox'[s].status = j.status /\ DOMAIN inbox' = Tasks /\ \A q \in Tasks \ {s} : inbox'[q] = inbox[q]
  BY <1>2 DEF ProvidersInv, ProvidersShapes
<1>4. TaskMeant(s)'
  <2>1. TaskMeant(s)
    BY DEF ProvidersInv
  <2> QED
    BY <1>1, <1>2, <1>3, <2>1 DEF TaskMeant, JobMeant
<1> QED
  BY <1>1, <1>3, <1>4, TaskMoves DEF ProvidersInv, ProvidersShapes

\* A delivery or a lookup concludes.
LEMMA Concludes ==
    ASSUME ProvidersInv, NEW s \in Tasks, Consume(s) \/ LookUpJob(s)
    PROVE  ProvidersInv'
<1>1. PICK status : /\ Apply(s, status)
                    /\ \E j \in jobs[s] : status = j.status /\ Concluded(j.status)
  <2>1. CASE Consume(s)
    BY <2>1 DEF Consume, ProvidersInv, TaskMeant
  <2>2. CASE LookUpJob(s)
    BY <2>2 DEF LookUpJob, Terminal, Concluded
  <2> QED
    BY <2>1, <2>2
<1>2. UNCHANGED <<running, route, jobs, answer, sender, inbox>>
  BY <1>1 DEF Apply
<1>3. applied'[s] = status /\ DOMAIN applied' = Tasks /\ \A q \in Tasks \ {s} : applied'[q] = applied[q]
  BY <1>1 DEF Apply, ProvidersInv, ProvidersShapes
<1>4. TaskMeant(s)'
  <2>1. TaskMeant(s)
    BY DEF ProvidersInv
  <2> QED
    BY <1>1, <1>2, <1>3, <2>1 DEF TaskMeant, JobMeant
<1> QED
  BY <1>2, <1>3, <1>4, TaskMoves DEF ProvidersInv, ProvidersShapes

LEMMA ProvidersInvariant == ProvidersSpec => []ProvidersInv
<1>1. ASSUME ProvidersInv, [ProvidersNext]_providersVars PROVE ProvidersInv'
  <2>1. CASE UNCHANGED providersVars
    <3>1. \A s \in Tasks : TaskMeant(s)'
      BY <1>1, <2>1 DEF providersVars, ProvidersInv, TaskMeant, JobMeant
    <3>2. ProvidersShapes'
      BY <1>1, <2>1 DEF providersVars, ProvidersInv, ProvidersShapes, On
    <3> QED
      BY <3>1, <3>2 DEF ProvidersInv
  <2> QED
    BY <1>1, <2>1, Operated, Admitted, Submitted, Advanced, WebhookDelivered, Concludes DEF ProvidersNext
<1> QED
  BY <1>1, ProvidersBegin, PTL DEF ProvidersSpec

\* ProvidersSafe: whatever the two processes are restarted with, a job is where
\* its task was frozen to, and what is believed or concluded of it is so.
THEOREM ProvidersStaySafe == ProvidersSpec => []ProvidersSafe
<1>1. ASSUME ProvidersInv, NEW s \in Tasks, NEW j \in jobs[s]
      PROVE  jobs[s] = {j} /\ j.provider = route[s].provider /\ j.account = route[s].account /\ j.step = s
             /\ answer[s] \in {"unknown", "bound"}
  <2>1. jobs[s] = {j} /\ JobMeant(s, j)
    BY <1>1 DEF ProvidersInv, TaskMeant
  <2> QED
    BY <2>1 DEF JobMeant
<1>2. ProvidersInv => RouteKept
  BY <1>1 DEF RouteKept
<1>3. ProvidersInv => SubmissionsTruthful
  BY <1>1 DEF SubmissionsTruthful, ProvidersInv, TaskMeant
<1>4. ProvidersInv => ConclusionsStand
  <2> SUFFICES ASSUME ProvidersInv, NEW s \in Tasks, applied[s] # "none"
               PROVE  \E j \in jobs[s] : j.status = applied[s] /\ j.account = route[s].account
    BY DEF ConclusionsStand
  <2>1. PICK j \in jobs[s] : applied[s] = j.status
    BY DEF ProvidersInv, TaskMeant
  <2> QED
    BY <1>1, <2>1
<1> QED
  BY <1>2, <1>3, <1>4, ProvidersInvariant, PTL DEF ProvidersSafe

THEOREM ProvidersTyped == ProvidersSpec => []ProvidersTypeOK
<1>1. ASSUME ProvidersInv, NEW s \in Tasks PROVE Cardinality(jobs[s]) <= 1
  <2>1. jobs[s] = {} \/ \E j : jobs[s] = {j}
    BY <1>1 DEF ProvidersInv, TaskMeant
  <2>2. CASE jobs[s] = {}
    BY <2>2, FS_EmptySet
  <2>3. ASSUME NEW j, jobs[s] = {j} PROVE Cardinality(jobs[s]) <= 1
    <3>1. Cardinality({j}) = 1
      BY FS_Singleton
    <3> QED
      BY <2>3, <3>1
  <2> QED
    BY <2>1, <2>2, <2>3
<1>2. ProvidersInv => ProvidersTypeOK
  BY <1>1 DEF ProvidersInv, ProvidersShapes, TaskMeant, ProvidersTypeOK, Outcomes
<1> QED
  BY <1>2, ProvidersInvariant, PTL
-----------------------------------------------------------------------------
(* The wire to PayCores.                                                    *)

OrderStates == [status : {"none", "pending", "paid"}, bound : {"local", "remote"}]
RemoteStates == {"none", "open", "paid", "paid less"}
BuyerTold == {"nothing", "checkout", "local only", "unavailable"}

WireShapes ==
    /\ now \in 0..MaxNow
    /\ orders \in [Orders -> OrderStates] /\ remote \in [Orders -> RemoteStates]
    /\ told \in [Orders -> BuyerTold]
    /\ looking = None \/ (looking.order \in Orders /\ looking.user = Owner[looking.order])

\* The nonces of our sends are the numbers so far; the send in flight has the next.
SendsUpTo(n) ==
    nonces = 1..n /\ (checkout = None \/ checkout \in [order : Orders, nonce : {n + 1}, sends : 1..2])
SendsCounted == \E n \in Nat : SendsUpTo(n)

\* PayCores tells only of orders paid there.
MailPaid ==
    /\ IsFiniteSet(mail)
    /\ \A m \in mail : /\ m.nonce \in 1..MaxEnvelopes /\ m.order \in Orders /\ m.at \in Int
                       /\ remote[m.order] \in {"paid", "paid less"}

\* The nonce of what has passed is kept until twice the window after it.
GateKept ==
    /\ \A n \in consumed : n.nonce \in 1..MaxEnvelopes /\ n.expires \in 0..(MaxNow + 2 * CallbackWindow)
    /\ \A p \in passed :
          /\ p.envelope \in mail /\ p.at \in 0..now
          /\ p.envelope.at - p.at \in (-CallbackWindow)..CallbackWindow
          /\ \/ now >= p.at + 2 * CallbackWindow
             \/ \E n \in consumed : n.nonce = p.envelope.nonce /\ n.expires = p.at + 2 * CallbackWindow

HandledMailed == handling \subseteq [envelope : mail, looks : 1..2] /\ acked \subseteq mail

Truthful(o) ==
    /\ orders[o].status = "paid" => remote[o] \in {"paid", "paid less"} /\ orders[o].bound = "remote"
    /\ told[o] = "checkout" => remote[o] # "none" /\ orders[o].bound = "remote"
    /\ orders[o].bound = "remote" => remote[o] # "none"

AckedSettled == \A e \in acked : orders[e.order].status = "paid"

ShownFits ==
    \A s \in shown :
        /\ s.order \in Orders
        /\ s.ready => orders[s.order].status = "paid"
        /\ s.received => remote[s.order] = "paid" \/ orders[s.order].status = "paid"
        /\ s.user = Owner[s.order]

WireInv ==
    /\ WireShapes /\ SendsCounted /\ MailPaid /\ GateKept /\ ReplayOnlyAtTheEdge
    /\ HandledMailed /\ (\A o \in Orders : Truthful(o)) /\ AckedSettled /\ ShownFits
-----------------------------------------------------------------------------
LEMMA WireBegins == PayCoresInit => WireInv
<1> SUFFICES ASSUME PayCoresInit PROVE WireInv
  OBVIOUS
<1>1. WireShapes
  BY PayCoresAssumption DEF PayCoresInit, WireShapes, OrderStates, RemoteStates, BuyerTold
<1>2. SendsCounted
  <2>1. nonces = 1..0 /\ checkout = None
    BY DEF PayCoresInit
  <2> QED
    BY <2>1 DEF SendsCounted, SendsUpTo
<1>3. MailPaid /\ GateKept /\ ReplayOnlyAtTheEdge /\ HandledMailed /\ AckedSettled /\ ShownFits
  BY FS_EmptySet DEF PayCoresInit, MailPaid, GateKept, ReplayOnlyAtTheEdge, HandledMailed, AckedSettled, ShownFits
<1>4. \A o \in Orders : Truthful(o)
  BY DEF PayCoresInit, Truthful
<1> QED
  BY <1>1, <1>2, <1>3, <1>4 DEF WireInv

\* Neither side takes back what it did: paid stays paid, bound stays bound.
Onward ==
    /\ orders' \in [Orders -> OrderStates] /\ remote' \in [Orders -> RemoteStates]
    /\ \A o \in Orders :
          /\ orders[o].status = "paid" => orders'[o].status = "paid"
          /\ orders[o].bound = "remote" => orders'[o].bound = "remote"
          /\ remote[o] # "none" => remote'[o] # "none"
          /\ remote[o] \in {"paid", "paid less"} => remote'[o] = remote[o]

\* Then mail, gate and what was told stay true.
LEMMA StillTrue ==
    ASSUME WireInv, Onward
    PROVE  /\ UNCHANGED mail => MailPaid'
           /\ acked' \subseteq mail /\ acked' = acked => AckedSettled'
           /\ UNCHANGED shown => ShownFits'
<1>1. UNCHANGED mail => MailPaid'
  BY DEF WireInv, MailPaid, Onward
<1>2. acked' \subseteq mail /\ acked' = acked => AckedSettled'
  BY DEF WireInv, HandledMailed, MailPaid, AckedSettled, Onward
<1>3. UNCHANGED shown => ShownFits'
  BY DEF WireInv, ShownFits, Onward
<1> QED
  BY <1>1, <1>2, <1>3

LEMMA GateStays ==
    ASSUME WireInv, UNCHANGED <<now, mail, consumed, passed>>
    PROVE  GateKept' /\ ReplayOnlyAtTheEdge'
BY DEF WireInv, GateKept, ReplayOnlyAtTheEdge

\* A step of the checkout, at either end of it.
LEMMA CheckoutMoves ==
    ASSUME WireInv, Onward, SendsCounted', told' \in [Orders -> BuyerTold],
           \A o \in Orders : Truthful(o)',
           UNCHANGED <<now, mail, consumed, handling, passed, acked, looking, shown>>
    PROVE  WireInv'
<1>1. WireShapes'
  BY DEF WireInv, WireShapes, Onward
<1>2. HandledMailed'
  BY DEF WireInv, HandledMailed
<1>3. acked' \subseteq mail
  BY DEF WireInv, HandledMailed
<1> QED
  BY <1>1, <1>2, <1>3, StillTrue, GateStays DEF WireInv

\* An order is frozen: a status it had, it keeps.
LEMMA OrderFrozen ==
    ASSUME WireInv, NEW o \in Orders, orders' = Froze(o), UNCHANGED remote
    PROVE  /\ Onward
           /\ \A p \in Orders : /\ orders'[p].bound = orders[p].bound
                                /\ orders'[p].status = "paid" => orders[p].status = "paid"
<1>1. PICK status \in {"pending", "paid"} :
         /\ orders' = [orders EXCEPT ![o].status = status]
         /\ orders[o].status = "paid" <=> status = "paid"
  <2> PICK old : old = orders[o].status
    OBVIOUS
  <2>1. old \in {"none", "pending", "paid"}
    BY DEF WireInv, WireShapes, OrderStates
  <2>2. PICK status : status = IF old = "none" THEN "pending" ELSE old
    OBVIOUS
  <2>3. orders' = [orders EXCEPT ![o].status = status]
    BY <2>2 DEF Froze
  <2> QED
    BY <2>1, <2>2, <2>3
<1>2. /\ orders' \in [Orders -> OrderStates] /\ orders'[o].status = status /\ orders'[o].bound = orders[o].bound
      /\ \A p \in Orders \ {o} : orders'[p] = orders[p]
  BY <1>1 DEF WireInv, WireShapes, OrderStates
<1>3. remote' \in [Orders -> RemoteStates]
  BY DEF WireInv, WireShapes
<1> QED
  BY <1>1, <1>2, <1>3 DEF Onward

LEMMA Frozen ==
    ASSUME WireInv, NEW o \in Orders, LocalCheckout(o) \/ Checkout(o)
    PROVE  WireInv'
<1>1. orders' = Froze(o) /\ UNCHANGED <<remote, nonces, now, mail, consumed, handling, passed, acked, looking, shown>>
  BY DEF LocalCheckout, Checkout
<1>2. told' = told \/ told' = [told EXCEPT ![o] = "local only"]
  BY DEF LocalCheckout, Checkout
<1>3. told' \in [Orders -> BuyerTold] /\ \A p \in Orders : told'[p] = "checkout" => told[p] = "checkout"
  BY <1>2 DEF WireInv, WireShapes, BuyerTold
<1>0. /\ Onward
      /\ \A p \in Orders : /\ orders'[p].bound = orders[p].bound
                           /\ orders'[p].status = "paid" => orders[p].status = "paid"
  BY <1>1, OrderFrozen
<1>4. \A p \in Orders : Truthful(p)'
  <2> TAKE p \in Orders
  <2>1. /\ orders'[p].bound = orders[p].bound /\ remote' = remote
        /\ orders'[p].status = "paid" => orders[p].status = "paid"
    BY <1>0, <1>1
  <2>2. Truthful(p)
    BY DEF WireInv
  <2> QED
    BY <1>3, <2>1, <2>2 DEF Truthful
<1>5. SendsCounted'
  <2>1. PICK n \in Nat : SendsUpTo(n)
    BY DEF WireInv, SendsCounted
  <2>2. CASE LocalCheckout(o)
    <3>1. UNCHANGED <<checkout, nonces>>
      BY <2>2 DEF LocalCheckout
    <3>2. SendsUpTo(n)'
      BY <2>1, <3>1 DEF SendsUpTo
    <3> QED
      BY <3>2 DEF SendsCounted
  <2>3. CASE Checkout(o)
    <3>1. FreshNonce(nonces) = n + 1
      <4>1. Cardinality(1..n) = n
        BY FS_Interval
      <4>2. nonces = 1..n
        BY <2>1 DEF SendsUpTo
      <4> QED
        BY <4>1, <4>2 DEF FreshNonce
    <3>2. checkout' = [order |-> o, nonce |-> n + 1, sends |-> 1]
      BY <2>3, <3>1 DEF Checkout
    <3>3. checkout' \in [order : Orders, nonce : {n + 1}, sends : 1..2]
      BY <3>2
    <3>4. SendsUpTo(n)'
      BY <1>1, <2>1, <3>3 DEF SendsUpTo
    <3> QED
      BY <3>4 DEF SendsCounted
  <2> QED
    BY <2>2, <2>3
<1> QED
  BY <1>0, <1>1, <1>3, <1>4, <1>5, CheckoutMoves

\* PayCores has seen the nonce; what it holds of the order, it keeps.
LEMMA Sent ==
    ASSUME WireInv, checkout # None,
           nonces' = nonces \cup {checkout.nonce}, TakenByPayCores \/ UNCHANGED remote
    PROVE  /\ checkout.order \in Orders
           /\ remote' \in [Orders -> RemoteStates]
           /\ \A o \in Orders : /\ remote[o] # "none" => remote'[o] = remote[o]
           /\ \E n \in Nat : /\ nonces' = 1..n /\ FreshNonce(nonces') = n + 1
                             /\ checkout.nonce = n /\ checkout.sends \in 1..2
                            /\ checkout = [order |-> checkout.order, nonce |-> n, sends |-> checkout.sends]
<1>1. PICK n \in Nat : nonces = 1..n /\ checkout \in [order : Orders, nonce : {n + 1}, sends : 1..2]
  BY DEF WireInv, SendsCounted, SendsUpTo
<1>2. nonces' = 1..(n + 1)
  BY <1>1
<1>3. FreshNonce(nonces') = (n + 1) + 1
  <2>1. Cardinality(1..(n + 1)) = n + 1
    BY FS_Interval
  <2> QED
    BY <1>2, <2>1 DEF FreshNonce
<1>4. /\ remote' \in [Orders -> RemoteStates]
      /\ \A o \in Orders : /\ remote[o] # "none" => remote'[o] = remote[o]
  <2>1. CASE TakenByPayCores /\ ~UNCHANGED remote
    <3> PICK o : o = checkout.order
      OBVIOUS
    <3> PICK old, next : old = remote[o] /\ next = IF old = "none" THEN "open" ELSE old
      OBVIOUS
    <3>1. remote' = [remote EXCEPT ![o] = next]
      BY <2>1 DEF TakenByPayCores
    <3>2. o \in Orders /\ old \in RemoteStates /\ next \in RemoteStates
      BY <1>1 DEF WireInv, WireShapes, RemoteStates
    <3> QED
      BY <3>1, <3>2 DEF WireInv, WireShapes
  <2>2. CASE UNCHANGED remote
    BY <2>2 DEF WireInv, WireShapes
  <2> QED
    BY <2>1, <2>2
<1> QED
  BY <1>1, <1>2, <1>3, <1>4

\* A send without an answer is repeated once, with a nonce of its own, or given up.
LEMMA Lost ==
    ASSUME WireInv, RequestLost \/ AnswerLost
    PROVE  WireInv'
<1>1. /\ checkout # None /\ nonces' = nonces \cup {checkout.nonce} /\ (TakenByPayCores \/ UNCHANGED remote)
      /\ Resent
      /\ UNCHANGED <<orders, now, mail, consumed, handling, passed, acked, looking, shown>>
  BY DEF RequestLost, AnswerLost, TakenByPayCores
<1>2. Onward
  BY <1>1, Sent DEF Onward, WireInv, WireShapes
<1>3. PICK n \in Nat, o \in Orders :
         /\ nonces' = 1..n /\ FreshNonce(nonces') = n + 1
         /\ checkout.order = o /\ checkout.sends \in 1..2
         /\ checkout = [order |-> o, nonce |-> n, sends |-> checkout.sends]
  BY <1>1, Sent
<1>4. SendsCounted'
  <2>1. checkout' = None \/ checkout' = [checkout EXCEPT !.sends = 2, !.nonce = n + 1]
    BY <1>1, <1>3 DEF Resent
  <2>2. checkout' = None \/ checkout' = [order |-> o, nonce |-> n + 1, sends |-> 2]
    <3> PICK sends : checkout = [order |-> o, nonce |-> n, sends |-> sends]
      BY <1>3
    <3> QED
      BY <2>1
  <2> QED
    BY <1>3, <2>2 DEF SendsCounted, SendsUpTo
<1>5. told' \in [Orders -> BuyerTold] /\ \A p \in Orders : told'[p] = "checkout" => told[p] = "checkout"
  BY <1>1, <1>3 DEF Resent, WireInv, WireShapes, BuyerTold
<1>6. \A p \in Orders : Truthful(p)'
  BY <1>1, <1>2, <1>5 DEF WireInv, Truthful, Onward
<1> QED
  BY <1>1, <1>2, <1>4, <1>5, <1>6, CheckoutMoves

LEMMA AnswerUsed ==
    ASSUME WireInv, Answered
    PROVE  WireInv'
<1>1. /\ checkout # None /\ nonces' = nonces \cup {checkout.nonce} /\ TakenByPayCores
      /\ checkout' = None
      /\ UNCHANGED <<now, mail, consumed, handling, passed, acked, looking, shown>>
  BY DEF Answered, TakenByPayCores
<1>2. PICK o \in Orders : checkout.order = o
  BY <1>1, Sent
<1>3. SendsCounted'
  BY <1>1, Sent DEF SendsCounted, SendsUpTo
<1>4. CASE orders' = orders /\ told' = [told EXCEPT ![o] = "unavailable"]
  <2>1. Onward
    BY <1>1, <1>4, Sent DEF Onward, WireInv, WireShapes
  <2>2. told' \in [Orders -> BuyerTold] /\ \A p \in Orders : told'[p] = "checkout" => told[p] = "checkout"
    BY <1>4 DEF WireInv, WireShapes, BuyerTold
  <2>3. \A p \in Orders : Truthful(p)'
    BY <1>4, <2>1, <2>2 DEF WireInv, Truthful, Onward
  <2> QED
    BY <1>1, <1>3, <2>1, <2>2, <2>3, CheckoutMoves
<1>5. CASE /\ remote'[o] # "none" /\ orders' = [orders EXCEPT ![o].bound = "remote"]
           /\ told' = [told EXCEPT ![o] = "checkout"]
  <2>1. /\ orders' \in [Orders -> OrderStates] /\ orders'[o].bound = "remote"
        /\ orders'[o].status = orders[o].status
        /\ \A p \in Orders \ {o} : orders'[p] = orders[p]
    BY <1>5 DEF WireInv, WireShapes, OrderStates
  <2>2. Onward
    BY <1>1, <2>1, Sent DEF Onward
  <2>3. told' \in [Orders -> BuyerTold] /\ \A p \in Orders \ {o} : told'[p] = told[p]
    BY <1>5 DEF WireInv, WireShapes, BuyerTold
  <2>4. \A p \in Orders : Truthful(p)'
    <3> TAKE p \in Orders
    <3>1. CASE p = o
      <4>1. Truthful(p) /\ orders[p].bound \in {"local", "remote"}
        BY DEF WireInv, WireShapes, OrderStates
      <4>2. orders[p].status = "paid" => remote[p] \in {"paid", "paid less"} /\ remote'[p] = remote[p]
        BY <2>2, <4>1 DEF Truthful, Onward
      <4> QED
        BY <1>5, <2>1, <3>1, <4>2 DEF Truthful
    <3>2. CASE p # o
      <4>1. Truthful(p) /\ orders'[p] = orders[p] /\ told'[p] = told[p]
        BY <2>1, <2>3, <3>2 DEF WireInv
      <4> QED
        BY <2>2, <4>1 DEF Truthful, Onward
    <3> QED
      BY <3>1, <3>2
  <2> QED
    BY <1>1, <1>3, <2>2, <2>3, <2>4, CheckoutMoves
<1> QED
  BY <1>2, <1>4, <1>5 DEF Answered

LEMMA Paid ==
    ASSUME WireInv, NEW o \in Orders, Pay(o)
    PROVE  WireInv'
<1>1. PICK state \in {"paid", "paid less"} : remote' = [remote EXCEPT ![o] = state]
  BY DEF Pay
<1>2. remote[o] = "open"
      /\ UNCHANGED <<now, orders, checkout, nonces, told, mail, consumed, handling, passed, acked, looking, shown>>
  BY DEF Pay
<1>3. /\ remote' \in [Orders -> RemoteStates] /\ remote'[o] = state
      /\ \A p \in Orders \ {o} : remote'[p] = remote[p]
  BY <1>1 DEF WireInv, WireShapes, RemoteStates
<1>4. Onward
  BY <1>2, <1>3 DEF Onward, WireInv, WireShapes
<1>5. SendsCounted' /\ told' \in [Orders -> BuyerTold]
  BY <1>2 DEF WireInv, SendsCounted, SendsUpTo, WireShapes
<1>6. \A p \in Orders : Truthful(p)'
  BY <1>2, <1>3 DEF WireInv, Truthful
<1> QED
  BY <1>2, <1>4, <1>5, <1>6, CheckoutMoves
-----------------------------------------------------------------------------
(* A confirmation.                                                          *)

LEMMA StandsStill ==
    ASSUME WireInv, UNCHANGED <<orders, remote>>
    PROVE  Onward
BY DEF WireInv, WireShapes, Onward

\* What a callback or a reader does leaves the checkout where it was.
LEMMA CheckoutStands ==
    ASSUME WireInv, UNCHANGED <<checkout, nonces, told, remote>>
    PROVE  SendsCounted' /\ told' \in [Orders -> BuyerTold] /\ remote' \in [Orders -> RemoteStates]
<1>1. PICK n \in Nat : SendsUpTo(n)
  BY DEF WireInv, SendsCounted
<1>2. SendsUpTo(n)'
  BY <1>1 DEF SendsUpTo
<1> QED
  BY <1>2 DEF WireInv, WireShapes, SendsCounted

LEMMA Notified ==
    ASSUME WireInv, NEW o \in Orders, Notify(o)
    PROVE  WireInv'
<1>1. /\ remote[o] \in {"paid", "paid less"} /\ Cardinality(mail) < MaxEnvelopes
      /\ UNCHANGED <<now, orders, remote, checkout, nonces, told, consumed, handling, passed, acked, looking, shown>>
  BY DEF Notify
<1>2. PICK skew \in Skews :
         mail' = mail \cup {[nonce |-> Cardinality(mail) + 1, order |-> o, at |-> now + skew]}
  BY DEF Notify
<1>3. PICK m : m = [nonce |-> Cardinality(mail) + 1, order |-> o, at |-> now + skew]
  OBVIOUS
<1>4. m.nonce \in 1..MaxEnvelopes /\ m.order = o /\ m.at \in Int
  <2>1. Cardinality(mail) \in Nat
    BY FS_CardinalityType DEF WireInv, MailPaid
  <2>2. Cardinality(mail) + 1 \in 1..MaxEnvelopes
    <3>1. PICK size \in Nat : size = Cardinality(mail)
      BY <2>1
    <3>2. size < MaxEnvelopes /\ MaxEnvelopes \in Nat
      BY <1>1, <3>1, PayCoresAssumption
    <3>3. size + 1 \in 1..MaxEnvelopes
      BY <3>2
    <3> QED
      BY <3>1, <3>3
  <2>3. now + skew \in Int
    BY PayCoresAssumption DEF WireInv, WireShapes
  <2> QED
    BY <1>3, <2>2, <2>3
<1>5. mail' = mail \cup {m}
  BY <1>2, <1>3
<1>6. MailPaid'
  <2>1. IsFiniteSet(mail')
    BY <1>5, FS_AddElement DEF WireInv, MailPaid
  <2> QED
    BY <1>1, <1>4, <1>5, <2>1 DEF WireInv, MailPaid
<1>7. GateKept' /\ ReplayOnlyAtTheEdge'
  BY <1>1, <1>5 DEF WireInv, GateKept, ReplayOnlyAtTheEdge
<1>8. HandledMailed' /\ acked' \subseteq mail
  BY <1>1, <1>5 DEF WireInv, HandledMailed
<1>9. WireShapes' /\ \A p \in Orders : Truthful(p)'
  BY <1>1 DEF WireInv, WireShapes, Truthful
<1> QED
  BY <1>1, <1>6, <1>7, <1>8, <1>9, CheckoutStands, StandsStill, StillTrue DEF WireInv

\* What passes the gate anew was kept for twice the window before.
LEMMA Passed ==
    ASSUME WireInv, NEW e \in mail, NEW s \in Shapes, Pass(e, s)
    PROVE  WireInv'
<1>1. /\ UNCHANGED <<now, orders, remote, checkout, nonces, told, mail, acked, looking, shown>>
      /\ \A n \in consumed : n.nonce # e.nonce
  BY DEF Pass
<1>2. PICK kept : kept = [nonce |-> e.nonce, expires |-> now + 2 * CallbackWindow]
  OBVIOUS
<1>3. PICK new : new = [envelope |-> e, at |-> now]
  OBVIOUS
<1>4. PICK h : h = [envelope |-> e, looks |-> 1]
  OBVIOUS
<1>5. consumed' = consumed \cup {kept} /\ passed' = passed \cup {new} /\ handling' = handling \cup {h}
  BY <1>2, <1>3, <1>4 DEF Pass, NonceExpiry
<1>6. /\ now \in 0..MaxNow /\ e.at \in Int /\ e.nonce \in 1..MaxEnvelopes
      /\ e.at - now \in (-CallbackWindow)..CallbackWindow
  BY DEF WireInv, WireShapes, MailPaid, Pass, EnvelopeVerified, FreshTimestamp
<1>7. kept.nonce = e.nonce /\ kept.expires = now + 2 * CallbackWindow
  BY <1>2
<1>8. new.envelope = e /\ new.at = now
  BY <1>3
<1>9. ASSUME NEW p \in passed
      PROVE  /\ p.at \in 0..now /\ p.envelope.at - p.at \in (-CallbackWindow)..CallbackWindow
             /\ p.envelope \in mail /\ p.envelope.at \in Int
             /\ p.envelope = e => now >= p.at + 2 * CallbackWindow
  BY <1>1, <1>9 DEF WireInv, GateKept, MailPaid
<1>10. GateKept'
  <2>1. \A n \in consumed' : n.nonce \in 1..MaxEnvelopes /\ n.expires \in 0..(MaxNow + 2 * CallbackWindow)
    <3>1. kept.expires \in 0..(MaxNow + 2 * CallbackWindow)
      BY <1>6, <1>7, PayCoresAssumption
    <3> QED
      BY <1>5, <1>6, <1>7, <3>1 DEF WireInv, GateKept
  <2>2. ASSUME NEW p \in passed'
        PROVE  /\ p.envelope \in mail /\ p.at \in 0..now
               /\ p.envelope.at - p.at \in (-CallbackWindow)..CallbackWindow
               /\ \/ now >= p.at + 2 * CallbackWindow
                  \/ \E n \in consumed' : n.nonce = p.envelope.nonce /\ n.expires = p.at + 2 * CallbackWindow
    <3>1. CASE p = new
      BY <1>5, <1>6, <1>7, <1>8, <3>1
    <3>2. CASE p \in passed
      BY <1>5, <3>2 DEF WireInv, GateKept
    <3> QED
      BY <1>5, <3>1, <3>2
  <2> QED
    BY <1>1, <2>1, <2>2 DEF GateKept
<1>11. ReplayOnlyAtTheEdge'
  <2>1. ASSUME NEW p \in passed', NEW q \in passed', p.envelope = q.envelope, p.at < q.at
        PROVE  p.at = q.at - 2 * CallbackWindow /\ q.at = p.envelope.at + CallbackWindow
    <3>1. CASE p \in passed /\ q \in passed
      BY <2>1, <3>1 DEF WireInv, ReplayOnlyAtTheEdge
    <3>2. CASE p = new
      <4>1. q.at \in 0..now
        BY <1>5, <1>6, <1>8, <1>9
      <4> QED
        BY <1>6, <1>8, <2>1, <3>2, <4>1
    <3>3. CASE p \in passed /\ q = new
      <4>1. p.envelope = e /\ q.at = now
        BY <1>8, <2>1, <3>3
      <4>2. /\ p.at \in 0..now /\ e.at - p.at \in (-CallbackWindow)..CallbackWindow
            /\ now >= p.at + 2 * CallbackWindow
        BY <1>9, <3>3, <4>1
      <4>3. p.at = now - 2 * CallbackWindow /\ now = e.at + CallbackWindow
        BY <1>6, <4>2, PayCoresAssumption
      <4> QED
        BY <4>1, <4>3
    <3> QED
      BY <1>5, <3>1, <3>2, <3>3
  <2> QED
    BY <2>1 DEF ReplayOnlyAtTheEdge
<1>12. HandledMailed' /\ acked' \subseteq mail
  BY <1>1, <1>4, <1>5 DEF WireInv, HandledMailed
<1>13. WireShapes' /\ \A p \in Orders : Truthful(p)'
  BY <1>1 DEF WireInv, WireShapes, Truthful
<1> QED
  BY <1>1, <1>10, <1>11, <1>12, <1>13, CheckoutStands, StandsStill, StillTrue DEF WireInv

\* A confirmation handled: settled, or looked for again, or given up.
LEMMA Handled ==
    ASSUME WireInv, NEW h \in handling, LookAgain(h) \/ SettleConfirmed(h) \/ FailCallback(h)
    PROVE  WireInv'
<1>1. UNCHANGED <<now, remote, checkout, nonces, told, mail, consumed, passed, looking, shown>>
  BY DEF LookAgain, SettleConfirmed, FailCallback
<1>2. h \in [envelope : mail, looks : 1..2]
  BY DEF WireInv, HandledMailed
<1>3. handling' \subseteq [envelope : mail, looks : 1..2]
  <2>1. CASE LookAgain(h)
    <3> PICK g : g = [h EXCEPT !.looks = 2]
      OBVIOUS
    <3>1. g \in [envelope : mail, looks : 1..2]
      BY <1>2
    <3>2. handling' = (handling \ {h}) \cup {g}
      BY <2>1 DEF LookAgain
    <3> QED
      BY <3>1, <3>2 DEF WireInv, HandledMailed
  <2>2. CASE SettleConfirmed(h) \/ FailCallback(h)
    BY <2>2 DEF SettleConfirmed, FailCallback, WireInv, HandledMailed
  <2> QED
    BY <2>1, <2>2
<1>4. CASE LookAgain(h) \/ FailCallback(h)
  <2>1. UNCHANGED <<orders, acked>>
    BY <1>4 DEF LookAgain, FailCallback
  <2>2. HandledMailed' /\ acked' \subseteq mail
    BY <1>1, <1>3, <2>1 DEF WireInv, HandledMailed
  <2>3. WireShapes' /\ \A p \in Orders : Truthful(p)'
    BY <1>1, <2>1 DEF WireInv, WireShapes, Truthful
  <2> QED
    BY <1>1, <2>1, <2>2, <2>3, CheckoutStands, StandsStill, StillTrue, GateStays DEF WireInv
<1>5. CASE SettleConfirmed(h)
  <2> PICK o : o = h.envelope.order
    OBVIOUS
  <2>1. o \in Orders /\ remote[o] \in {"paid", "paid less"}
    BY <1>2 DEF WireInv, MailPaid
  <2>2. /\ orders[o].bound = "remote" /\ orders' = [orders EXCEPT ![o].status = "paid"]
        /\ acked' = acked \cup {h.envelope}
    BY <1>5 DEF SettleConfirmed
  <2>3. /\ orders' \in [Orders -> OrderStates] /\ orders'[o].status = "paid" /\ orders'[o].bound = "remote"
        /\ \A p \in Orders \ {o} : orders'[p] = orders[p]
    BY <2>1, <2>2 DEF WireInv, WireShapes, OrderStates
  <2>4. Onward
    BY <1>1, <2>3 DEF Onward, WireInv, WireShapes
  <2>5. HandledMailed'
    BY <1>1, <1>2, <1>3, <2>2 DEF WireInv, HandledMailed
  <2>6. AckedSettled'
    <3>1. \A e \in acked : e.order \in Orders /\ orders[e.order].status = "paid"
      BY DEF WireInv, HandledMailed, MailPaid, AckedSettled
    <3> QED
      BY <2>2, <2>3, <3>1 DEF AckedSettled
  <2>7. ASSUME NEW p \in Orders PROVE Truthful(p)'
    <3>1. Truthful(p)
      BY DEF WireInv
    <3>2. CASE p = o
      BY <1>1, <2>1, <2>3, <3>2 DEF Truthful
    <3>3. CASE p # o
      BY <1>1, <2>3, <3>1, <3>3 DEF Truthful
    <3> QED
      BY <3>2, <3>3
  <2>8. WireShapes'
    BY <1>1, <2>3 DEF WireInv, WireShapes
  <2> QED
    BY <1>1, <2>4, <2>5, <2>6, <2>7, <2>8, CheckoutStands, StillTrue, GateStays DEF WireInv
<1> QED
  BY <1>4, <1>5

\* A nonce forgotten is one whose time has passed.
LEMMA Forgotten ==
    ASSUME WireInv, NEW n \in consumed, Forget(n)
    PROVE  WireInv'
<1>1. /\ n.expires <= now /\ consumed' = consumed \ {n}
      /\ UNCHANGED <<now, orders, remote, checkout, nonces, told, mail, handling, passed, acked, looking, shown>>
  BY DEF Forget
<1>2. GateKept' /\ ReplayOnlyAtTheEdge'
  BY <1>1 DEF WireInv, GateKept, ReplayOnlyAtTheEdge
<1>3. HandledMailed' /\ acked' \subseteq mail
  BY <1>1 DEF WireInv, HandledMailed
<1>4. WireShapes' /\ \A p \in Orders : Truthful(p)'
  BY <1>1 DEF WireInv, WireShapes, Truthful
<1> QED
  BY <1>1, <1>2, <1>3, <1>4, CheckoutStands, StandsStill, StillTrue DEF WireInv

LEMMA Later ==
    ASSUME WireInv, TimePasses
    PROVE  WireInv'
<1>1. /\ now < MaxNow /\ now' = now + 1
      /\ UNCHANGED <<orders, remote, checkout, nonces, told, mail, consumed, handling, passed, acked, looking, shown>>
  BY DEF TimePasses
<1>2. now \in 0..MaxNow /\ now' \in 0..MaxNow
  BY <1>1, PayCoresAssumption DEF WireInv, WireShapes
<1>3. ReplayOnlyAtTheEdge'
  BY <1>1 DEF WireInv, ReplayOnlyAtTheEdge
<1>4. GateKept'
  <2>1. ASSUME NEW p \in passed
        PROVE  /\ p.at \in 0..now'
               /\ now >= p.at + 2 * CallbackWindow => now' >= p.at + 2 * CallbackWindow
    BY <1>1, <1>2, PayCoresAssumption DEF WireInv, GateKept
  <2> QED
    BY <1>1, <2>1 DEF WireInv, GateKept
<1>5. HandledMailed' /\ acked' \subseteq mail
  BY <1>1 DEF WireInv, HandledMailed
<1>6. WireShapes' /\ \A p \in Orders : Truthful(p)'
  BY <1>1, <1>2 DEF WireInv, WireShapes, Truthful
<1> QED
  BY <1>1, <1>3, <1>4, <1>5, <1>6, CheckoutStands, StandsStill, StillTrue DEF WireInv
-----------------------------------------------------------------------------
(* What buyers are told.                                                    *)

LEMMA Told ==
    ASSUME WireInv, (\E u \in Buyers, o \in Orders : Look(u, o)) \/ TellBuyer
    PROVE  WireInv'
<1>1. UNCHANGED <<now, orders, remote, checkout, nonces, told, mail, consumed, handling, passed, acked>>
  BY DEF Look, TellBuyer
<1>2. /\ looking' = None \/ (looking'.order \in Orders /\ looking'.user = Owner[looking'.order])
      /\ \/ shown' = shown
         \/ \E o \in Orders, received, ready \in BOOLEAN :
               /\ shown' = shown \cup {[user |-> Owner[o], order |-> o, received |-> received, ready |-> ready]}
               /\ ready => orders[o].status = "paid"
               /\ received => remote[o] = "paid" \/ orders[o].status = "paid"
  <2>1. CASE \E u \in Buyers, o \in Orders : Look(u, o)
    <3> PICK u \in Buyers, o \in Orders : Look(u, o)
      BY <2>1
    <3>1. CASE AsksPayCores(orders[o])
      BY <3>1 DEF Look
    <3>2. CASE ~AsksPayCores(orders[o])
      <4> PICK paid \in BOOLEAN : paid <=> orders[o].status = "paid"
        OBVIOUS
      <4>1. Owner[o] = u /\ looking' = None
        BY <3>2 DEF Look
      <4>2. shown' = shown \cup {[user |-> u, order |-> o, received |-> paid, ready |-> paid]}
        BY <3>2 DEF Look, Show
      <4> QED
        BY <4>1, <4>2
    <3> QED
      BY <3>1, <3>2
  <2>2. CASE TellBuyer
    <3> PICK o \in Orders : o = looking.order /\ looking.user = Owner[o]
      BY <2>2 DEF TellBuyer, WireInv, WireShapes
    <3>1. PICK received \in BOOLEAN :
             /\ shown' = shown \cup {[user |-> Owner[o], order |-> o, received |-> received, ready |-> FALSE]}
             /\ received => remote[o] = "paid"
      BY <2>2 DEF TellBuyer, Show, Received
    <3> QED
      BY <2>2, <3>1 DEF TellBuyer
  <2> QED
    BY <2>1, <2>2
<1>3. ShownFits'
  <2>1. CASE shown' = shown
    BY <1>1, <2>1 DEF WireInv, ShownFits
  <2>2. ASSUME NEW o \in Orders, NEW received \in BOOLEAN, NEW ready \in BOOLEAN,
               shown' = shown \cup {[user |-> Owner[o], order |-> o, received |-> received, ready |-> ready]},
               ready => orders[o].status = "paid",
               received => remote[o] = "paid" \/ orders[o].status = "paid"
        PROVE  ShownFits'
    BY <1>1, <2>2 DEF WireInv, ShownFits
  <2> QED
    BY <1>2, <2>1, <2>2
<1>4. WireShapes' /\ \A p \in Orders : Truthful(p)'
  BY <1>1, <1>2 DEF WireInv, WireShapes, Truthful
<1>5. HandledMailed' /\ acked' \subseteq mail
  BY <1>1 DEF WireInv, HandledMailed
<1> QED
  BY <1>1, <1>3, <1>4, <1>5, CheckoutStands, StandsStill, StillTrue, GateStays DEF WireInv
-----------------------------------------------------------------------------
LEMMA WireInvariant == PayCoresSpec => []WireInv
<1>1. ASSUME WireInv, [PayCoresNext]_paycoresVars PROVE WireInv'
  <2>1. CASE UNCHANGED paycoresVars
    <3>1. HandledMailed' /\ acked' \subseteq mail /\ WireShapes' /\ \A p \in Orders : Truthful(p)'
      BY <1>1, <2>1 DEF paycoresVars, WireInv, HandledMailed, WireShapes, Truthful
    <3> QED
      BY <1>1, <2>1, <3>1, CheckoutStands, StandsStill, StillTrue, GateStays DEF WireInv, paycoresVars
  <2> QED
    BY <1>1, <2>1, Frozen, Paid, Notified, Lost, AnswerUsed, Passed, Handled, Forgotten, Told, Later DEF PayCoresNext
<1> QED
  BY <1>1, WireBegins, PTL DEF PayCoresSpec

\* PayCoresSafe: a confirmation passes the gate twice only at the edge of its
\* window, no send reuses a nonce, what was acknowledged is settled, and buyers are
\* told what is so.
THEOREM PayCoresStaysSafe == PayCoresSpec => []PayCoresSafe
<1>1. ASSUME WireInv PROVE SendsAreNew
  <2>1. PICK n \in Nat : SendsUpTo(n)
    BY <1>1 DEF WireInv, SendsCounted
  <2> QED
    BY <2>1 DEF SendsUpTo, SendsAreNew
<1>2. ASSUME WireInv PROVE AckedIsSettled
  BY <1>2 DEF WireInv, AckedIsSettled, AckedSettled, Truthful
<1>3. ASSUME WireInv PROVE ShownIsTrue
  BY <1>3 DEF WireInv, ShownIsTrue, ShownFits
<1>4. WireInv => PayCoresSafe
  BY <1>1, <1>2, <1>3 DEF WireInv, PayCoresSafe
<1> QED
  BY <1>4, WireInvariant, PTL

THEOREM PayCoresTyped == PayCoresSpec => []PayCoresTypeOK
<1>1. ASSUME WireInv
      PROVE  (checkout = None \/ checkout \in [order : Orders, nonce : Nat, sends : 1..2]) /\ nonces \subseteq Nat
  <2>1. PICK n \in Nat : SendsUpTo(n)
    BY <1>1 DEF WireInv, SendsCounted
  <2> QED
    BY <2>1 DEF SendsUpTo
<1>2. ASSUME WireInv PROVE PayCoresTypeOK
  BY <1>1, <1>2 DEF WireInv, WireShapes, MailPaid, GateKept, HandledMailed, PayCoresTypeOK, OrderStates, RemoteStates, BuyerTold
<1> QED
  BY <1>2, WireInvariant, PTL
-----------------------------------------------------------------------------
\* EdgeSafe: what stands between the clients and the components behind the
\* gateway keeps its promises together.
THEOREM EdgeStaysSafe == EdgeSpec => []EdgeSafe
BY GatewayStaysSafe, RedirectsAlwaysLead, ProvidersStaySafe, PayCoresStaysSafe, PTL DEF EdgeSpec, EdgeSafe

(* Feeds.                                                                    *)

EntryStatuses == {"pending", "succeeded", "failed", "confiscated"}
ListedEntry == [id : Ids, at : Times, kind : WorkKinds, status : EntryStatuses, asset : BOOLEAN]
ToldEntry == [id : Ids, status : EntryStatuses, url : BOOLEAN, error : BOOLEAN]
ListQuery ==
    [kind : WorkKinds \cup {"all"}, limit : Limits, skip : Nat, cursor : [at : Times, id : Ids] \cup {Nothing}]

\* Documents of one identifier each.
ListMeant ==
    /\ listing \in Listings
    /\ IsFiniteSet(listed) /\ listed \subseteq ListedEntry
    /\ \A e, f \in listed : e.id = f.id => e = f

\* What settlement leaves of an entry.
PlaceOf(e) == [id |-> e.id, at |-> e.at, kind |-> e.kind]
Places == {PlaceOf(e) : e \in listed}

ReaderShape ==
    \/ reader = [phase |-> "new"]
    \/ reader \in [phase : {"reading", "done"}, by : {"cursor", "skip"}, told : Seq(ToldEntry),
                   known : SUBSET Ids, query : ListQuery]

\* What the reader knew of and was told is there still.
ToldMeant ==
    reader.phase # "new" =>
        /\ \A i \in reader.known : \E x \in Places : x.id = i /\ reader.query.kind \in {"all", x.kind}
        /\ \A n \in DOMAIN reader.told : \E x \in Places : x.id = reader.told[n].id
        /\ reader.phase = "done" => reader.known \subseteq ToldIds(reader)

\* What lies before the cursor has been told.
ByCursor ==
    reader.phase # "new" /\ reader.by = "cursor" =>
        /\ reader.query.skip = 0
        /\ \A m, n \in DOMAIN reader.told : m < n =>
              \A x, y \in Places : x.id = reader.told[m].id /\ y.id = reader.told[n].id => Newer(x, y)
        /\ reader.phase = "reading" =>
              IF reader.told = << >> THEN reader.query.cursor = Nothing
              ELSE /\ reader.query.cursor # Nothing
                   /\ reader.query.cursor.id = reader.told[Len(reader.told)].id
                   /\ \E x \in Places : x.id = reader.query.cursor.id /\ x.at = reader.query.cursor.at
                   /\ \A x \in Places : x.id \in reader.known \ ToldIds(reader) => After(x, reader.query.cursor)

\* What lies before the place to go on from has been told: entries only sink.
BySkip ==
    reader.phase # "new" /\ reader.by = "skip" =>
        /\ listing = "ledger" /\ reader.query.kind = "all" /\ reader.query.cursor = Nothing
        /\ reader.phase = "reading" =>
              \A e \in listed : e.id \in reader.known \ ToldIds(reader) =>
                  reader.query.skip <= Rank(e, listed, NewestFirst)

ReadingInv == ListMeant /\ ReaderShape /\ ToldMeant /\ ByCursor /\ BySkip

LEMMA ReadingInitInv == FeedsInit => ReadingInv
<1> SUFFICES ASSUME FeedsInit PROVE ReadingInv  OBVIOUS
<1>1. reader = [phase |-> "new"] /\ listed = {} /\ listing \in Listings
  BY DEF FeedsInit
<1>2. reader.phase = "new"
  BY <1>1
<1>3. ListMeant
  BY <1>1, FS_EmptySet DEF ListMeant
<1>4. QED BY <1>1, <1>2, <1>3 DEF ReadingInv, ReaderShape, ToldMeant, ByCursor, BySkip

LEMMA PlacesMeant ==
    ASSUME ListMeant
    PROVE  /\ \A e \in listed : /\ PlaceOf(e) \in Places /\ PlaceOf(e).id = e.id /\ PlaceOf(e).at = e.at
                                /\ PlaceOf(e).kind = e.kind
           /\ \A x \in Places : \E e \in listed : x = PlaceOf(e)
           /\ \A x, y \in Places : x.id = y.id => x = y
           /\ \A x \in Places : x.id \in Int /\ x.at \in Int
           /\ \A e \in listed : e.id \in Int /\ e.at \in Int
<1>1. ASSUME NEW e \in listed
      PROVE  /\ PlaceOf(e) \in Places /\ PlaceOf(e).id = e.id /\ PlaceOf(e).at = e.at
             /\ PlaceOf(e).kind = e.kind
             /\ e.id \in Int /\ e.at \in Int
  <2>1. e.id \in Ids /\ e.at \in Times
    BY DEF ListMeant, ListedEntry
  <2>2. QED BY <2>1, FeedsAssumption DEF Places, PlaceOf
<1>2. \A x \in Places : \E e \in listed : x = PlaceOf(e)
  BY DEF Places
<1>3. ASSUME NEW x \in Places, NEW y \in Places, x.id = y.id PROVE x = y
  <2>1. PICK e \in listed, f \in listed : x = PlaceOf(e) /\ y = PlaceOf(f)
    BY <1>2
  <2>2. e = f
    BY <1>1, <1>3, <2>1 DEF ListMeant
  <2>3. QED BY <2>1, <2>2
<1>4. \A x \in Places : x.id \in Int /\ x.at \in Int
  BY <1>1, <1>2
<1>5. QED BY <1>1, <1>2, <1>3, <1>4

\* Entries have an order, since no two have one identifier.
LEMMA EntriesOrdered ==
    ASSUME ListMeant, NEW S \in SUBSET listed
    PROVE  /\ Ordered(S, NewestFirst)
           /\ \A x, y \in listed : <<x, y>> \in NewestFirst <=> Newer(x, y)
<1>1. \A e \in listed : e.id \in Int /\ e.at \in Int
  BY PlacesMeant
<1>2. \A x, y \in listed : <<x, y>> \in NewestFirst <=> Newer(x, y)
  BY DEF NewestFirst
<1>3. \A x \in S : <<x, x>> \notin NewestFirst
  BY <1>1, <1>2 DEF Newer
<1>4. \A x, y, z \in S : <<x, y>> \in NewestFirst /\ <<y, z>> \in NewestFirst => <<x, z>> \in NewestFirst
  BY <1>1, <1>2 DEF Newer
<1>5. \A x, y \in S : x # y => <<x, y>> \in NewestFirst \/ <<y, x>> \in NewestFirst
  BY <1>1, <1>2 DEF Newer, ListMeant
<1>6. IsFiniteSet(S)
  BY FS_Subset DEF ListMeant
<1>7. QED BY <1>2, <1>3, <1>4, <1>5, <1>6 DEF Ordered

\* What a query finds, and where its page begins.
Wanted(q) == {e \in listed : q.kind \in {"all", e.kind} /\ (q.cursor # Nothing => After(e, q.cursor))}
Begin(q) == IF q.cursor = Nothing THEN q.skip ELSE 0

\* A page holds the members of the ranks from its beginning on, and says rightly
\* that nothing follows.
LEMMA PageRanked ==
    ASSUME ListMeant, NEW q \in ListQuery
    PROVE  /\ PageOf(q) \in Seq(Wanted(q)) /\ Begin(q) \in Nat /\ q.limit \in Nat \ {0}
           /\ \A n \in 1..Len(PageOf(q)) : Rank(PageOf(q)[n], Wanted(q), NewestFirst) = Begin(q) + n - 1
           /\ \A x \in Wanted(q) :
                 LET r == Rank(x, Wanted(q), NewestFirst)
                 IN  /\ r \in Nat
                     /\ Begin(q) <= r /\ r < Begin(q) + q.limit => \E n \in 1..Len(PageOf(q)) : PageOf(q)[n] = x
                     /\ ~More(q) => r < Begin(q) + q.limit
           /\ More(q) => Len(PageOf(q)) = q.limit
<1> DEFINE W == Wanted(q)
           s == Sorted(W, NewestFirst)
           N == Cardinality(W)
           b == Begin(q)
           F == SubSeq(s, b + 1, N)
           k == IF N > b THEN N - b ELSE 0
<1>1. Ordered(W, NewestFirst)
  BY EntriesOrdered DEF Wanted
<1>2. /\ s \in Seq(W) /\ Len(s) = N /\ N \in Nat
      /\ \A i \in 1..N : Rank(s[i], W, NewestFirst) = i - 1
      /\ \A x \in W : x = s[Rank(x, W, NewestFirst) + 1]
  BY <1>1, SortedByRank
<1>3. b \in Nat /\ q.limit \in Nat /\ q.limit >= 1
  <2>1. q.skip \in Nat /\ q.limit \in Limits
    BY DEF ListQuery
  <2>2. q.limit \in Nat /\ q.limit # 0
    BY <2>1, FeedsAssumption
  <2>3. QED BY <2>1, <2>2 DEF Begin
<1>4. Found(q) = F
  BY <1>2 DEF Found, Wanted, Begin
<1> HIDE DEF s, W, b, N
<1>5. F \in Seq(W) /\ Len(F) = k /\ \A i \in 1..k : F[i] = s[b + i]
  <2>1. \A i \in (b + 1)..N : s[i] \in W
    BY <1>2, <1>3
  <2>2. b + 1 \in Int /\ N \in Int
    BY <1>2, <1>3
  <2>3. /\ F \in Seq(W) /\ Len(F) = IF b + 1 <= N THEN N - (b + 1) + 1 ELSE 0
        /\ \A i \in 1..(N - (b + 1) + 1) : F[i] = s[b + 1 + i - 1]
    BY <2>1, <2>2, SubSeqProperties
  <2> HIDE DEF F
  <2>4. QED BY <1>2, <1>3, <2>3
<1> DEFINE p == IF q.limit < k THEN q.limit ELSE k
           P == SubSeq(F, 1, p)
<1> HIDE DEF F
<1>6. k \in Nat /\ p \in Nat /\ p <= k /\ p <= q.limit
  BY <1>2, <1>3
<1>7. PageOf(q) = P
  BY <1>4, <1>5 DEF PageOf, Leading
<1>8. P \in Seq(W) /\ Len(P) = p /\ \A i \in 1..p : P[i] = F[i]
  <2>1. \A i \in 1..p : F[i] \in W
    BY <1>5, <1>6
  <2>2. /\ P \in Seq(W) /\ Len(P) = IF 1 <= p THEN p - 1 + 1 ELSE 0
        /\ \A i \in 1..(p - 1 + 1) : P[i] = F[1 + i - 1]
    BY <1>6, <2>1, SubSeqProperties
  <2> HIDE DEF P
  <2>3. QED BY <1>6, <2>2
<1>9. ASSUME NEW n \in 1..p PROVE Rank(P[n], W, NewestFirst) = b + n - 1
  <2> HIDE DEF P
  <2>0. n \in Nat /\ n >= 1 /\ n <= p /\ n \in 1..p
    BY <1>6, <1>9
  <2>1. P[n] = s[b + n] /\ b + n \in 1..N
    <3>1. P[n] = F[n]
      BY <1>8, <2>0
    <3>2. n <= k /\ n \in 1..k
      BY <1>6, <2>0
    <3>3. F[n] = s[b + n]
      BY <1>5, <3>2
    <3>4. k = N - b
      BY <2>0, <3>2
    <3>5. b + n \in 1..N
      BY <1>2, <1>3, <2>0, <3>2, <3>4
    <3>6. QED BY <3>1, <3>3, <3>5
  <2>2. PICK m \in 1..N : m = b + n
    BY <2>1
  <2>3. Rank(P[n], W, NewestFirst) = m - 1
    BY <1>2, <2>1, <2>2
  <2>4. QED BY <1>2, <1>3, <2>2, <2>3
<1>10. More(q) => k >= q.limit
  BY <1>3, <1>4, <1>5, <1>6 DEF More
<1>11. ~More(q) => k <= q.limit
  BY <1>3, <1>4, <1>5, <1>6 DEF More
<1>12. ASSUME NEW x \in W
       PROVE  /\ Rank(x, W, NewestFirst) \in 0..(N - 1)
              /\ b <= Rank(x, W, NewestFirst) /\ Rank(x, W, NewestFirst) < b + q.limit =>
                    \E n \in 1..p : P[n] = x
  <2>1. Rank(x, W, NewestFirst) \in 0..(N - 1)
    BY <1>1, FewerAreAhead DEF N
  <2>2. ASSUME b <= Rank(x, W, NewestFirst), Rank(x, W, NewestFirst) < b + q.limit
        PROVE  \E n \in 1..p : P[n] = x
    <3> DEFINE r == Rank(x, W, NewestFirst)
               n == r - b + 1
    <3>1. r \in 0..(N - 1) /\ b <= r /\ r < b + q.limit /\ x = s[r + 1]
      BY <1>2, <2>1, <2>2
    <3> HIDE DEF r
    <3>2. n \in 1..p /\ n \in 1..k /\ b + n = r + 1
      BY <1>2, <1>3, <1>6, <3>1
    <3>3. P[n] = s[b + n]
      BY <1>5, <1>8, <3>2
    <3>4. P[n] = x
      BY <3>1, <3>2, <3>3
    <3>5. QED BY <3>2, <3>4
  <2>3. QED BY <2>1, <2>2
<1>13. ASSUME NEW x \in W, ~More(q) PROVE Rank(x, W, NewestFirst) < b + q.limit
  <2>1. Rank(x, W, NewestFirst) \in 0..(N - 1)
    BY <1>12
  <2>2. QED BY <1>2, <1>3, <1>11, <1>13, <2>1
<1> HIDE DEF P, p
<1>14. P \in Seq(W) /\ Len(P) = p /\ (More(q) => p = q.limit)
  BY <1>3, <1>6, <1>8, <1>10 DEF p
<1>15. QED BY <1>2, <1>3, <1>7, <1>9, <1>12, <1>13, <1>14 DEF W, b

\* The reader goes on where he is: what he has been told, and whether entries
\* are committed or settled under him, is all that matters.
LEMMA ReadingStays ==
    ASSUME ReadingInv, UNCHANGED <<listing, listed, reader>>
    PROVE  ReadingInv'
<1>1. Places' = Places /\ NewestFirst' = NewestFirst
  BY DEF Places, NewestFirst, PlaceOf
<1>2. ListMeant' /\ ReaderShape' /\ ToldIds(reader)' = ToldIds(reader)
  BY DEF ReadingInv, ListMeant, ReaderShape, ToldIds
<1>3. ToldMeant'
  BY <1>1, <1>2 DEF ReadingInv, ToldMeant
<1>4. ByCursor'
  BY <1>1, <1>2 DEF ReadingInv, ByCursor
<1>5. BySkip'
  BY <1>1, <1>2 DEF ReadingInv, BySkip
<1>6. QED BY <1>2, <1>3, <1>4, <1>5 DEF ReadingInv

LEMMA CommitEntryInv ==
    ASSUME ReadingInv, NEW i \in Ids, NEW at \in Times, NEW kind \in WorkKinds, CommitEntry(i, at, kind)
    PROVE  ReadingInv'
<1> DEFINE d == [id |-> i, at |-> at, kind |-> kind, status |-> "pending", asset |-> FALSE]
<1>1. /\ listed' = listed \cup {d} /\ UNCHANGED <<listing, reader>>
      /\ \A e \in listed : e.id # i
  BY DEF CommitEntry
<1>2. d \in ListedEntry /\ d.id = i
  BY DEF ListedEntry, EntryStatuses
<1>3. ListMeant'
  BY <1>1, <1>2, FS_AddElement DEF ReadingInv, ListMeant
<1>4. Places' = Places \cup {PlaceOf(d)} /\ PlaceOf(d).id = i
  BY <1>1, <1>2 DEF Places, PlaceOf
<1>5. \A x \in Places : x.id # i
  BY <1>1, PlacesMeant DEF ReadingInv
<1>6. ToldIds(reader)' = ToldIds(reader) /\ ReaderShape'
  BY <1>1 DEF ReadingInv, ToldIds, ReaderShape
<1>7. ToldMeant'
  BY <1>1, <1>4, <1>6 DEF ReadingInv, ToldMeant
<1>8. reader.phase # "new" =>
         /\ \A j \in reader.known : j # i
         /\ \A n \in DOMAIN reader.told : reader.told[n].id # i
  BY <1>5 DEF ReadingInv, ToldMeant
<1>9. ByCursor'
  <2> SUFFICES ASSUME reader.phase # "new", reader.by = "cursor" PROVE ByCursor'
    BY <1>1 DEF ByCursor
  <2>1. \A m, n \in DOMAIN reader.told : m < n =>
           \A x, y \in Places' : x.id = reader.told[m].id /\ y.id = reader.told[n].id => Newer(x, y)
    BY <1>4, <1>8 DEF ReadingInv, ByCursor
  <2>2. ASSUME reader.phase = "reading", reader.told # << >>
        PROVE  \A x \in Places' : x.id \in reader.known \ ToldIds(reader) => After(x, reader.query.cursor)
    BY <1>4, <1>8, <2>2 DEF ReadingInv, ByCursor
  <2>3. ASSUME reader.phase = "reading", reader.told # << >>
        PROVE  /\ reader.query.cursor # Nothing
               /\ reader.query.cursor.id = reader.told[Len(reader.told)].id
               /\ \E x \in Places' : x.id = reader.query.cursor.id /\ x.at = reader.query.cursor.at
    BY <1>4, <2>3 DEF ReadingInv, ByCursor
  <2>4. reader.query.skip = 0 /\ (reader.phase = "reading" /\ reader.told = << >> => reader.query.cursor = Nothing)
    BY DEF ReadingInv, ByCursor
  <2>5. QED BY <1>1, <1>6, <2>1, <2>2, <2>3, <2>4 DEF ByCursor
<1>10. BySkip'
  <2> SUFFICES ASSUME reader.phase = "reading", reader.by = "skip",
                      NEW e \in listed', e.id \in reader.known \ ToldIds(reader)
               PROVE  reader.query.skip <= Rank(e, listed, NewestFirst)'
    BY <1>1, <1>6 DEF ReadingInv, BySkip
  <2>1. e \in listed /\ reader.query.skip <= Rank(e, listed, NewestFirst)
    BY <1>1, <1>2, <1>8 DEF ReadingInv, BySkip
  <2>2. NewestFirst \subseteq NewestFirst'
    BY <1>1 DEF NewestFirst
  <2>3. Ahead(e, listed, NewestFirst) \subseteq Ahead(e, listed', NewestFirst')
    BY <1>1, <2>2 DEF Ahead
  <2>4. IsFiniteSet(Ahead(e, listed', NewestFirst'))
    BY <1>3, FS_Subset DEF ListMeant, Ahead
  <2>5. /\ Cardinality(Ahead(e, listed, NewestFirst)) <= Cardinality(Ahead(e, listed', NewestFirst'))
        /\ IsFiniteSet(Ahead(e, listed, NewestFirst))
    BY <2>3, <2>4, FS_Subset
  <2>6. Cardinality(Ahead(e, listed, NewestFirst)) \in Nat /\ Cardinality(Ahead(e, listed', NewestFirst')) \in Nat
    BY <2>4, <2>5, FS_CardinalityType
  <2>7. reader.query.skip \in Nat
    BY DEF ReadingInv, ReaderShape, ListQuery
  <2>8. Rank(e, listed, NewestFirst) <= Rank(e, listed', NewestFirst')
    BY <2>5 DEF Rank
  <2>9. reader.query.skip <= Rank(e, listed', NewestFirst')
    BY <2>1, <2>6, <2>7, <2>8 DEF Rank
  <2>10. QED BY <2>9
<1>11. QED BY <1>3, <1>6, <1>7, <1>9, <1>10 DEF ReadingInv

LEMMA SettleInv ==
    ASSUME ReadingInv, NEW e \in listed, Settle(e)
    PROVE  ReadingInv'
<1>1. PICK end \in Endings :
        listed' = (listed \ {e}) \cup {[e EXCEPT !.status = end[2], !.asset = (end[2] # "failed")]}
  BY DEF Settle
<1> DEFINE d == [e EXCEPT !.status = end[2], !.asset = (end[2] # "failed")]
<1>2. UNCHANGED <<listing, reader>> /\ listing = "works"
  BY DEF Settle
<1>3. e \in ListedEntry
  BY DEF ReadingInv, ListMeant
<1>4. end[2] \in EntryStatuses
  BY DEF Endings, EntryStatuses
<1>5. d \in ListedEntry /\ d.id = e.id /\ d.at = e.at /\ d.kind = e.kind
  BY <1>3, <1>4 DEF ListedEntry
<1>6. listed' = (listed \ {e}) \cup {d}
  BY <1>1
<1> HIDE DEF d
<1>7. ListMeant'
  <2>1. IsFiniteSet(listed \ {e}) /\ IsFiniteSet(listed')
    BY <1>6, FS_RemoveElement, FS_AddElement DEF ReadingInv, ListMeant
  <2>2. \A f, g \in listed' : f.id = g.id => f = g
    BY <1>5, <1>6 DEF ReadingInv, ListMeant
  <2>3. QED BY <1>2, <1>5, <1>6, <2>1, <2>2 DEF ReadingInv, ListMeant
<1>8. Places' = Places
  BY <1>5, <1>6 DEF Places, PlaceOf
<1>9. ToldIds(reader)' = ToldIds(reader) /\ ReaderShape'
  BY <1>2 DEF ReadingInv, ToldIds, ReaderShape
<1>10. ToldMeant'
  BY <1>2, <1>8, <1>9 DEF ReadingInv, ToldMeant
<1>11. ByCursor'
  BY <1>2, <1>8, <1>9 DEF ReadingInv, ByCursor
<1>12. BySkip'
  BY <1>2 DEF ReadingInv, BySkip
<1>13. QED BY <1>7, <1>9, <1>10, <1>11, <1>12 DEF ReadingInv

LEMMA OpenListInv ==
    ASSUME ReadingInv, NEW kind \in WorkKinds \cup {"all"}, NEW limit \in Limits,
           NEW by \in {"cursor", "skip"}, OpenList(kind, limit, by)
    PROVE  ReadingInv'
<1> DEFINE known == {e.id : e \in {x \in listed : kind \in {"all", x.kind}}}
           q == [kind |-> kind, limit |-> limit, skip |-> 0, cursor |-> Nothing]
<1>1. /\ reader' = [phase |-> "reading", by |-> by, told |-> << >>, known |-> known, query |-> q]
      /\ UNCHANGED <<listing, listed>>
      /\ listing = "ledger" => kind = "all"
      /\ listing = "works" => by = "cursor"
  BY DEF OpenList
<1>2. q \in ListQuery /\ q.kind = kind /\ q.skip = 0 /\ q.cursor = Nothing
  BY DEF ListQuery
<1>3. known \in SUBSET Ids
  BY DEF ReadingInv, ListMeant, ListedEntry
<1>4. \A i \in known : \E x \in Places : x.id = i /\ kind \in {"all", x.kind}
  BY PlacesMeant DEF ReadingInv
<1> HIDE DEF q, known
<1>5. /\ reader'.phase = "reading" /\ reader'.by = by /\ reader'.told = << >>
      /\ reader'.known = known /\ reader'.query = q
  BY <1>1
<1>6. << >> \in Seq(ToldEntry) /\ DOMAIN << >> = {}
  OBVIOUS
<1>7. reader' \in [phase : {"reading", "done"}, by : {"cursor", "skip"}, told : Seq(ToldEntry),
                   known : SUBSET Ids, query : ListQuery]
  BY <1>1, <1>2, <1>3, <1>6
<1>8. Places' = Places /\ NewestFirst' = NewestFirst /\ ListMeant'
  BY <1>1 DEF Places, NewestFirst, PlaceOf, ReadingInv, ListMeant
<1>9. ToldMeant'
  BY <1>2, <1>4, <1>5, <1>6, <1>8 DEF ToldMeant
<1>10. ByCursor'
  BY <1>2, <1>5, <1>6 DEF ByCursor
<1>11. \A e \in listed : Rank(e, listed, NewestFirst) \in Nat
  <2>1. Ordered(listed, NewestFirst)
    BY EntriesOrdered DEF ReadingInv
  <2>2. QED BY <2>1, FewerAreAhead
<1>12. BySkip'
  <2>1. ASSUME by = "skip" PROVE listing = "ledger" /\ kind = "all"
    BY <1>1, <2>1, FeedsAssumption DEF ReadingInv, ListMeant
  <2>2. \A e \in listed' : 0 <= Rank(e, listed', NewestFirst')
    BY <1>1, <1>8, <1>11
  <2>3. QED BY <1>1, <1>2, <1>5, <2>1, <2>2 DEF BySkip
<1>13. QED BY <1>7, <1>8, <1>9, <1>10, <1>12 DEF ReadingInv, ReaderShape


\* What one more page adds to what was told.
LEMMA ListTells ==
    ASSUME ReadingInv, List
    PROVE  LET q == reader.query
               page == PageOf(q)
               heard == reader.told
           IN  /\ q \in ListQuery /\ heard \in Seq(ToldEntry) /\ page \in Seq(listed)
               /\ reader.phase = "reading" /\ UNCHANGED <<listing, listed>>
               /\ reader' \in [phase : {"reading", "done"}, by : {reader.by}, told : Seq(ToldEntry),
                               known : {reader.known}, query : ListQuery]
               /\ Len(reader'.told) = Len(heard) + Len(page)
               /\ \A n \in 1..Len(heard) : reader'.told[n] = heard[n]
               /\ \A n \in 1..Len(page) : reader'.told[Len(heard) + n].id = page[n].id
               /\ reader'.phase = IF More(q) THEN "reading" ELSE "done"
               /\ ~More(q) => reader'.query = q
               /\ More(q) /\ reader.by = "cursor" =>
                     reader'.query = [q EXCEPT !.cursor = [at |-> page[Len(page)].at, id |-> page[Len(page)].id]]
               /\ More(q) /\ reader.by = "skip" => reader'.query = [q EXCEPT !.skip = @ + Len(page)]
<1> DEFINE q == reader.query
           page == PageOf(q)
           heard == reader.told
           new == [n \in DOMAIN page |-> toWork(page[n])]
           next == IF reader.by = "cursor"
                   THEN [q EXCEPT !.cursor = [at |-> page[Len(page)].at, id |-> page[Len(page)].id]]
                   ELSE [q EXCEPT !.skip = @ + Len(page)]
<1>1. /\ reader.phase = "reading" /\ UNCHANGED <<listing, listed>>
      /\ reader' = [reader EXCEPT !.told = @ \o new,
                                  !.phase = IF More(q) THEN "reading" ELSE "done",
                                  !.query = IF More(q) THEN next ELSE q]
  BY DEF List
<1>2. /\ reader \in [phase : {"reading", "done"}, by : {"cursor", "skip"}, told : Seq(ToldEntry),
                     known : SUBSET Ids, query : ListQuery]
  BY <1>1 DEF ReadingInv, ReaderShape
<1>3. q \in ListQuery /\ heard \in Seq(ToldEntry) /\ reader.by \in {"cursor", "skip"}
  BY <1>2
<1>4. /\ page \in Seq(Wanted(q)) /\ q.limit \in Nat \ {0}
      /\ More(q) => Len(page) = q.limit
  BY <1>3, PageRanked DEF ReadingInv
<1> HIDE DEF page
<1>5. page \in Seq(listed) /\ Len(page) \in Nat /\ DOMAIN page = 1..Len(page)
  BY <1>4 DEF Wanted
<1>6. ASSUME NEW n \in DOMAIN page PROVE toWork(page[n]) \in ToldEntry /\ toWork(page[n]).id = page[n].id
  <2>1. page[n] \in ListedEntry
    BY <1>5 DEF ReadingInv, ListMeant
  <2> DEFINE e == page[n]
  <2> HIDE DEF e
  <2>2. e \in ListedEntry
    BY <2>1 DEF e
  <2>3. toWork(e) \in ToldEntry /\ toWork(e).id = e.id
    BY <2>2 DEF toWork, ListedEntry, ToldEntry
  <2>4. QED BY <2>3 DEF e
<1>7. new \in Seq(ToldEntry) /\ Len(new) = Len(page) /\ \A n \in 1..Len(page) : new[n].id = page[n].id
  <2>1. new \in [1..Len(page) -> ToldEntry]
    BY <1>5, <1>6
  <2>2. \A n \in 1..Len(page) : new[n].id = page[n].id
    BY <1>5, <1>6
  <2> HIDE DEF new
  <2>3. QED BY <1>5, <2>1, <2>2
<1>8. next \in ListQuery \/ ~More(q)
  <2> SUFFICES ASSUME More(q) PROVE next \in ListQuery
    OBVIOUS
  <2>1. Len(page) \in 1..Len(page) /\ Len(page) \in Nat
    BY <1>4, <1>5
  <2>2. page[Len(page)] \in ListedEntry
    BY <1>5, <2>1 DEF ReadingInv, ListMeant
  <2>3. [at |-> page[Len(page)].at, id |-> page[Len(page)].id] \in [at : Times, id : Ids]
    BY <2>2 DEF ListedEntry
  <2>4. CASE reader.by = "cursor"
    BY <1>3, <2>3, <2>4 DEF ListQuery
  <2>5. CASE reader.by # "cursor"
    <3>1. q.skip + Len(page) \in Nat
      BY <1>3, <2>1 DEF ListQuery
    <3>2. QED BY <1>3, <2>5, <3>1 DEF ListQuery
  <2>6. QED BY <2>4, <2>5
<1> HIDE DEF next, new
<1>9. /\ heard \o new \in Seq(ToldEntry) /\ Len(heard \o new) = Len(heard) + Len(page) /\ Len(heard) \in Nat
      /\ \A n \in 1..Len(heard) : (heard \o new)[n] = heard[n]
      /\ \A n \in 1..Len(page) : (heard \o new)[Len(heard) + n].id = page[n].id
  <2>1. /\ heard \o new \in Seq(ToldEntry) /\ Len(heard \o new) = Len(heard) + Len(new)
        /\ \A i \in 1..(Len(heard) + Len(new)) :
              (heard \o new)[i] = IF i <= Len(heard) THEN heard[i] ELSE new[i - Len(heard)]
    <3>1. heard \in Seq(ToldEntry) /\ new \in Seq(ToldEntry)
      BY <1>3, <1>7
    <3> HIDE DEF heard
    <3>2. QED BY <3>1, ConcatProperties
  <2>2. Len(heard) \in Nat /\ Len(new) = Len(page) /\ Len(page) \in Nat
    BY <1>3, <1>5, <1>7
  <2>3. ASSUME NEW n \in 1..Len(page) PROVE (heard \o new)[Len(heard) + n].id = page[n].id
    <3>1. Len(heard) + n \in 1..(Len(heard) + Len(new)) /\ ~(Len(heard) + n <= Len(heard)) /\ Len(heard) + n - Len(heard) = n
      BY <2>2
    <3>2. (heard \o new)[Len(heard) + n] = new[n]
      BY <2>1, <3>1
    <3>3. QED BY <1>7, <3>2
  <2>4. ASSUME NEW n \in 1..Len(heard) PROVE (heard \o new)[n] = heard[n]
    <3>1. n \in 1..(Len(heard) + Len(new)) /\ n <= Len(heard)
      BY <2>2
    <3>2. QED BY <2>1, <3>1
  <2>5. QED BY <2>1, <2>2, <2>3, <2>4
<1> DEFINE tells == heard \o new
<1>10. reader'.told = tells /\ reader'.phase = (IF More(q) THEN "reading" ELSE "done")
       /\ reader'.query = (IF More(q) THEN next ELSE q) /\ reader'.known = reader.known /\ reader'.by = reader.by
  BY <1>1, <1>2
<1> HIDE DEF tells
<1>11. reader' \in [phase : {"reading", "done"}, by : {reader.by}, told : Seq(ToldEntry),
                    known : {reader.known}, query : ListQuery]
  <2>1. tells \in Seq(ToldEntry) /\ (IF More(q) THEN next ELSE q) \in ListQuery
    BY <1>3, <1>8, <1>9 DEF tells
  <2>2. reader' = [reader EXCEPT !.told = tells, !.phase = IF More(q) THEN "reading" ELSE "done",
                                 !.query = IF More(q) THEN next ELSE q]
    BY <1>1, <1>2 DEF tells
  <2>3. QED BY <1>2, <2>1, <2>2
<1>12. QED BY <1>1, <1>3, <1>5, <1>9, <1>10, <1>11 DEF tells, page, next


\* Whoever is told more is told what there is; at the end of the list he has
\* been told all he knew of.
LEMMA ListInv ==
    ASSUME ReadingInv, List
    PROVE  ReadingInv'
<1> DEFINE q == reader.query
           page == PageOf(q)
           heard == reader.told
           W == Wanted(q)
           later == reader'.told
<1>1. /\ q \in ListQuery /\ heard \in Seq(ToldEntry) /\ page \in Seq(listed)
      /\ reader.phase = "reading" /\ UNCHANGED <<listing, listed>>
      /\ reader' \in [phase : {"reading", "done"}, by : {reader.by}, told : Seq(ToldEntry),
                      known : {reader.known}, query : ListQuery]
      /\ Len(later) = Len(heard) + Len(page)
      /\ \A n \in 1..Len(heard) : later[n] = heard[n]
      /\ \A n \in 1..Len(page) : later[Len(heard) + n].id = page[n].id
      /\ reader'.phase = IF More(q) THEN "reading" ELSE "done"
      /\ ~More(q) => reader'.query = q
      /\ More(q) /\ reader.by = "cursor" =>
            reader'.query = [q EXCEPT !.cursor = [at |-> page[Len(page)].at, id |-> page[Len(page)].id]]
      /\ More(q) /\ reader.by = "skip" => reader'.query = [q EXCEPT !.skip = @ + Len(page)]
  BY ListTells
<1>2. /\ page \in Seq(W) /\ Begin(q) \in Nat /\ q.limit \in Nat \ {0}
      /\ \A n \in 1..Len(page) : Rank(page[n], W, NewestFirst) = Begin(q) + n - 1
      /\ \A x \in W : LET r == Rank(x, W, NewestFirst)
                      IN  /\ r \in Nat
                          /\ Begin(q) <= r /\ r < Begin(q) + q.limit => \E n \in 1..Len(page) : page[n] = x
                          /\ ~More(q) => r < Begin(q) + q.limit
      /\ More(q) => Len(page) = q.limit
  BY <1>1, PageRanked DEF ReadingInv
<1>3. W \in SUBSET listed /\ Ordered(W, NewestFirst) /\ \A x, y \in listed : <<x, y>> \in NewestFirst <=> Newer(x, y)
  BY EntriesOrdered DEF ReadingInv, Wanted
<1>4. /\ Places' = Places /\ NewestFirst' = NewestFirst /\ ListMeant'
  BY <1>1 DEF Places, NewestFirst, PlaceOf, ReadingInv, ListMeant
<1>5. /\ \A e \in listed : PlaceOf(e) \in Places /\ PlaceOf(e).id = e.id /\ PlaceOf(e).at = e.at /\ PlaceOf(e).kind = e.kind
      /\ \A x \in Places : \E e \in listed : x = PlaceOf(e)
      /\ \A x, y \in Places : x.id = y.id => x = y
      /\ \A x \in Places : x.id \in Int /\ x.at \in Int
      /\ \A e \in listed : e.id \in Int /\ e.at \in Int
  BY PlacesMeant DEF ReadingInv
<1>6. /\ Len(heard) \in Nat /\ DOMAIN heard = 1..Len(heard) /\ Len(page) \in Nat
      /\ DOMAIN later = 1..(Len(heard) + Len(page))
      /\ reader'.by = reader.by /\ reader'.known = reader.known /\ reader'.query \in ListQuery
      /\ reader'.phase \in {"reading", "done"} /\ reader.by \in {"cursor", "skip"}
  <2>1. /\ Len(heard) \in Nat /\ DOMAIN heard = 1..Len(heard) /\ Len(page) \in Nat
        /\ DOMAIN later = 1..Len(later)
    <3>1. later \in Seq(ToldEntry) /\ heard \in Seq(ToldEntry) /\ page \in Seq(listed)
      BY <1>1
    <3> HIDE DEF later, heard, page
    <3>2. QED BY <3>1
  <2>2. /\ reader'.by = reader.by /\ reader'.known = reader.known /\ reader'.query \in ListQuery
        /\ reader'.phase \in {"reading", "done"}
    BY <1>1
  <2>3. reader.by \in {"cursor", "skip"}
    BY <1>1 DEF ReadingInv, ReaderShape
  <2>4. QED BY <1>1, <2>1, <2>2, <2>3
<1>7. ReaderShape'
  <2>1. reader.known \in SUBSET Ids
    BY <1>1 DEF ReadingInv, ReaderShape
  <2>2. QED BY <1>1, <1>6, <2>1 DEF ReaderShape
<1> HIDE DEF page, W
\* What was told before is told still, and the page is told.
<1>8. /\ ToldIds(reader) \subseteq ToldIds(reader')
      /\ \A n \in 1..Len(page) : page[n].id \in ToldIds(reader')
  <2>1. ASSUME NEW n \in 1..Len(heard) PROVE heard[n].id \in ToldIds(reader')
    BY <1>1, <1>6 DEF ToldIds
  <2>2. ASSUME NEW n \in 1..Len(page) PROVE page[n].id \in ToldIds(reader')
    <3>1. Len(heard) + n \in DOMAIN later /\ later[Len(heard) + n].id = page[n].id
      BY <1>1, <1>6
    <3>2. QED BY <3>1 DEF ToldIds
  <2>3. QED BY <1>6, <2>1, <2>2 DEF ToldIds
\* Every place of the list is an old one or one of the page.
<1>9. \A n \in DOMAIN later : n \in 1..Len(heard) \/ \E j \in 1..Len(page) : n = Len(heard) + j
  <2>1. ASSUME NEW n \in DOMAIN later, n \notin 1..Len(heard) PROVE \E j \in 1..Len(page) : n = Len(heard) + j
    <3>1. n - Len(heard) \in 1..Len(page) /\ n = Len(heard) + (n - Len(heard))
      BY <1>6, <2>1
    <3>2. QED BY <3>1
  <2>2. QED BY <2>1
<1>10. \A n \in 1..Len(page) : page[n] \in listed /\ page[n] \in W
  BY <1>1, <1>2
\* What the reader knew of and has not been told is wanted, and follows the page.
<1>11. ASSUME NEW x \in Places, x.id \in reader.known, x.id \notin ToldIds(reader'),
              reader.by = "cursor" => q.skip = 0
       PROVE  \E e \in W : /\ x = PlaceOf(e) /\ \A n \in 1..Len(page) : page[n] # e
                           /\ (Begin(q) <= Rank(e, W, NewestFirst)
                                 => More(q) /\ Begin(q) + q.limit <= Rank(e, W, NewestFirst))
  <2>1. PICK e \in listed : x = PlaceOf(e)
    BY <1>5
  <2>2. x.id = e.id /\ x.at = e.at /\ x.kind = e.kind
    BY <1>5, <2>1
  <2>3. q.kind \in {"all", e.kind}
    <3>1. PICK y \in Places : y.id = x.id /\ q.kind \in {"all", y.kind}
      BY <1>1, <1>11 DEF ReadingInv, ToldMeant
    <3>2. y = x
      BY <1>5, <3>1
    <3>3. QED BY <2>2, <3>1, <3>2
  <2>4. q.cursor # Nothing => After(e, q.cursor)
    <3> SUFFICES ASSUME q.cursor # Nothing PROVE After(e, q.cursor)
      OBVIOUS
    <3>1. reader.by = "cursor"
      BY <1>1, <1>6 DEF ReadingInv, BySkip
    <3>2. After(x, q.cursor)
      BY <1>1, <1>8, <1>11, <3>1 DEF ReadingInv, ByCursor
    <3>3. QED BY <2>2, <3>2 DEF After, Newer
  <2>5. e \in W
    BY <2>3, <2>4 DEF W, Wanted
  <2>6. \A n \in 1..Len(page) : page[n] # e
    BY <1>8, <1>11, <2>2
  <2>7. ASSUME Begin(q) <= Rank(e, W, NewestFirst)
        PROVE  More(q) /\ Begin(q) + q.limit <= Rank(e, W, NewestFirst)
    <3>1. Rank(e, W, NewestFirst) \in Nat /\ Begin(q) \in Nat /\ q.limit \in Nat
      BY <1>2, <2>5
    <3>2. ~(Rank(e, W, NewestFirst) < Begin(q) + q.limit)
      BY <1>2, <2>5, <2>6, <2>7
    <3>3. QED BY <1>2, <2>5, <3>1, <3>2
  <2>8. QED BY <2>1, <2>5, <2>6, <2>7
<1>12. /\ reader.by = "cursor" => Begin(q) = 0
       /\ reader.by = "skip" => Begin(q) = q.skip /\ W = listed /\ listing = "ledger"
  BY <1>1 DEF ReadingInv, ByCursor, BySkip, Begin, W, Wanted
\* At the end nothing is left.
<1>13. ASSUME reader'.phase = "done", NEW i \in reader.known PROVE i \in ToldIds(reader')
  <2> SUFFICES ASSUME i \notin ToldIds(reader') PROVE FALSE
    OBVIOUS
  <2>1. PICK x \in Places : x.id = i
    BY <1>1 DEF ReadingInv, ToldMeant
  <2>2. reader.by = "cursor" => q.skip = 0
    BY <1>1 DEF ReadingInv, ByCursor
  <2>3. PICK e \in W : /\ x = PlaceOf(e)
                       /\ (Begin(q) <= Rank(e, W, NewestFirst) => More(q))
    BY <1>11, <2>1, <2>2
  <2>4. ~More(q)
    BY <1>1, <1>13
  <2>5. Begin(q) <= Rank(e, W, NewestFirst)
    <3>1. CASE reader.by = "cursor"
      BY <1>2, <1>12, <3>1
    <3>2. CASE reader.by = "skip"
      <4>1. e.id = i /\ e \in listed
        BY <1>3, <1>5, <2>1, <2>3
      <4>2. i \in reader.known \ ToldIds(reader)
        BY <1>8
      <4>3. q.skip <= Rank(e, listed, NewestFirst)
        BY <1>1, <3>2, <4>1, <4>2 DEF ReadingInv, BySkip
      <4>4. QED BY <1>12, <3>2, <4>3
    <3>3. QED BY <1>6, <3>1, <3>2
  <2>6. QED BY <2>3, <2>4, <2>5
<1>14. ToldMeant'
  <2>1. reader'.query.kind = q.kind
    BY <1>1, <1>6 DEF ListQuery
  <2>2. \A n \in DOMAIN later : \E x \in Places : x.id = later[n].id
    <3>1. ASSUME NEW n \in 1..Len(heard) PROVE \E x \in Places : x.id = later[n].id
      BY <1>1, <1>6 DEF ReadingInv, ToldMeant
    <3>2. ASSUME NEW j \in 1..Len(page) PROVE \E x \in Places : x.id = later[Len(heard) + j].id
      BY <1>1, <1>5, <1>10
    <3>3. QED BY <1>9, <3>1, <3>2
  <2>3. reader'.phase = "done" => reader'.known \subseteq ToldIds(reader)'
    BY <1>6, <1>13
  <2>4. \A i \in reader'.known : \E x \in Places' : x.id = i /\ reader'.query.kind \in {"all", x.kind}
    BY <1>1, <1>4, <1>6, <2>1 DEF ReadingInv, ToldMeant
  <2>5. QED BY <1>4, <2>2, <2>3, <2>4 DEF ToldMeant
<1>15. ASSUME reader.by = "cursor"
       PROVE  \A m, n \in DOMAIN later : m < n =>
                 \A x, y \in Places : x.id = later[m].id /\ y.id = later[n].id => Newer(x, y)
  <2> SUFFICES ASSUME NEW m \in DOMAIN later, NEW n \in DOMAIN later, m < n,
                      NEW x \in Places, NEW y \in Places, x.id = later[m].id, y.id = later[n].id
               PROVE  Newer(x, y)
    OBVIOUS
  <2>0. \A k, j \in 1..Len(heard) : k < j =>
           \A u, v \in Places : u.id = heard[k].id /\ v.id = heard[j].id => Newer(u, v)
    BY <1>1, <1>6, <1>15 DEF ReadingInv, ByCursor
  <2>1. CASE n \in 1..Len(heard)
    <3>1. m \in 1..Len(heard)
      BY <1>6, <2>1
    <3>2. x.id = heard[m].id /\ y.id = heard[n].id
      BY <1>1, <2>1, <3>1
    <3>3. QED BY <2>0, <2>1, <3>1, <3>2
  <2>2. ASSUME NEW j \in 1..Len(page), n = Len(heard) + j PROVE Newer(x, y)
    <3>1. y = PlaceOf(page[j]) /\ page[j] \in W /\ page[j] \in listed
      BY <1>1, <1>5, <1>10, <2>2
    <3>2. y.id = page[j].id /\ y.at = page[j].at
      BY <1>5, <3>1
    <3>3. ASSUME NEW k \in 1..Len(page), m = Len(heard) + k PROVE Newer(x, y)
      <4>1. x = PlaceOf(page[k]) /\ page[k] \in W /\ page[k] \in listed
        BY <1>1, <1>5, <1>10, <3>3
      <4>2. x.id = page[k].id /\ x.at = page[k].at
        BY <1>5, <4>1
      <4>3. k < j
        BY <1>6, <2>2, <3>3
      <4>4. Rank(page[k], W, NewestFirst) < Rank(page[j], W, NewestFirst)
        BY <1>2, <4>3
      <4>5. <<page[k], page[j]>> \in NewestFirst
        BY <1>3, <3>1, <4>1, <4>4, RanksOrder
      <4>6. QED BY <1>3, <3>1, <3>2, <4>1, <4>2, <4>5 DEF Newer
    <3>4. ASSUME m \in 1..Len(heard) PROVE Newer(x, y)
      <4>1. Len(heard) \in 1..Len(heard) /\ heard # << >> /\ m <= Len(heard)
        BY <1>1, <1>6, <3>4
      <4>2. /\ q.cursor # Nothing /\ q.cursor.id = heard[Len(heard)].id
            /\ \E z \in Places : z.id = q.cursor.id /\ z.at = q.cursor.at
        BY <1>1, <1>15, <4>1 DEF ReadingInv, ByCursor
      <4>3. PICK z \in Places : z.id = q.cursor.id /\ z.at = q.cursor.at
        BY <4>2
      <4>4. Newer(z, y)
        <5>1. After(page[j], q.cursor)
          BY <3>1, <4>2 DEF W, Wanted
        <5>2. QED BY <3>2, <4>3, <5>1 DEF After, Newer
      <4>5. CASE m = Len(heard)
        <5>1. later[m] = heard[m]
          BY <1>1, <3>4
        <5>2. x.id = z.id
          BY <4>2, <4>3, <4>5, <5>1
        <5>3. x = z
          BY <1>5, <5>2
        <5>4. QED BY <4>4, <5>3
      <4>6. CASE m < Len(heard)
        <5>1. Newer(x, z)
          <6>1. x.id = heard[m].id /\ z.id = heard[Len(heard)].id
            BY <1>1, <3>4, <4>2, <4>3
          <6>2. QED BY <2>0, <3>4, <4>1, <4>6, <6>1
        <5>2. x.id \in Int /\ x.at \in Int /\ y.id \in Int /\ y.at \in Int /\ z.id \in Int /\ z.at \in Int
          BY <1>5
        <5>3. QED BY <4>4, <5>1, <5>2 DEF Newer
      <4>7. QED BY <1>6, <4>1, <4>5, <4>6
    <3>5. QED BY <1>9, <3>3, <3>4
  <2>3. QED BY <1>9, <2>1, <2>2
\* The page is not empty when more follows.
<1>16. ASSUME More(q)
       PROVE  /\ Len(page) \in 1..Len(page) /\ later # << >> /\ Len(later) = Len(heard) + Len(page)
              /\ page[Len(page)] \in W /\ page[Len(page)] \in listed
              /\ later[Len(later)].id = page[Len(page)].id
              /\ Rank(page[Len(page)], W, NewestFirst) = Begin(q) + q.limit - 1
              /\ reader'.phase = "reading"
  <2>1. Len(page) = q.limit /\ Len(page) \in 1..Len(page)
    BY <1>2, <1>6, <1>16
  <2>2. later # << >>
    <3>1. Len(later) # 0
      BY <1>1, <1>6, <2>1
    <3>2. QED BY <3>1
  <2>3. Rank(page[Len(page)], W, NewestFirst) = Begin(q) + q.limit - 1
    BY <1>2, <2>1
  <2>4. QED BY <1>1, <1>10, <1>16, <2>1, <2>2, <2>3
<1>17. ByCursor'
  <2> SUFFICES ASSUME reader.by = "cursor" PROVE ByCursor'
    BY <1>6 DEF ByCursor
  <2>1. q.skip = 0
    BY <1>1 DEF ReadingInv, ByCursor
  <2>2. reader'.query.skip = 0
    <3>1. CASE More(q)
      BY <1>1, <2>1, <3>1 DEF ListQuery
    <3>2. CASE ~More(q)
      BY <1>1, <2>1, <3>2
    <3>3. QED BY <3>1, <3>2
  <2>3. ASSUME reader'.phase = "reading"
        PROVE  /\ later # << >> /\ reader'.query.cursor # Nothing
               /\ reader'.query.cursor.id = later[Len(later)].id
               /\ \E x \in Places : x.id = reader'.query.cursor.id /\ x.at = reader'.query.cursor.at
               /\ \A x \in Places : x.id \in reader.known \ ToldIds(reader') => After(x, reader'.query.cursor)
    <3> DEFINE last == page[Len(page)]
               c == reader'.query.cursor
    <3>1. More(q)
      BY <1>1, <2>3
    <3>2. c = [at |-> last.at, id |-> last.id]
      BY <1>1, <3>1 DEF ListQuery
    <3>3. /\ later # << >> /\ last \in W /\ last \in listed /\ later[Len(later)].id = last.id
          /\ Rank(last, W, NewestFirst) = Begin(q) + q.limit - 1
      BY <1>16, <3>1
    <3> HIDE DEF last, c
    <3>4. c # Nothing /\ c.at = last.at /\ c.id = last.id
      <4>1. "at" \in DOMAIN c /\ "at" \notin DOMAIN Nothing
        BY <3>2 DEF Nothing
      <4>2. QED BY <3>2, <4>1
    <3>5. PlaceOf(last) \in Places /\ PlaceOf(last).id = c.id /\ PlaceOf(last).at = c.at
      BY <1>5, <3>3, <3>4
    <3>6. ASSUME NEW x \in Places, x.id \in reader.known, x.id \notin ToldIds(reader') PROVE After(x, c)
      <4>1. PICK e \in W : /\ x = PlaceOf(e)
                           /\ (Begin(q) <= Rank(e, W, NewestFirst)
                                 => Begin(q) + q.limit <= Rank(e, W, NewestFirst))
        BY <1>11, <2>1, <3>6
      <4>2. Begin(q) = 0 /\ Rank(e, W, NewestFirst) \in Nat /\ q.limit \in Nat
        BY <1>2, <1>12
      <4>3. Rank(last, W, NewestFirst) < Rank(e, W, NewestFirst)
        BY <3>3, <4>1, <4>2
      <4>4. <<last, e>> \in NewestFirst
        BY <1>3, <3>3, <4>3, RanksOrder
      <4>5. Newer(last, e) /\ x.id = e.id /\ x.at = e.at
        BY <1>3, <1>5, <3>3, <4>1, <4>4
      <4>6. QED BY <3>4, <4>5 DEF After, Newer
    <3>7. QED BY <3>3, <3>4, <3>5, <3>6 DEF c
  <2>4. QED BY <1>4, <1>6, <1>15, <2>2, <2>3 DEF ByCursor, ToldIds
<1>18. BySkip'
  <2> SUFFICES ASSUME reader.by = "skip" PROVE BySkip'
    BY <1>6 DEF BySkip
  <2>1. listing = "ledger" /\ q.kind = "all" /\ q.cursor = Nothing
    BY <1>1 DEF ReadingInv, BySkip
  <2>2. reader'.query.kind = "all" /\ reader'.query.cursor = Nothing
    <3>1. CASE More(q)
      BY <1>1, <2>1, <3>1 DEF ListQuery
    <3>2. CASE ~More(q)
      BY <1>1, <2>1, <3>2
    <3>3. QED BY <3>1, <3>2
  <2>3. ASSUME reader'.phase = "reading", NEW e \in listed, e.id \in reader.known, e.id \notin ToldIds(reader')
        PROVE  reader'.query.skip <= Rank(e, listed, NewestFirst)
    <3>1. More(q)
      BY <1>1, <2>3
    <3>2. reader'.query.skip = q.skip + q.limit
      BY <1>1, <1>2, <3>1 DEF ListQuery
    <3>3. q.skip <= Rank(e, listed, NewestFirst)
      BY <1>1, <1>8, <2>3 DEF ReadingInv, BySkip
    <3>4. Begin(q) = q.skip /\ W = listed
      BY <1>12
    <3>5. PlaceOf(e) \in Places /\ PlaceOf(e).id = e.id
      BY <1>5
    <3>6. PICK f \in W : /\ PlaceOf(e) = PlaceOf(f)
                         /\ (Begin(q) <= Rank(f, W, NewestFirst)
                               => Begin(q) + q.limit <= Rank(f, W, NewestFirst))
      BY <1>11, <2>3, <3>5
    <3>7. f = e
      BY <1>3, <1>5, <3>5, <3>6 DEF ReadingInv, ListMeant
    <3>8. QED BY <3>2, <3>3, <3>4, <3>6, <3>7
  <2>4. QED BY <1>1, <1>4, <1>6, <2>1, <2>2, <2>3 DEF BySkip, ToldIds
<1>19. QED BY <1>4, <1>7, <1>14, <1>17, <1>18 DEF ReadingInv

\* Nothing else touches the lists.
LEMMA ReadingSteps == ReadingInv /\ [FeedsNext]_feedsVars => ReadingInv'
<1> SUFFICES ASSUME ReadingInv, [FeedsNext]_feedsVars PROVE ReadingInv'  OBVIOUS
<1>1. CASE \E i \in Ids, at \in Times, kind \in WorkKinds : CommitEntry(i, at, kind)
  BY <1>1, CommitEntryInv
<1>2. CASE \E e \in listed : Settle(e)
  BY <1>2, SettleInv
<1>3. CASE \E kind \in WorkKinds \cup {"all"}, limit \in Limits, by \in {"cursor", "skip"} : OpenList(kind, limit, by)
  BY <1>3, OpenListInv
<1>4. CASE List
  BY <1>4, ListInv
<1>5. CASE \/ \E f \in Feedbacks, m \in Submissions : SubmitFeedback(f, m)
           \/ \E f \in Feedbacks, response \in Responses : Respond(f, response)
           \/ CloseAccount
  BY <1>5, ReadingStays DEF SubmitFeedback, Respond, CloseAccount
<1>6. CASE (\E f \in Feedbacks : MarkOne(f) \/ Delete(f)) \/ MarkAllRead \/ DeleteRead
  BY <1>6, ReadingStays DEF MarkOne, Delete, MarkAllRead, DeleteRead, MarkRead, Discard
<1>7. CASE \/ \E t \in Tabs : GetPreferences(t)
           \/ \E t \in Tabs, k \in Switches : Flip(t, k)
           \/ \E t \in Tabs : \E n \in DOMAIN tab[t].sending : SavePreferences(t, n)
  BY <1>7, ReadingStays DEF GetPreferences, Flip, SavePreferences
<1>8. CASE UNCHANGED feedsVars
  BY <1>8, ReadingStays DEF feedsVars
<1>9. QED BY <1>1, <1>2, <1>3, <1>4, <1>5, <1>6, <1>7, <1>8 DEF FeedsNext

\* An answer and its notice come together, and what the user removed is gone.
NoticesMeant ==
    /\ feedback \in [Feedbacks -> {"none", "pending"} \cup Responses]
    /\ DOMAIN notices \subseteq Feedbacks
    /\ AnswerToldOnce

LEMMA NoticesStay ==
    ASSUME NoticesMeant, UNCHANGED <<feedback, notices, deleted>>
    PROVE  NoticesMeant'
BY DEF NoticesMeant, AnswerToldOnce

LEMMA NoticesDiscarded ==
    ASSUME NoticesMeant, NEW ids \in SUBSET DOMAIN notices, Discard(ids)
    PROVE  NoticesMeant'
<1>1. DOMAIN notices' = DOMAIN notices \ ids /\ deleted' = deleted \cup ids /\ feedback' = feedback
  BY DEF Discard
<1>2. QED BY <1>1 DEF NoticesMeant, AnswerToldOnce

LEMMA NoticesRead ==
    ASSUME NoticesMeant, NEW ids, MarkRead(ids)
    PROVE  NoticesMeant'
<1>1. DOMAIN notices' = DOMAIN notices /\ deleted' = deleted /\ feedback' = feedback
  BY DEF MarkRead
<1>2. QED BY <1>1 DEF NoticesMeant, AnswerToldOnce

LEMMA NoticesSteps == NoticesMeant /\ [FeedsNext]_feedsVars => NoticesMeant'
<1> SUFFICES ASSUME NoticesMeant, [FeedsNext]_feedsVars PROVE NoticesMeant'  OBVIOUS
<1>1. ASSUME NEW f \in Feedbacks, NEW m, SubmitFeedback(f, m) PROVE NoticesMeant'
  <2>1. /\ feedback[f] = "none" /\ feedback' = [feedback EXCEPT ![f] = "pending"]
        /\ UNCHANGED <<notices, deleted>>
    BY <1>1 DEF SubmitFeedback
  <2>2. \A g \in Feedbacks : feedback'[g] \in Responses <=> feedback[g] \in Responses
    BY <2>1, FeedsAssumption DEF NoticesMeant
  <2>3. QED BY <2>1, <2>2 DEF NoticesMeant, AnswerToldOnce
<1>2. ASSUME NEW f \in Feedbacks, NEW response \in Responses, Respond(f, response) PROVE NoticesMeant'
  <2>1. /\ feedback[f] = "pending" /\ feedback' = [feedback EXCEPT ![f] = response]
        /\ DOMAIN notices' = DOMAIN notices \cup {f} /\ deleted' = deleted
    BY <1>2 DEF Respond, Respondable
  <2>2. f \notin DOMAIN notices \cup deleted
    BY <2>1, FeedsAssumption DEF NoticesMeant, AnswerToldOnce
  <2>3. \A g \in Feedbacks : feedback'[g] \in Responses <=> feedback[g] \in Responses \/ g = f
    BY <2>1 DEF NoticesMeant
  <2>4. QED BY <2>1, <2>2, <2>3 DEF NoticesMeant, AnswerToldOnce
<1>3. CASE (\E f \in Feedbacks : MarkOne(f)) \/ MarkAllRead
  BY <1>3, NoticesRead DEF MarkOne, MarkAllRead
<1>4. CASE (\E f \in Feedbacks : Delete(f)) \/ DeleteRead
  BY <1>4, NoticesDiscarded DEF Delete, DeleteRead
<1>5. CASE \/ \E i \in Ids, at \in Times, kind \in WorkKinds : CommitEntry(i, at, kind)
           \/ \E e \in listed : Settle(e)
           \/ \E kind \in WorkKinds \cup {"all"}, limit \in Limits, by \in {"cursor", "skip"} :
                 OpenList(kind, limit, by)
           \/ List \/ CloseAccount
  BY <1>5, NoticesStay DEF CommitEntry, Settle, OpenList, List, CloseAccount, feedbackVars
<1>6. CASE \/ \E t \in Tabs : GetPreferences(t)
           \/ \E t \in Tabs, k \in Switches : Flip(t, k)
           \/ \E t \in Tabs : \E n \in DOMAIN tab[t].sending : SavePreferences(t, n)
  BY <1>6, NoticesStay DEF GetPreferences, Flip, SavePreferences, feedbackVars
<1>7. CASE UNCHANGED feedsVars
  BY <1>7, NoticesStay DEF feedsVars
<1>8. QED BY <1>1, <1>2, <1>3, <1>4, <1>5, <1>6, <1>7 DEF FeedsNext

\* As long as no flip has crossed a save, at most one save is on its way, and it
\* holds what the user wants; when none is, that is stored.
Snapshot == [Switches -> BOOLEAN]
SwitchesMeant ==
    /\ preferences \in Snapshot \cup {NoneStored} /\ wanted \in Snapshot /\ crossed \in BOOLEAN
    /\ tab \in [Tabs -> [shown : Snapshot \cup {NoneStored}, sending : Seq(Snapshot)]]
    /\ ~crossed =>
          \/ (\A t \in Tabs : tab[t].sending = << >>) /\ StoredSwitches = wanted
          \/ \E t \in Tabs : /\ tab[t].sending = <<wanted>>
                             /\ \A u \in Tabs : u # t => tab[u].sending = << >>

LEMMA SwitchesStay ==
    ASSUME SwitchesMeant, UNCHANGED switchVars
    PROVE  SwitchesMeant'
BY DEF SwitchesMeant, switchVars, StoredSwitches

LEMMA StoredSnapshot ==
    ASSUME SwitchesMeant
    PROVE  StoredSwitches \in Snapshot
BY DEF SwitchesMeant, StoredSwitches, DefaultPreferences, Snapshot

LEMMA GetPreferencesMeant ==
    ASSUME SwitchesMeant, NEW t \in Tabs, GetPreferences(t)
    PROVE  SwitchesMeant'
<1>1. /\ tab' = [tab EXCEPT ![t].shown = StoredSwitches]
      /\ UNCHANGED <<preferences, wanted, crossed>>
  BY DEF GetPreferences
<1>2. tab' \in [Tabs -> [shown : Snapshot \cup {NoneStored}, sending : Seq(Snapshot)]]
  BY <1>1, StoredSnapshot DEF SwitchesMeant
<1>3. \A u \in Tabs : tab'[u].sending = tab[u].sending
  BY <1>1 DEF SwitchesMeant
<1>4. StoredSwitches' = StoredSwitches
  BY <1>1 DEF StoredSwitches
<1>5. QED BY <1>1, <1>2, <1>3, <1>4 DEF SwitchesMeant

LEMMA FlipMeant ==
    ASSUME SwitchesMeant, NEW t \in Tabs, NEW k \in Switches, Flip(t, k)
    PROVE  SwitchesMeant'
<1> DEFINE flipped == [tab[t].shown EXCEPT ![k] = ~@]
<1>1. /\ tab[t].shown # NoneStored
      /\ tab' = [tab EXCEPT ![t] = [shown |-> flipped, sending |-> Append(tab[t].sending, flipped)]]
      /\ wanted' = [wanted EXCEPT ![k] = flipped[k]] /\ preferences' = preferences
      /\ crossed' = (crossed \/ tab[t].shown # StoredSwitches \/ \E u \in Tabs : tab[u].sending # << >>)
  BY DEF Flip, SwitchesMeant
<1>2. tab[t].shown \in Snapshot /\ tab[t].sending \in Seq(Snapshot) /\ wanted \in Snapshot
  BY <1>1 DEF SwitchesMeant
<1>3. flipped \in Snapshot /\ flipped[k] \in BOOLEAN
  BY <1>2 DEF Snapshot
<1>4. wanted' \in Snapshot
  BY <1>1, <1>2, <1>3 DEF Snapshot
<1> DEFINE sends == Append(tab[t].sending, flipped)
<1>5. sends \in Seq(Snapshot)
  BY <1>2, <1>3
<1>6. tab' \in [Tabs -> [shown : Snapshot \cup {NoneStored}, sending : Seq(Snapshot)]]
  <2> HIDE DEF sends, flipped
  <2>1. [shown |-> flipped, sending |-> sends] \in [shown : Snapshot \cup {NoneStored}, sending : Seq(Snapshot)]
    BY <1>3, <1>5
  <2>2. QED BY <1>1, <2>1 DEF SwitchesMeant, sends
<1>7. ASSUME ~crossed'
      PROVE  tab'[t].sending = <<wanted'>> /\ \A u \in Tabs : u # t => tab'[u].sending = << >>
  <2>1. /\ ~crossed /\ tab[t].shown = StoredSwitches /\ \A u \in Tabs : tab[u].sending = << >>
    BY <1>1, <1>7
  <2>2. StoredSwitches = wanted
    <3>1. \A v : << >> # <<v>>
      OBVIOUS
    <3>2. QED BY <2>1, <3>1 DEF SwitchesMeant
  <2>3. flipped = wanted'
    BY <1>1, <1>2, <2>1, <2>2 DEF Snapshot
  <2>4. tab'[t].sending = sends /\ \A u \in Tabs : u # t => tab'[u] = tab[u]
    BY <1>1 DEF SwitchesMeant
  <2>5. sends = <<flipped>>
    <3>1. tab[t].sending = << >>
      BY <2>1
    <3>2. \A v : Append(<< >>, v) = <<v>>
      OBVIOUS
    <3> HIDE DEF flipped
    <3>3. QED BY <3>1, <3>2
  <2>6. QED BY <2>1, <2>3, <2>4, <2>5
<1>8. crossed' \in BOOLEAN
  BY <1>1
<1>9. QED BY <1>1, <1>4, <1>6, <1>7, <1>8 DEF SwitchesMeant

LEMMA SavePreferencesMeant ==
    ASSUME SwitchesMeant, NEW t \in Tabs, NEW n \in DOMAIN tab[t].sending, SavePreferences(t, n)
    PROVE  SwitchesMeant'
<1> DEFINE s == tab[t].sending
           rest == RemoveAt(s, n)
<1>1. /\ preferences' = s[n] /\ UNCHANGED <<wanted, crossed>>
      /\ tab' = [tab EXCEPT ![t].sending = rest]
  BY DEF SavePreferences
<1>2. s \in Seq(Snapshot)
  BY DEF SwitchesMeant
<1>3. Len(s) \in Nat /\ n \in 1..Len(s) /\ s[n] \in Snapshot
  BY <1>2
<1> HIDE DEF s
<1>4. rest \in Seq(Snapshot)
  <2>1. SubSeq(s, 1, n - 1) \in Seq(Snapshot) /\ SubSeq(s, n + 1, Len(s)) \in Seq(Snapshot)
    <3>1. \A i \in 1..(n - 1) : s[i] \in Snapshot
      BY <1>2, <1>3
    <3>2. \A i \in (n + 1)..Len(s) : s[i] \in Snapshot
      BY <1>2, <1>3
    <3>3. n - 1 \in Int /\ n + 1 \in Int /\ Len(s) \in Int
      BY <1>3
    <3>4. QED BY <3>1, <3>2, <3>3, SubSeqProperties
  <2>2. QED BY <2>1, ConcatProperties DEF RemoveAt
<1> HIDE DEF rest
<1>5. tab' \in [Tabs -> [shown : Snapshot \cup {NoneStored}, sending : Seq(Snapshot)]]
  BY <1>1, <1>4 DEF SwitchesMeant
<1>6. tab'[t].sending = rest /\ \A u \in Tabs : u # t => tab'[u] = tab[u]
  BY <1>1 DEF SwitchesMeant
<1>7. ASSUME ~crossed
      PROVE  (\A u \in Tabs : tab'[u].sending = << >>) /\ StoredSwitches' = wanted
  <2>1. s # << >>
    BY <1>3
  <2>2. s = <<wanted>> /\ \A u \in Tabs : u # t => tab[u].sending = << >>
    BY <1>7, <2>1 DEF SwitchesMeant, s
  <2>3. n = 1 /\ s[n] = wanted /\ Len(s) = 1
    BY <1>3, <2>2
  <2>4. rest = << >>
    <3>1. SubSeq(s, 1, 0) = << >> /\ SubSeq(s, 2, 1) = << >>
      BY SubSeqEmpty
    <3>2. rest = << >> \o << >>
      BY <2>3, <3>1 DEF rest, RemoveAt
    <3>3. QED BY <3>2
  <2>5. wanted # NoneStored
    <3>1. DOMAIN wanted = Switches /\ DOMAIN NoneStored = {}
      BY DEF SwitchesMeant, Snapshot, NoneStored
    <3>2. QED BY <3>1, FeedsAssumption
  <2>6. QED BY <1>1, <1>6, <2>2, <2>3, <2>4, <2>5 DEF StoredSwitches
<1>8. QED BY <1>1, <1>3, <1>5, <1>7 DEF SwitchesMeant

LEMMA SwitchesSteps == SwitchesMeant /\ [FeedsNext]_feedsVars => SwitchesMeant'
<1> SUFFICES ASSUME SwitchesMeant, [FeedsNext]_feedsVars PROVE SwitchesMeant'  OBVIOUS
<1>1. CASE \E t \in Tabs : GetPreferences(t)
  BY <1>1, GetPreferencesMeant
<1>2. CASE \E t \in Tabs, k \in Switches : Flip(t, k)
  BY <1>2, FlipMeant
<1>3. CASE \E t \in Tabs : \E n \in DOMAIN tab[t].sending : SavePreferences(t, n)
  BY <1>3, SavePreferencesMeant
<1>4. CASE \/ \E i \in Ids, at \in Times, kind \in WorkKinds : CommitEntry(i, at, kind)
           \/ \E e \in listed : Settle(e)
           \/ \E kind \in WorkKinds \cup {"all"}, limit \in Limits, by \in {"cursor", "skip"} :
                 OpenList(kind, limit, by)
           \/ List \/ CloseAccount
  BY <1>4, SwitchesStay DEF CommitEntry, Settle, OpenList, List, CloseAccount
<1>5. CASE \/ \E f \in Feedbacks, m \in Submissions : SubmitFeedback(f, m)
           \/ \E f \in Feedbacks, response \in Responses : Respond(f, response)
           \/ \E f \in Feedbacks : MarkOne(f) \/ Delete(f)
           \/ MarkAllRead \/ DeleteRead
  BY <1>5, SwitchesStay DEF SubmitFeedback, Respond, MarkOne, Delete, MarkAllRead, DeleteRead, MarkRead, Discard
<1>6. CASE UNCHANGED feedsVars
  BY <1>6, SwitchesStay DEF feedsVars, switchVars
<1>7. QED BY <1>1, <1>2, <1>3, <1>4, <1>5, <1>6 DEF FeedsNext

\* The inductive invariant of what a user is told.
FeedsInv == ReadingInv /\ NoticesMeant /\ SwitchesMeant

LEMMA FeedsInitInv == FeedsInit => FeedsInv
<1> SUFFICES ASSUME FeedsInit PROVE FeedsInv  OBVIOUS
<1>1. NoticesMeant
  BY FeedsAssumption DEF FeedsInit, NoticesMeant, AnswerToldOnce
<1>2. SwitchesMeant
  <2>1. << >> \in Seq(Snapshot) /\ DefaultPreferences \in Snapshot
    BY DEF Snapshot, DefaultPreferences
  <2>2. tab \in [Tabs -> [shown : Snapshot \cup {NoneStored}, sending : Seq(Snapshot)]]
    BY <2>1 DEF FeedsInit
  <2>3. \A t \in Tabs : tab[t].sending = << >>
    BY DEF FeedsInit
  <2>4. QED BY <2>1, <2>2, <2>3 DEF FeedsInit, SwitchesMeant, StoredSwitches
<1>3. QED BY <1>1, <1>2, ReadingInitInv DEF FeedsInv

LEMMA FeedsInvariant == FeedsSpec => []FeedsInv
<1>1. FeedsInv /\ [FeedsNext]_feedsVars => FeedsInv'
  BY ReadingSteps, NoticesSteps, SwitchesSteps DEF FeedsInv
<1>2. QED BY <1>1, FeedsInitInv, PTL DEF FeedsSpec

\* The entry of an identifier that was told is the one it was told of.
LEMMA PagesAreWhole == ReadingInv => PagesTellAll
<1> SUFFICES ASSUME ReadingInv PROVE PagesTellAll  OBVIOUS
<1>1. ASSUME NEW i, NEW x \in Places, x.id = i
      PROVE  EntryOf(i) \in listed /\ x = PlaceOf(EntryOf(i))
  <2>1. PICK e \in listed : x = PlaceOf(e) /\ e.id = i
    BY <1>1, PlacesMeant DEF ReadingInv
  <2>2. EntryOf(i) \in listed /\ EntryOf(i).id = i
    BY <2>1 DEF EntryOf
  <2>3. QED BY <2>1, <2>2 DEF ReadingInv, ListMeant
<1>2. ASSUME reader.phase # "new", reader.by = "cursor", NEW m \in DOMAIN reader.told,
             NEW n \in DOMAIN reader.told, m < n
      PROVE  Newer(EntryOf(reader.told[m].id), EntryOf(reader.told[n].id))
  <2>1. PICK x \in Places, y \in Places : x.id = reader.told[m].id /\ y.id = reader.told[n].id
    BY <1>2 DEF ReadingInv, ToldMeant
  <2>2. Newer(x, y)
    BY <1>2, <2>1 DEF ReadingInv, ByCursor
  <2>3. /\ EntryOf(reader.told[m].id) \in listed /\ x = PlaceOf(EntryOf(reader.told[m].id))
        /\ EntryOf(reader.told[n].id) \in listed /\ y = PlaceOf(EntryOf(reader.told[n].id))
    BY <1>1, <2>1
  <2>4. QED BY <2>2, <2>3 DEF PlaceOf, Newer
<1>3. reader.phase = "done" => reader.known \subseteq ToldIds(reader)
  BY DEF ReadingInv, ToldMeant
<1>4. QED BY <1>2, <1>3 DEF PagesTellAll

\* FeedsSafe: for any entries, times, page sizes, feedback, tabs and switches, a
\* reader is told every entry there was when he began, newest first by cursor
\* (List of the two repositories), an answer has its notice until the user
\* removes it (Respond, Delete), and a switch keeps what its user last chose
\* unless a flip crossed a save (SavePreferences).
THEOREM FeedsStaySafe == FeedsSpec => []FeedsSafe
<1>1. FeedsInv => FeedsSafe
  <2>1. ASSUME SwitchesMeant PROVE SwitchesStand
    <3>1. \A v : << >> # <<v>>
      OBVIOUS
    <3>2. QED BY <2>1, <3>1 DEF SwitchesMeant, SwitchesStand
  <2>2. QED BY <2>1, PagesAreWhole DEF FeedsInv, NoticesMeant, FeedsSafe
<1>2. QED BY <1>1, FeedsInvariant, PTL

\* FeedsTypeOK: entries, notices, feedback and switches stay well-formed.
THEOREM FeedsTyped == FeedsSpec => []FeedsTypeOK
<1>1. FeedsInv => FeedsTypeOK
  BY DEF FeedsInv, ReadingInv, ListMeant, ListedEntry, EntryStatuses, NoticesMeant, SwitchesMeant, Snapshot,
         FeedsTypeOK
<1>2. QED BY <1>1, FeedsInvariant, PTL
-----------------------------------------------------------------------------
(* The types of the stream and of the callbacks.                             *)

\* What the exploration leaves of the events.
EventsBounded == life.events <= MaxEvents

\* The hub numbers, keeps and offers no more than it has room for.
THEOREM RealtimeTyped == RealtimeSpec => []RealtimeTypeOK
<1>1. RealtimeInit => EventsBounded
  BY RealtimeAssumption DEF RealtimeInit, EventsBounded
<1>2. RealtimeInv /\ EventsBounded /\ [RealtimeNext]_realtimeVars => EventsBounded'
  <2> SUFFICES ASSUME RealtimeInv, EventsBounded, [RealtimeNext]_realtimeVars PROVE EventsBounded'
    OBVIOUS
  <2>1. life \in [events : Nat, restarts : Nat] /\ MaxEvents \in Nat
    BY RealtimeAssumption DEF RealtimeInv, StreamShapes
  <2>2. CASE Publish
    BY <2>1, <2>2 DEF Publish, EventsBounded
  <2>3. CASE Restart
    BY <2>1, <2>3 DEF Restart, EventsBounded
  <2>4. CASE life' = life
    BY <2>4 DEF EventsBounded
  <2>5. QED BY <2>2, <2>3, <2>4 DEF RealtimeNext, realtimeVars, SubscribeSince, Deliver, Unsubscribe
<1>3. RealtimeInv /\ EventsBounded => RealtimeTypeOK
  <2> SUFFICES ASSUME RealtimeInv, EventsBounded PROVE RealtimeTypeOK
    OBVIOUS
  <2>1. nextID \in Nat /\ nextID <= life.events /\ life.events \in Nat /\ MaxEvents \in Nat
    BY RealtimeAssumption DEF RealtimeInv, StreamShapes
  <2>2. Len(history) <= HistorySize
    BY <2>1, RealtimeAssumption DEF RealtimeInv, HistoryMeant, HistorySize
  <2>3. QED BY <2>1, <2>2 DEF RealtimeInv, StreamShapes, EventsBounded, RealtimeTypeOK
<1>4. QED BY <1>1, <1>2, <1>3, StreamInvariant, PTL DEF RealtimeSpec

\* What the service holds of the steps, the clock, and which step has a frozen
\* execution: each but a second one whose frame is still to come.
CallbacksBounded ==
    /\ job \in [Steps -> {"none", "running", "completed", "failed", "cancelled", "rejected"}]
    /\ clock \in 0..MaxClock
    /\ \A s \in Steps : execution[s] = NoFact <=> (s[2] = 2 /\ recipe[s[1]] = "pending")

LEMMA CallbacksBoundedStart == CallbacksInit => CallbacksBounded
<1> SUFFICES ASSUME CallbacksInit PROVE CallbacksBounded
  OBVIOUS
<1>1. job \in [Steps -> {"none", "running", "completed", "failed", "cancelled", "rejected"}] /\ clock \in 0..MaxClock
  BY CallbacksAssumption DEF CallbacksInit
<1>2. ASSUME NEW s \in Steps PROVE execution[s] = NoFact <=> (s[2] = 2 /\ recipe[s[1]] = "pending")
  <2>1. s[2] = 2 => s[1] \in TwoSteps
    BY StepParts, CallbacksAssumption
  <2>2. s[2] = 2 => recipe[s[1]] = "pending"
    BY <2>1 DEF CallbacksInit
  <2>3. execution[s] = NoFact <=> s[2] = 2
    BY DEF CallbacksInit
  <2>4. QED BY <2>2, <2>3
<1>3. QED BY <1>1, <1>2 DEF CallbacksBounded

LEMMA CallbacksBoundedStep ==
    ASSUME CallbacksInv, CallbacksBounded, [CallbacksNext]_callbackVars
    PROVE  CallbacksBounded'
<1>1. clock' \in 0..MaxClock
  <2>1. clock' \in {clock, clock + 1} /\ (clock' = clock \/ clock < MaxClock)
    BY DEF CallbacksNext, callbackVars, Submit, LookupExecution, Finish, Send, AskCancel, Handle, Tick
  <2>2. QED BY <2>1, CallbacksAssumption DEF CallbacksBounded
<1>2. job' \in [Steps -> {"none", "running", "completed", "failed", "cancelled", "rejected"}]
  <2>1. CASE \E s \in Steps : Submit(s)
    <3>1. PICK s \in Steps : Submit(s)
      BY <2>1
    <3> DEFINE outcomes == IF job[s] = "none" THEN {"none", "running", "rejected"} ELSE {job[s]}
    <3>2. PICK taken \in outcomes : job' = [job EXCEPT ![s] = taken]
      <4>1. PICK taken \in outcomes, code \in {201, 404, 502} :
              /\ (code = 404 => taken = "none") /\ (taken = "none" => code # 201)
              /\ job' = [job EXCEPT ![s] = taken]
              /\ ConcludedAs(s, SubmitMeaning(code, EnvelopeStatus(taken)))
        BY <3>1 DEF Submit
      <4> QED
        BY <4>1
    <3> HIDE DEF outcomes
    <3>3. outcomes \subseteq {"none", "running", "rejected", job[s]}
      BY DEF outcomes
    <3>4. QED BY <3>2, <3>3 DEF CallbacksBounded
  <2>2. CASE \E s \in Steps : Finish(s)
    BY <2>2 DEF Finish, CallbacksBounded
  <2>3. CASE job' = job
    BY <2>3 DEF CallbacksBounded
  <2>4. QED
    BY <2>1, <2>2, <2>3 DEF CallbacksNext, callbackVars, LookupExecution, Send, AskCancel, Handle, Tick
<1>3. ASSUME NEW s \in Steps PROVE execution'[s] = NoFact <=> (s[2] = 2 /\ recipe'[s[1]] = "pending")
  <2>1. CASE UNCHANGED <<recipe, execution>>
    BY <2>1 DEF CallbacksBounded
  <2>2. CASE \E m \in sent : Linked(FactOf(m)) /\ CompleteFrame(m.nonce, FactOf(m)) /\ Verified(m) /\ FactOf(m).terminal = "completed"
    <3>1. PICK m \in sent : Linked(FactOf(m)) /\ CompleteFrame(m.nonce, FactOf(m)) /\ Verified(m) /\ FactOf(m).terminal = "completed"
      BY <2>2
    <3> DEFINE c == FactOf(m).step[1]
               url == FactOf(m).url
    <3>2. FactOf(m).step \in Steps /\ FactOf(m).step[2] = 1 /\ c \in TwoSteps
      <4>1. FactOf(m).step \in Steps /\ ~IsFinalStep(FactOf(m).step)
        BY <3>1 DEF Linked, CompleteFrame
      <4>2. QED BY <4>1, StepParts, CallbacksAssumption DEF IsFinalStep, Sequence
    <3>3. /\ recipe' = [recipe EXCEPT ![c] = "consumed"]
          /\ execution' = [execution EXCEPT ![<<c, 2>>] = BoundRecipe(c, url)]
      BY <3>1 DEF CompleteFrame
    <3>4. url \in Urls
      BY <3>1, FactsOfCallbacks DEF CallbacksInv, CallbackShapes, Verified
    <3>5. BoundRecipe(c, url) # NoFact
      BY <3>2, <3>4, CallbacksAssumption
    <3> HIDE DEF c, url
    <3>6. CASE s = <<c, 2>>
      <4>1. s[1] = c /\ s[2] = 2 /\ execution'[s] = BoundRecipe(c, url) /\ recipe'[c] = "consumed"
        BY <3>6, <3>2, <3>3 DEF CallbacksInv, CallbackShapes
      <4>2. QED BY <4>1, <3>5
    <3>7. CASE s # <<c, 2>>
      <4>1. execution'[s] = execution[s] /\ (s[2] = 2 => s[1] \in TwoSteps /\ s[1] # c)
        BY <3>7, <3>3, StepParts, CallbacksAssumption DEF CallbacksInv, CallbackShapes
      <4>2. s[2] = 2 => recipe'[s[1]] = recipe[s[1]]
        BY <4>1, <3>3 DEF CallbacksInv, CallbackShapes
      <4>3. QED BY <4>1, <4>2 DEF CallbacksBounded
    <3>8. QED BY <3>6, <3>7
  <2>3. QED
    BY <2>1, <2>2 DEF CallbacksNext, callbackVars, Submit, LookupExecution, Finish, Send, AskCancel, Handle, Tick,
                      CompleteFinal, Fail, Confirm
<1>4. QED BY <1>1, <1>2, <1>3 DEF CallbacksBounded

\* Creations, steps, receipts and what the service holds stay well-formed, and a
\* step has no execution only while its frame is still to come.
THEOREM CallbacksTyped == CallbacksSpec => []CallbacksTypeOK
<1>1. CallbacksInv /\ CallbacksBounded /\ [CallbacksNext]_callbackVars => CallbacksBounded'
  BY CallbacksBoundedStep
<1>2. CallbacksInv /\ CallbacksBounded => CallbacksTypeOK
  <2> SUFFICES ASSUME CallbacksInv, CallbacksBounded PROVE CallbacksTypeOK
    OBVIOUS
  <2>1. /\ creation \in [Creations -> CreationStatuses] /\ recipe \in [TwoSteps -> {"pending", "consumed"}]
        /\ step \in [Steps -> [status : StepStatuses, version : {0, 2}, job : Steps \cup {NoFact}]]
        /\ asset \in [Steps -> Urls \cup {NoFact}] /\ receipt \in [Nonces -> Facts \cup {NoFact}]
        /\ refunds \in [Creations -> {0, 1}]
    BY DEF CallbacksInv, CallbackShapes, StepType
  <2>2. \A n \in Nonces : receipt[n] # NoFact => receipt[n] \in Facts
    BY <2>1
  <2>3. refunds \in [Creations -> 0..2]
    BY <2>1
  <2>4. QED BY <2>1, <2>2, <2>3 DEF CallbacksBounded, CallbacksTypeOK
<1>3. QED BY <1>1, <1>2, CallbacksBoundedStart, CallbacksInvariant, PTL DEF CallbacksSpec
-----------------------------------------------------------------------------

\* UserTypeOK: the components of the user's side, whatever each of them does
\* while the others move, keep the shapes their operations rely on.
THEOREM UserTyped == UserSpec => []UserTypeOK
<1>1. UserSpec => /\ AdmissionSpec /\ SessionsSpec /\ CallbacksSpec /\ RealtimeSpec /\ FeedsSpec
                  /\ GatewaySpec /\ MediaSpec /\ ProvidersSpec /\ PayCoresSpec
  BY DEF UserSpec, EdgeSpec
<1>2. UserSpec => /\ []AdmissionTypeOK /\ []SessionsTypeOK /\ []CallbacksTypeOK /\ []RealtimeTypeOK /\ []FeedsTypeOK
                  /\ []GatewayTypeOK /\ []MediaTypeOK /\ []ProvidersTypeOK /\ []PayCoresTypeOK
  BY <1>1, TypesHold, AccountsTyped, CallbacksTyped, RealtimeTyped, FeedsTyped,
     GatewayTyped, MediaTyped, ProvidersTyped, PayCoresTyped
<1>3. QED BY <1>2, PTL DEF UserTypeOK
=============================================================================
