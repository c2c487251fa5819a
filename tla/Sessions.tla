------------------------------- MODULE Sessions -------------------------------
(***************************************************************************)
(* Accounts, credentials, external identities and sessions.                *)
(*                                                                         *)
(* A request is several reads and writes, each its own operation on the    *)
(* database unless the code opens a transaction: a password login reads    *)
(* the credential, then the user, then perhaps writes a new hash, then     *)
(* inserts the session; an authentication reads the session and then the   *)
(* user; a change of password writes the hash and then revokes.  Between   *)
(* any two of them another request may change what was read.               *)
(*                                                                         *)
(* What withdraws a session is the version: a session keeps the version    *)
(* its login read, and every change of the account's status or role        *)
(* increments it.                                                          *)
(***************************************************************************)
EXTENDS Integers, FiniteSets

CONSTANTS
    People,       \* identifiers of accounts, drawn at random by the service
    Emails, Devices, Subjects,
    Passwords,
    Tokens,       \* identifiers of sessions, drawn at random by the service
    Requests,
    MaxChanges,   \* bound on the operators' changes to one account
    Nobody, NoEmail, NoDevice, NoToken, NoPassword

VARIABLES
    accounts,     \* users: status, binding, device, session version
    credentials,  \* one per registered account: email, hash, active
    subjects,     \* owner of each external identity
    sessions,     \* sessions issued
    request,      \* where each request stands
    changes,      \* history: changes of an account's status or role
    chosen        \* history: password last chosen for an account

sessionsVars == <<accounts, credentials, subjects, sessions, request, changes, chosen>>
-----------------------------------------------------------------------------
\* A hash remembers the password and whether the present parameters made it.
Hashes == [password : Passwords \cup {NoPassword}, current : BOOLEAN]

NewHash(w) == [password |-> w, current |-> TRUE]
Matches(hash, w) == hash.password = w

NoAccount == [status |-> "none", binding |-> "guest", device |-> NoDevice, version |-> 0]
NoCredential == [email |-> NoEmail, active |-> FALSE,
                 hash |-> [password |-> NoPassword, current |-> FALSE]]
NoSession == [owner |-> Nobody, version |-> 0, over |-> FALSE, since |-> 0]
Done == [at |-> "done", who |-> Nobody, token |-> NoToken, password |-> NoPassword,
         version |-> 0, since |-> 0, stale |-> FALSE, ok |-> FALSE]
Ready == [Done EXCEPT !.at = "ready"]

ASSUME SessionsAssumption ==
    /\ Nobody \notin People /\ NoEmail \notin Emails /\ NoDevice \notin Devices
    /\ NoToken \notin Tokens /\ NoPassword \notin Passwords
    /\ MaxChanges \in Nat

\* Accounts that exist already may have been hashed with former parameters.
SessionsInit ==
    /\ accounts \in [People -> {NoAccount, [NoAccount EXCEPT !.status = "normal",
                                                !.binding = "bound", !.version = 1]}]
    /\ credentials \in [People -> {NoCredential} \cup
            [email : Emails, active : {TRUE}, hash : [password : Passwords, current : BOOLEAN]]]
    /\ \A p \in People : (accounts[p] # NoAccount) <=> (credentials[p] # NoCredential)
    /\ \A p, q \in People : p # q /\ credentials[p] # NoCredential
                                => credentials[p].email # credentials[q].email
    /\ subjects = [s \in Subjects |-> Nobody]
    /\ sessions = [t \in Tokens |-> NoSession]
    /\ request = [r \in Requests |-> Ready]
    /\ changes = [p \in People |-> 0]
    /\ chosen = [p \in People |-> credentials[p].hash.password]
-----------------------------------------------------------------------------
Normal(p) == accounts[p].status = "normal"
Unused == {p \in People : accounts[p].status = "none"}
FreshTokens == {t \in Tokens : sessions[t] = NoSession}

\* The active credential of an email, if any; the unique index allows one.
Holders(e) == {p \in People : credentials[p].active /\ credentials[p].email = e}

Revoked(p) == [t \in Tokens |-> IF sessions[t].owner = p
                               THEN [sessions[t] EXCEPT !.over = TRUE] ELSE sessions[t]]

\* What a validation of a session that begins and ends now would say.
Acceptable(t) ==
    LET s == sessions[t]
    IN  s # NoSession /\ ~s.over /\ Normal(s.owner) /\ accounts[s.owner].version = s.version

Issue(t, p, version, since) ==
    sessions' = [sessions EXCEPT ![t] =
        [owner |-> p, version |-> version, over |-> FALSE, since |-> since]]

Step(r, at) == request' = [request EXCEPT ![r].at = at]
End(r, ok) == request' = [request EXCEPT ![r] = [Done EXCEPT !.ok = ok]]
-----------------------------------------------------------------------------
(* Registration and the logins.                                            *)

\* One transaction: an address is free if nobody holds it or its holder is
\* deleted, whose credential is then put aside.
Register(r, p, e, w, t) ==
    /\ request[r].at = "ready"
    /\ p \in Unused /\ t \in FreshTokens
    /\ \A q \in Holders(e) : accounts[q].status = "deleted"
    /\ accounts' = [accounts EXCEPT ![p] =
            [status |-> "normal", binding |-> "bound", device |-> NoDevice, version |-> 1]]
    /\ credentials' = [q \in People |->
            IF q = p THEN [email |-> e, active |-> TRUE, hash |-> NewHash(w)]
            ELSE IF q \in Holders(e) THEN [credentials[q] EXCEPT !.active = FALSE]
            ELSE credentials[q]]
    /\ chosen' = [chosen EXCEPT ![p] = w]
    /\ Issue(t, p, 1, changes[p])
    /\ End(r, TRUE)
    /\ UNCHANGED <<subjects, changes>>

\* A password login reads the active credential of the address and compares.
Verify(r, p, e, w) ==
    /\ request[r].at = "ready"
    /\ p \in Holders(e)
    /\ IF Matches(credentials[p].hash, w)
       THEN request' = [request EXCEPT ![r] = [Ready EXCEPT !.at = "verified", !.who = p,
                            !.password = w, !.stale = ~credentials[p].hash.current]]
       ELSE End(r, FALSE)
    /\ UNCHANGED <<accounts, credentials, subjects, sessions, changes, chosen>>

\* The login of the local development account compares nothing.
FindLocal(r, p, e) ==
    /\ request[r].at = "ready"
    /\ p \in Holders(e)
    /\ request' = [request EXCEPT ![r] = [Ready EXCEPT !.at = "verified", !.who = p]]
    /\ UNCHANGED <<accounts, credentials, subjects, sessions, changes, chosen>>

ReadUser(r) ==
    LET p == request[r].who
    IN  /\ request[r].at = "verified"
        /\ IF Normal(p)
           THEN request' = [request EXCEPT ![r].at = IF request[r].stale THEN "rehash" ELSE "issue",
                                ![r].version = accounts[p].version, ![r].since = changes[p]]
           ELSE End(r, FALSE)
        /\ UNCHANGED <<accounts, credentials, subjects, sessions, changes, chosen>>

\* A hash of former parameters is replaced by one of the same password: the
\* update finds the active credential by its user alone.
Rehash(r) ==
    LET p == request[r].who
    IN  /\ request[r].at = "rehash"
        /\ IF credentials[p].active
           THEN /\ credentials' = [credentials EXCEPT ![p].hash = NewHash(request[r].password)]
                /\ Step(r, "issue")
           ELSE /\ End(r, FALSE) /\ UNCHANGED credentials
        /\ UNCHANGED <<accounts, subjects, sessions, changes, chosen>>

IssueSession(r, t) ==
    /\ request[r].at = "issue"
    /\ t \in FreshTokens
    /\ Issue(t, request[r].who, request[r].version, request[r].since)
    /\ End(r, TRUE)
    /\ UNCHANGED <<accounts, credentials, subjects, changes, chosen>>

\* The guest of a device logs in: its account is created, or read in the
\* snapshot of a transaction that writes only the session.
CreateGuest(r, p, d, t) ==
    /\ request[r].at = "ready"
    /\ p \in Unused /\ t \in FreshTokens
    /\ \A q \in People : accounts[q].device # d
    /\ accounts' = [accounts EXCEPT ![p] =
            [status |-> "normal", binding |-> "guest", device |-> d, version |-> 1]]
    /\ Issue(t, p, 1, changes[p])
    /\ End(r, TRUE)
    /\ UNCHANGED <<credentials, subjects, changes, chosen>>

ReturnGuest(r, p) ==
    /\ request[r].at = "ready"
    /\ accounts[p].device # NoDevice
    /\ IF Normal(p)
       THEN request' = [request EXCEPT ![r] = [Ready EXCEPT !.at = "issue", !.who = p,
                            !.version = accounts[p].version, !.since = changes[p]]]
       ELSE End(r, FALSE)
    /\ UNCHANGED <<accounts, credentials, subjects, sessions, changes, chosen>>
-----------------------------------------------------------------------------
(* Authentication: the session is read, then its user.                     *)

ReadSession(r, t) ==
    /\ request[r].at = "ready"
    /\ sessions[t] # NoSession
    /\ IF sessions[t].over THEN End(r, FALSE)
       ELSE request' = [request EXCEPT ![r] = [Ready EXCEPT !.at = "session", !.token = t,
                            !.ok = Acceptable(t)]]
    /\ UNCHANGED <<accounts, credentials, subjects, sessions, changes, chosen>>

Authenticate(r) ==
    LET s == sessions[request[r].token]
    IN  /\ request[r].at = "session"
        /\ IF Normal(s.owner) /\ accounts[s.owner].version = s.version
           THEN request' = [request EXCEPT ![r].at = "authenticated", ![r].who = s.owner,
                                ![r].since = changes[s.owner]]
           ELSE End(r, FALSE)
        /\ UNCHANGED <<accounts, credentials, subjects, sessions, changes, chosen>>
-----------------------------------------------------------------------------
(* What an authenticated user does.                                        *)

\* Reading or editing the profile touches nothing that is modelled here.
UseProfile(r) ==
    /\ request[r].at = "authenticated"
    /\ End(r, Normal(request[r].who))
    /\ UNCHANGED <<accounts, credentials, subjects, sessions, changes, chosen>>

RevokeAllSessions(r) ==
    /\ request[r].at \in {"authenticated", "revoke"}
    /\ sessions' = Revoked(request[r].who)
    /\ End(r, TRUE)
    /\ UNCHANGED <<accounts, credentials, subjects, changes, chosen>>

\* The present password is read and compared; the new one is written and the
\* sessions are revoked, in two operations and no transaction.
CheckPassword(r, w) ==
    LET p == request[r].who
    IN  /\ request[r].at = "authenticated"
        /\ IF credentials[p].active /\ Matches(credentials[p].hash, w)
           THEN request' = [request EXCEPT ![r].at = "choose", ![r].password = w]
           ELSE End(r, FALSE)
        /\ UNCHANGED <<accounts, credentials, subjects, sessions, changes, chosen>>

ChangePassword(r, w) ==
    LET p == request[r].who
    IN  /\ request[r].at = "choose"
        /\ w # request[r].password
        /\ IF credentials[p].active
           THEN /\ credentials' = [credentials EXCEPT ![p].hash = NewHash(w)]
                /\ chosen' = [chosen EXCEPT ![p] = w]
                /\ Step(r, "revoke")
           ELSE /\ End(r, FALSE) /\ UNCHANGED <<credentials, chosen>>
        /\ UNCHANGED <<accounts, subjects, sessions, changes>>

\* Mistaken variant: the sessions are revoked and the version is left alone.
ApplyStatusKeepingVersion(p, status) ==
    /\ accounts' = [accounts EXCEPT ![p].status = status]
    /\ sessions' = Revoked(p)
    /\ credentials' = IF status = "deleted" THEN [credentials EXCEPT ![p].active = FALSE]
                      ELSE credentials
    /\ changes' = [changes EXCEPT ![p] = @ + 1]

\* One transaction that writes the account it reads.
ApplyStatus(p, status) ==
    /\ accounts' = [accounts EXCEPT ![p].status = status, ![p].version = @ + 1]
    /\ sessions' = Revoked(p)
    /\ credentials' = IF status = "deleted" THEN [credentials EXCEPT ![p].active = FALSE]
                      ELSE credentials
    /\ changes' = [changes EXCEPT ![p] = @ + 1]

DeleteAccount(r) ==
    LET p == request[r].who
    IN  /\ request[r].at = "authenticated"
        /\ IF accounts[p].status = "deleted"
           THEN UNCHANGED <<accounts, sessions, credentials, changes>>
           ELSE ApplyStatus(p, "deleted")
        /\ End(r, TRUE)
        /\ UNCHANGED <<subjects, chosen>>

\* A subject of the same account is bound already, or completed.
Bindable(p, s) ==
    /\ Normal(p)
    /\ \/ subjects[s] = p
       \/ subjects[s] = Nobody /\ accounts[p].binding = "guest"

\* The transaction that binds a guest to a verified subject writes both the
\* account and the identity it has read.
BindGuest(r, s) ==
    LET p == request[r].who
    IN  /\ request[r].at = "authenticated"
        /\ IF Bindable(p, s)
           THEN /\ subjects' = [subjects EXCEPT ![s] = p]
                /\ accounts' = [accounts EXCEPT ![p].binding = "bound"]
                /\ End(r, TRUE)
           ELSE /\ End(r, FALSE) /\ UNCHANGED <<subjects, accounts>>
        /\ UNCHANGED <<credentials, sessions, changes, chosen>>
-----------------------------------------------------------------------------
(* The operators, the clock and a client that starts over.                 *)

\* A suspension, its end, a deletion, or (the same status again) a new role.
SetUserStatus(p, status) ==
    /\ accounts[p].status \in {"normal", "banned"}
    /\ changes[p] < MaxChanges
    /\ ApplyStatus(p, status)
    /\ UNCHANGED <<subjects, request, chosen>>

Expire(t) ==
    /\ sessions[t] # NoSession /\ ~sessions[t].over
    /\ sessions' = [sessions EXCEPT ![t].over = TRUE]
    /\ UNCHANGED <<accounts, credentials, subjects, request, changes, chosen>>

Again(r) ==
    /\ request[r].at = "done"
    /\ request' = [request EXCEPT ![r] = Ready]
    /\ UNCHANGED <<accounts, credentials, subjects, sessions, changes, chosen>>
-----------------------------------------------------------------------------
Entry(r) ==
    \/ \E p \in People, e \in Emails, w \in Passwords, t \in Tokens : Register(r, p, e, w, t)
    \/ \E p \in People, e \in Emails : FindLocal(r, p, e) \/ \E w \in Passwords : Verify(r, p, e, w)
    \/ ReadUser(r) \/ Rehash(r)
    \/ \E t \in Tokens : IssueSession(r, t) \/ ReadSession(r, t)
    \/ \E p \in People, d \in Devices, t \in Tokens : CreateGuest(r, p, d, t)
    \/ \E p \in People : ReturnGuest(r, p)
    \/ Authenticate(r) \/ Again(r)

Use(r) ==
    \/ UseProfile(r) \/ RevokeAllSessions(r) \/ DeleteAccount(r)
    \/ \E w \in Passwords : CheckPassword(r, w) \/ ChangePassword(r, w)
    \/ \E s \in Subjects : BindGuest(r, s)

SessionsNext ==
    \/ \E r \in Requests : Entry(r) \/ Use(r)
    \/ \E p \in People, st \in {"normal", "banned", "deleted"} : SetUserStatus(p, st)
    \/ \E t \in Tokens : Expire(t)

SessionsSpec == SessionsInit /\ [][SessionsNext]_sessionsVars
-----------------------------------------------------------------------------
SessionsTypeOK ==
    /\ accounts \in [People -> [status : {"none", "normal", "banned", "deleted"},
                               binding : {"guest", "bound"},
                               device : Devices \cup {NoDevice}, version : Nat]]
    /\ credentials \in [People -> [email : Emails \cup {NoEmail}, active : BOOLEAN, hash : Hashes]]
    /\ subjects \in [Subjects -> People \cup {Nobody}]
    /\ sessions \in [Tokens -> [owner : People \cup {Nobody}, version : Nat,
                               over : BOOLEAN, since : Nat]]
    /\ request \in [Requests ->
            [at : {"ready", "verified", "rehash", "issue", "session", "authenticated",
                   "choose", "revoke", "done"},
             who : People \cup {Nobody}, token : Tokens \cup {NoToken},
             password : Passwords \cup {NoPassword}, version : Nat, since : Nat,
             stale : BOOLEAN, ok : BOOLEAN]]
    /\ changes \in [People -> Nat]
    /\ chosen \in [People -> Passwords \cup {NoPassword}]

\* A session opens an account only if the login that issued it read the
\* account after the last change of its status or role, and the user was
\* normal when it was read; a login in flight during a suspension is as dead
\* as the sessions the suspension revoked, also after the account is taken
\* back.  An authentication, although it is two reads, accepts only a session
\* that was acceptable at its first read.
AcceptedIsCurrent ==
    /\ \A t \in Tokens : Acceptable(t) => sessions[t].since = changes[sessions[t].owner]
    /\ \A r \in Requests : request[r].at = "authenticated" =>
            request[r].ok /\ sessions[request[r].token].since = request[r].since

\* An account is bound exactly when a credential or an external identity says
\* whose it is; an address opens one account at most, and a deleted account
\* by none.
BoundMeansKnown ==
    /\ \A p \in People : accounts[p].status # "none" =>
            (accounts[p].binding = "bound"
                <=> credentials[p] # NoCredential \/ \E s \in Subjects : subjects[s] = p)
    /\ \A e \in Emails : Cardinality(Holders(e)) <= 1
    /\ \A p \in People : accounts[p].status = "deleted" => ~credentials[p].active

\* The password of an account is the one its owner chose last.
PasswordStands == \A p \in People : credentials[p].hash.password = chosen[p]

\* Who may act for an account, whatever logins, bindings and suspensions overlap.
SessionsSafe == AcceptedIsCurrent /\ BoundMeansKnown
=============================================================================
