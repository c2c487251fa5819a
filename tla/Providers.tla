----------------------------- MODULE Providers ------------------------------
(***************************************************************************)
(* Configurations and the generation providers they lead to.  The gateway  *)
(* freezes for every new task the provider and account it will be sent to; *)
(* the worker, another process with a configuration of its own, sends it   *)
(* there and reads the deliveries the gateway verified and stored.         *)
(* Operators restart either with another configuration at any time, and    *)
(* the provider changes the secret it signs its deliveries with.           *)
(***************************************************************************)
EXTENDS Integers, FiniteSets

CONSTANTS
    ProviderConfigs,  \* configurations the operators try
    Tasks,            \* tasks to generate, one step each
    Tenants,          \* tenants of the B2B platform
    LongKeys,         \* keys of at least 32 characters; other keys are shorter
    JobResponses,     \* answers of the platform to a submission, whoever's job they tell of
    MaxStarts,        \* bound on the processes started
    MaxRotations,     \* bound on the secrets the platform changes
    EmptyKey, Absent  \* an empty key; a part the configuration leaves out

VARIABLES
    running,        \* the configuration of each process, or Absent
    route,          \* provider and account frozen for each step
    jobs,           \* external: the jobs of each step, where they are held
    answer,         \* what each step's submission was answered
    sender,         \* external: the secret the platform signs a tenant's deliveries with
    inbox,          \* the verified delivery stored for each step
    applied,        \* the conclusion applied to each step
    providersCount  \* bounds: processes started, secrets changed

providersVars == <<running, route, jobs, answer, sender, inbox, applied, providersCount>>
-----------------------------------------------------------------------------
Roles == {"gateway", "worker"}
LocalProvider == "local_execution_v2"
B2B == "polarstar_b2b_v2"

EffectiveProvider(c) == IF c.provider = "" THEN LocalProvider ELSE c.provider

\* The local service: two keys of their own, long enough, and two addresses.
validLocal(l) ==
    /\ {l.requestKey, l.callbackKey} \subseteq LongKeys
    /\ l.requestKey # l.callbackKey
    /\ l.addresses = "valid" /\ l.apiKey # EmptyKey

\* The platform's account.  Only the local environment may do without
\* deliveries, and then without anything that belongs to them.
validB2B(b, environment) ==
    /\ b.identity = "safe" /\ b.apiKey # EmptyKey
    /\ b.base = "public" /\ b.hosts = "public"
    /\ b.limits = "within"
    /\ CASE b.mode = "lookup_only" -> /\ environment = "local"
                                      /\ b.origin = "none" /\ b.secret = EmptyKey /\ b.previous = EmptyKey
         [] b.mode = "webhook" -> /\ b.secret \in LongKeys
                                  /\ b.previous \in LongKeys \cup {EmptyKey}
                                  /\ b.previous # b.secret
                                  /\ b.apiKey \notin {b.secret, b.previous}
                                  /\ b.origin \in {"public", "reserved"}
         [] OTHER -> FALSE

LocalKeys(c) == IF c.local = Absent THEN {} ELSE {c.local.requestKey, c.local.callbackKey, c.local.apiKey}
B2BKeys(c) == IF c.b2b = Absent THEN {} ELSE {c.b2b.apiKey, c.b2b.secret, c.b2b.previous}

ValidateGeneration(c) ==
    /\ c.environment \in {"local", "production"}
    /\ EffectiveProvider(c) \in {LocalProvider, B2B}
    /\ c.environment = "production" => EffectiveProvider(c) # LocalProvider
    /\ c.local # Absent => validLocal(c.local)
    /\ c.b2b # Absent => validB2B(c.b2b, c.environment)
    /\ LocalKeys(c) \cap B2BKeys(c) \subseteq {EmptyKey}

\* The registry has a client for every provider the configuration describes,
\* the selected one among them.  The adapter refuses callback addresses on
\* reserved domains, which the validation lets pass.
NewRegistry(c) ==
    /\ EffectiveProvider(c) = LocalProvider => c.local # Absent
    /\ EffectiveProvider(c) = B2B => c.b2b # Absent
    /\ c.b2b # Absent => c.b2b.origin # "reserved"

\* The client's own check of its options is weaker than the validation's.
NewClient(b) == b.base \in {"public", "private"} /\ b.apiKey # EmptyKey /\ b.identity = "safe" /\ b.limits = "within"

Startable(c) == ValidateGeneration(c) /\ NewRegistry(c) /\ (c.b2b # Absent => NewClient(c.b2b))

On(role) == running[role] # Absent
AccountOf(c, provider) == IF provider = LocalProvider THEN "local-default" ELSE c.b2b.account
Configured(c, provider) == IF provider = LocalProvider THEN c.local # Absent ELSE c.b2b # Absent

NoRoute == [provider |-> "none", account |-> "none"]
ProvidersTypeOK ==
    /\ running \in [Roles -> ProviderConfigs \cup {Absent}]
    /\ \A role \in Roles : On(role) => Startable(running[role])
    /\ \A s \in Tasks : route[s] # NoRoute => route[s].provider \in {LocalProvider, B2B}
    /\ \A s \in Tasks : Cardinality(jobs[s]) <= 1
    /\ sender \in [Tenants -> LongKeys]
    /\ answer \in [Tasks -> {"none", "not sent", "unknown", "bound"}]
-----------------------------------------------------------------------------
ProvidersInit ==
    /\ running = [role \in Roles |-> Absent]
    /\ route = [s \in Tasks |-> NoRoute]
    /\ jobs = [s \in Tasks |-> {}]
    /\ answer = [s \in Tasks |-> "none"]
    /\ sender \in {f \in [Tenants -> LongKeys] : \A t, u \in Tenants : f[t] = f[u]}
    /\ inbox = [s \in Tasks |-> Absent]
    /\ applied = [s \in Tasks |-> "none"]
    /\ providersCount = [starts |-> 0, rotations |-> 0]
-----------------------------------------------------------------------------
\* Operators start a process, in place of the one that runs, if it will start.
Start(role, c) ==
    /\ providersCount.starts < MaxStarts /\ Startable(c)
    /\ running' = [running EXCEPT ![role] = c]
    /\ providersCount' = [providersCount EXCEPT !.starts = @ + 1]
    /\ UNCHANGED <<route, jobs, answer, sender, inbox, applied>>

Stop(role) ==
    /\ On(role)
    /\ running' = [running EXCEPT ![role] = Absent]
    /\ UNCHANGED <<route, jobs, answer, sender, inbox, applied, providersCount>>

\* A new task takes the provider the gateway selects now and keeps it.
AdmitTask(s) ==
    /\ On("gateway") /\ route[s] = NoRoute
    /\ LET c == running["gateway"]
           provider == EffectiveProvider(c)
       IN  route' = [route EXCEPT ![s] = [provider |-> provider, account |-> AccountOf(c, provider)]]
    /\ UNCHANGED <<running, jobs, answer, sender, inbox, applied, providersCount>>

\* Mistaken variant: the worker sends by its own selector.
BySelector(r, c) == [provider |-> EffectiveProvider(c), account |-> AccountOf(c, EffectiveProvider(c))]

\* The worker's handle for a frozen route: none unless that very provider is
\* configured and, when it is the platform, under that very account.
ForRoute(r, c) ==
    IF Configured(c, r.provider) /\ AccountOf(c, r.provider) = r.account THEN r ELSE NoRoute

\* A job as the platform holds it.  Its tenant is the one of the credentials.
JobOf(s, c, handle) ==
    [provider |-> handle.provider, account |-> handle.account, step |-> s,
     tenant |-> IF handle.provider = B2B THEN c.b2b.tenant ELSE "none",
     webhook |-> handle.provider = B2B /\ c.b2b.mode = "webhook", status |-> "queued"]

\* An answer that tells of this step's job under these credentials.
Tells(response, s, c) == response.status = "created" /\ response.tenant = c.b2b.tenant /\ response.step = s

\* What of an answer can be believed: the expected status, one complete
\* document, and in it this tenant's job for this very step.
Believed(response, s, c) == Tells(response, s, c) /\ response.wellFormed

\* One submission.  Before anything is sent every failure is "not sent"; once
\* bytes may have left, whatever cannot be believed leaves the outcome unknown,
\* whether the platform took the job or not.
SubmitTask(s) ==
    /\ On("worker") /\ route[s] # NoRoute /\ answer[s] = "none"
    /\ LET c == running["worker"]
           handle == ForRoute(route[s], c)
       IN  /\ handle # NoRoute
           /\ \/ /\ answer' = [answer EXCEPT ![s] = "not sent"]
                 /\ UNCHANGED jobs
              \/ /\ answer' = [answer EXCEPT ![s] = "unknown"]
                 /\ jobs' \in {jobs, [jobs EXCEPT ![s] = {JobOf(s, c, handle)}]}
              \/ /\ handle.provider = LocalProvider
                 /\ answer' = [answer EXCEPT ![s] = "bound"]
                 /\ jobs' = [jobs EXCEPT ![s] = {JobOf(s, c, handle)}]
              \/ /\ handle.provider = B2B
                 /\ \E response \in JobResponses, taken \in BOOLEAN :
                       /\ Tells(response, s, c) => taken
                       /\ jobs' = IF taken THEN [jobs EXCEPT ![s] = {JobOf(s, c, handle)}] ELSE jobs
                       /\ answer' = [answer EXCEPT ![s] = IF Believed(response, s, c) THEN "bound" ELSE "unknown"]
    /\ UNCHANGED <<running, route, sender, inbox, applied, providersCount>>
-----------------------------------------------------------------------------
RotateSecret(t, key) ==
    /\ providersCount.rotations < MaxRotations /\ sender[t] # key
    /\ sender' = [sender EXCEPT ![t] = key]
    /\ providersCount' = [providersCount EXCEPT !.rotations = @ + 1]
    /\ UNCHANGED <<running, route, jobs, answer, inbox, applied>>

Concluded(status) == status \in {"completed", "failed", "cancelled"}
Advance(s) ==
    /\ \E j \in jobs[s] :
          /\ ~Concluded(j.status)
          /\ \E status \in {"processing", "completed", "failed"} \ {j.status} :
                jobs' = [jobs EXCEPT ![s] = {[j EXCEPT !.status = status]}]
    /\ UNCHANGED <<running, route, answer, sender, inbox, applied, providersCount>>

\* A delivery is verified against the secrets of the gateway's configuration,
\* the one before among them, and parsed for its tenant; the account stored
\* with it is the configuration's, never the delivery's.
DeliveryVerified(j, c) ==
    /\ c.b2b # Absent /\ c.b2b.mode = "webhook"
    /\ sender[j.tenant] \in {c.b2b.secret, c.b2b.previous}
    /\ j.tenant = c.b2b.tenant

DeliverWebhook(s) ==
    /\ On("gateway") /\ inbox[s] = Absent
    /\ \E j \in jobs[s] :
          /\ j.webhook /\ Concluded(j.status) /\ DeliveryVerified(j, running["gateway"])
          /\ inbox' = [inbox EXCEPT ![s] =
                [tenant |-> j.tenant, account |-> running["gateway"].b2b.account, status |-> j.status]]
    /\ UNCHANGED <<running, route, jobs, answer, sender, applied, providersCount>>

\* The worker parses the stored bytes again, for the tenant of its own
\* configuration, and compares record, frozen request and conclusion.
ParsedFor(s, c) == inbox[s].tenant = c.b2b.tenant /\ inbox[s].account = route[s].account

Apply(s, status) ==
    /\ applied[s] = "none"
    /\ applied' = [applied EXCEPT ![s] = status]
    /\ UNCHANGED <<running, route, jobs, answer, sender, inbox, providersCount>>

Consume(s) ==
    /\ On("worker") /\ running["worker"].b2b # Absent
    /\ inbox[s] # Absent /\ ParsedFor(s, running["worker"])
    /\ Apply(s, inbox[s].status)

Terminal(status) == status \in {"completed", "failed", "cancelled"}

\* Lookups go by the frozen route too; only a terminal status concludes.
LookUpJob(s) ==
    /\ On("worker") /\ answer[s] \in {"unknown", "bound"}
    /\ LET c == running["worker"]
       IN  /\ ForRoute(route[s], c) # NoRoute /\ route[s].provider = B2B
           /\ \E j \in jobs[s] : j.tenant = c.b2b.tenant /\ Terminal(j.status) /\ Apply(s, j.status)
-----------------------------------------------------------------------------
ProvidersNext ==
    \/ \E role \in Roles : Stop(role) \/ \E c \in ProviderConfigs : Start(role, c)
    \/ \E s \in Tasks : AdmitTask(s) \/ SubmitTask(s) \/ Advance(s) \/ DeliverWebhook(s) \/ Consume(s) \/ LookUpJob(s)
    \/ \E t \in Tenants, key \in LongKeys : RotateSecret(t, key)

ProvidersSpec == ProvidersInit /\ [][ProvidersNext]_providersVars
-----------------------------------------------------------------------------
(***************************************************************************)
(* "Switching the selector cannot redirect an already accepted task to     *)
(* another protocol" (provider_registry.go): whatever both processes are   *)
(* restarted with, a job is where its step's route, frozen at admission,   *)
(* says, under that account.                                               *)
(***************************************************************************)
RouteKept ==
    \A s \in Tasks : \A j \in jobs[s] : j.provider = route[s].provider /\ j.account = route[s].account

(***************************************************************************)
(* What the worker believes of a submission is so: a step said not to be   *)
(* sent has no job, and one said to be bound has its own.                  *)
(***************************************************************************)
SubmissionsTruthful ==
    \A s \in Tasks : /\ answer[s] = "not sent" => jobs[s] = {}
                     /\ answer[s] = "bound" => \E j \in jobs[s] : j.step = s

(***************************************************************************)
(* However deliveries, lookups, restarts and re-pointed accounts fall, the *)
(* conclusion applied to a step is how its job, at the account the step is *)
(* frozen to, ended in the end.                                            *)
(***************************************************************************)
ConclusionsStand ==
    \A s \in Tasks : applied[s] # "none" =>
        \E j \in jobs[s] : j.status = applied[s] /\ j.account = route[s].account

(***************************************************************************)
(* What holds between the two processes whatever they are restarted with.  *)
(***************************************************************************)
ProvidersSafe == RouteKept /\ SubmissionsTruthful /\ ConclusionsStand
=============================================================================
