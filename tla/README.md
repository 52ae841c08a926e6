# A TLA+ model of marusia_crm

`marusia_crm` is a Go service between the AiR platform and amoCRM. It keeps the
amoCRM credentials of each user, refreshes their OAuth tokens, and forwards
operations on contacts, leads and notes. This directory holds TLA+ models of its
state and concurrency, the TLC configurations that check them, and theorems
checked by TLAPS. `PROJECT.json` lists the components, the runs, the source lines of
every definition, the hazards and the findings.

## 1. The system

### Components

| Component | State | Operations | Modelled in |
|---|---|---|---|
| Token lifecycle (`crm_service.go` 449-546, 959-1086; `oauth_handlers.go`) | the `crm_configs` row, the tokens in it | `ensureValidToken`, `RefreshAmoCRMToken`, `ExchangeAmoCRMCode` | `TokenLifecycle` |
| Provider registry (`registry.go`, `client.go`) | `instances[user][type]`, one mutex | `GetOrCreateProvider`, `Initialize` with its diagnosis, `RemoveProvider` | `ProviderRegistry`, `LeadFanout`; one entry in `TokenLifecycle` and `ConfigStore` |
| Configuration store (`mysql/repository.go` 64-596) | table `crm_configs`, encrypted columns | get, upsert, update, delete, sanitizing, encryption | `ConfigStore` |
| Settings handlers (`config_handlers.go`, `crm_service.go` 655-800) | options and channels of the row | read-modify-write | `ConfigStore`; against a refresh also `TokenLifecycle` |
| OAuth states (`oauth_state_cache.go`, `repository.go` 807-997, `oauth_handlers.go` 36-152) | cache and table `crm_oauth_states` | save, get, delete, two clean-ups | `OAuthStates` |
| HTTP retry (`http_retry.go`) | the attempt counter, the shared body, the responses | `DoRequestWithRetry` and its callers | `HttpRetry` |
| amoCRM entity operations (`providers/amocrm/contacts.go`, `leads.go`, `notes.go`, ..., their handlers and service methods) | none | sixteen operations on contacts, leads, notes, talks, pipelines, fields | `EntityOperations` |
| Leads for all configurations (`crm_service.go` 233-335) | - | `CreateLeadForUser` | `LeadFanout` |
| Router (`delivery/http/server.go`) | the stack of routes | matching, `extractUserID` | `Router` |
| Application lifecycle (`app.go`, `crm.go`, `db.go`, `main.go`) | contexts, the channels `UsersDB` and `Exit` | start, signal, shutdown | `AppLifecycle` |
| Mock OAuth (`mock_oauth_handler.go`) | - | authorization and refresh with invented tokens | `ConfigStore` (kinds `mockAuth`, `mockRefresh`), routes in `Router` |
| Mappings (`repository.go` 598-805) | table `crm_mappings` | CRUD without caller, except `GetActiveMappings` | `GetActiveMappings` in `LeadFanout` |
| Phone and redirect URL (`phone/normalize.go`, `helpers.go`) | none | pure functions | not modelled |
| Metrics (`metrics/`) | counters | observation only | not modelled |

### Interaction

Fiber walks through its stack of routes in the order of registration and serves every
request in a goroutine of its own; nothing serialises two requests of one user. A
request that reaches amoCRM reads the user's row (`GetCRMConfigByTypeInternal`),
checks and perhaps refreshes the token (a second read, a POST to amoCRM, a write
of the whole row), reads the row again, takes the provider from the registry or
creates one from the row just read, and calls amoCRM through it, with retries. The
provider copies the access token when it is created and never looks at the row again,
so every change of the row has to be followed by `RemoveProvider`. Other handlers
read the row, through a sanitizing read (`GetCRMConfigByType` drops tokens and
`client_secret`) or the internal one, change a field and write the whole row back.
The OAuth flow keeps what the client sent in a state, in memory and in the
database, until amoCRM's redirect comes back with its key. All SQL statements
run under a context that descends from the one the signal cancels.

### What is hard here

* Refresh tokens are single-use: amoCRM spends the old one when it issues the new
  pair, and until the new one is stored a local variable of one goroutine is the
  only copy.
* Every write is a whole-row read-modify-write without transaction or version.
* The registry caches what the row said at some earlier time.
* Deletion and a new save can replace the row between two steps of a request.
* The cache of OAuth states and the repository share one object by pointer; a callback
  that has read the row can put it back into the cache after another one's deletion.
* A request that timed out may still be executed by amoCRM while it is sent again.
* Statements are cancelled at shutdown and have timeouts; a write whose
  confirmation is late may have been applied.

### What makes each component correct

* Token lifecycle: the live refresh token can always be found or its loss is due to a
  named failure; a newer pair is never overwritten by an older one; a call never
  carries an expired token; credentials survive every operation that is not about
  them; every request ends.
* Registry: the cached provider corresponds to the row whenever nobody is in
  between two steps.
* OAuth states: a state is kept until it expires or is used, accepted only in its
  time, gone after its use, finally forgotten, and used with the plain credentials.
* HTTP retry: a bounded time, a request that changes something has its effect at
  most once, responses are closed.
* Router: no protected handler without a user, documented routes answer.
* Application lifecycle: the database is closed only after its users are done; the
  process ends after a signal; requests in progress are completed.
* Configuration store: a write changes what it is about and nothing else, or there is
  a named reason; what was acknowledged is stored; what is filled is encrypted, as long
  as the key is there;
  the cached provider is as old as the row, or there is a named reason.
* Entity operations: success means exactly one execution in amoCRM; failure is never
  reported of a confirmed execution; a 404 has a cause; every operation is answered.
* Leads: "created" is never answered for a lead that failed; all requests of a user
  share one provider; every request ends although one mutex serves all users.

## 2. Modules

| Module | Models |
|---|---|
| `TokenLifecycle` | one user's configuration and all requests on it |
| `TokenRotation` | the abstract promise: one rotation of one single-use pair at a time |
| `HttpRetry` | the requests of one operation to amoCRM, with their retries |
| `EntityOperations` | one operation from the handler to the answer, over `HttpRetry` |
| `RemoteOperation` | the abstract promise of one operation: executed at most once, answered as confirmed |
| `ConfigStore` | the columns of one row and every handler that reads or writes it |
| `ProviderRegistry` | the providers of all configurations behind one mutex |
| `LeadFanout` | leads, operations and settings of several users over `ProviderRegistry` |
| `OAuthStates` | the states of the OAuth flow in cache and database |
| `Router` | the stack of routes and Fiber's dispatch over it |
| `AppLifecycle` | start and stop of the process |
| `MCTokenLifecycle`, `MCOAuthStates`, `MCLeadFanout` | instances for TLC |
| `TokenLifecycleProofs`, `HttpRetryProofs`, `EntityOperationsProofs`, `ConfigStoreProofs`, `LeadFanoutProofs`, `OAuthStatesProofs`, `RouterProofs`, `AppLifecycleProofs` | proofs |

How they fit together:

* `TokenLifecycle` refines `TokenRotation` (an INSTANCE with a refinement mapping).
* `EntityOperations` extends `HttpRetry` and refines it: its steps are those of
  `HttpRetry` and steps before, between and after the requests. Steps `Prepared` and
  `NotPrepared` stand for what `TokenLifecycle` models of an operation, its step
  `Call` for what `EntityOperations` does after that.
* `EntityOperations` refines `RemoteOperation` (an INSTANCE with `Executions`, `Confirmed` and
  `Told` in place of its three variables): attempts, bodies, statuses and words in errors
  are gone, what is left is when the operation is executed, confirmed and answered.
* The bound of `TokenLifecycle` on the duration of a request is what `HttpRetry`
  justifies (`TokenOutlivesCall`).
* `LeadFanout` extends `ProviderRegistry`: requests of several users over one mutex.
  `TokenLifecycle` and `ConfigStore` look at one entry of the registry, whose
  operations are atomic there; that they may take long is the subject of `LeadFanout`.
* `ConfigStore` and `TokenLifecycle` share the row: the first has all its columns and
  handlers, tokens being one setting among others; the second has the age of the
  tokens and amoCRM's view of them, and one option.
* The fault `restart` of `TokenLifecycle` includes the orderly stop, which
  `AppLifecycle` shows to be no better for a request in progress; its kind `callback` is
  what lies between `BeginCallback` and `DeleteEntry` of `OAuthStates` (its action
  `Exchange`). The fairness that `OAuthStates` assumes of its clean-up is
  `CleanupGoesOn` of `AppLifecycle`.

Operators whose comment starts with "Defect" are plausible bugs, in the form of a
definition of the module; no specification uses them. They show that each property
can be violated: `PROJECT.json` pairs each property of a passing run with one.

### TokenLifecycle

State: `row` is the row of `crm_configs` (whether it exists, its id, its token pair,
whether `client_secret` is there, one option), `cached` the registry's instance,
`issued`, `expiry` and `lost` are amoCRM's view (the number of the last pair it
issued, the only one whose refresh token is live; when each access token expires;
the pairs whose answer nobody stored), `clock` is `time.Now()`, and `req[r]` holds
the program counter and the local variables of the request in slot `r`.

A token pair is the number amoCRM gave it; 0 stands for empty tokens. That is all
the properties tell apart: which pair is older, which is live, which has expired.
`access_token`, `refresh_token` and `expires_at` are always written together by the
code, so one number stands for the three.

| Kind of request | Steps | Code |
|---|---|---|
| `operation` | load, check, [refresh_load, refresh_post, refresh_save], reload, provider, call | `ensureValidTokenByType`, `GetOrCreateProvider`, any operation of the service |
| `refresh` | load, refresh_load, refresh_post, refresh_save | `AmoCRMRefreshToken` |
| `settings` | load, write, invalidate | `SetMarusiaSourceFieldID`, `SetDefaultLeadSettings`, `SetChannelSettings` |
| `save` | invalidate, write | `SaveCRMConfig` |
| `active` | load (sanitized), invalidate, write | `SetCRMConfigActive` |
| `callback` | exchange, load (sanitized), invalidate, write | `AmoCRMCallback` after its state was found |
| `delete` | load, invalidate, write | `DeleteCRMConfigByType` |

Failures, each enabled by the constant `Faults`: amoCRM is not reached or refuses
(`network`), amoCRM answers but the answer is lost or unreadable (`lost_answer`), a
read or write of the database fails (`database`), a write is applied but its
confirmation times out (`ambiguous_commit`), the process restarts (`restart`).
amoCRM itself is external: `Issue` says that a refresh spends the pair before, as
does a new authorization (an assumption about amoCRM that makes the callback
stricter than necessary, and no property of a passing run depends on it).

### HttpRetry

State: `pc` and `attempt` are the loop of `DoRequestWithRetry`, `call` counts the
requests of one operation (`CreateContact` sends a second one, `SetMarusiaSource`),
`body` says whether the request has a body and whether an attempt has read it,
`inflight` counts whole copies that amoCRM may still execute although nobody waits
for them, `effects` how often it has executed the request, `open` the responses
not closed, `elapsed` the time since the token was checked.

`req.Clone` shares the body between the attempts. A retry of a POST therefore announces
a body it does not have; net/http and amoCRM refuse it (`TruncatedRefused`). That
is why a timed-out POST is not executed twice (`AtMostOnceEffect`) - and also why
its retries can never succeed. With a body of its own for each attempt, the
property fails (defect `Rewound`).

Two more things the model shows without a run of their own: the wait is linear
(0.5 s, 1 s, 1.5 s) where the comment at `http_retry.go` 61 speaks of an exponential
one, and the response of a 401 is returned together with an error, so that no caller
closes its body (`OnlyUnauthorizedLeaks` states exactly this exception).

### EntityOperations

`Method` describes a method of the provider by what its callers can tell: whether its
request has a body, which statuses it accepts, whether the reply must contain an
entity, and the words of its error after a 404. `Handler` describes an HTTP handler: the
status of a failure, that of success, and the words in an error that make it answer
404. `Operation` pairs them, sixteen times. The steps are the same for all:
`Validate` (400 from the handler), `Prepared` or `NotPrepared` (configuration, token,
provider, checks of the service), the actions of `HttpRetry`, amoCRM's reply
(`Replies`: a confirmation of what was executed may be complete, cut off, empty or
replaced by a gateway's; what was not executed is refused, with any text), and
`Finish`. What amoCRM replies depends on the operation alone (`Creations`), not on what
the method accepts.
`CreateContact` with the tag "MarusiaAI" sends a second request, `SendSource`, whose
failure is only logged.

Errors are recognised by words in their text, of which the two that decide are kept
(`Texts`). Any failure of the first read of the configuration is wrapped as "not
found", so a timeout of the database becomes a 404 for a lead or a talk. And the
error of a refused request quotes amoCRM's body (`leads.go` 95 and 161, `talks.go` 43), as
does that of a refused refresh of the token, so any refusal whose text contains the words
becomes a 404 too. `NotFoundCauses` says that these, a configuration deleted meanwhile and
amoCRM's own 404 are exactly the causes. The error of `GetLead` also quotes the identifier
from the path; an identifier that contains the words is left out.

### ConfigStore

A setting is represented by the request that made it, `Old` or `None`; `Column` says in
which column it is. A row has the set `sealed` of columns that are encrypted. An
access may have the master key or not, anew each time (`KeyStates`), as in the code,
where a missing key is no error: columns are then written as they are and read as
they are. What cannot be parsed counts as empty (`Parsed`), what cannot be sanitized
becomes `{}`. Each kind of request is its sequence of statements:

| Kinds | Statements | Code |
|---|---|---|
| `setField`, `setLead` | read, write, remove | `SetMarusiaSourceFieldID`, `SetDefaultLeadSettings` |
| `setAssist`, `setTags` | look, read, write, remove | `SetChannelSettings`: the handler merges what it looked at, the service reads again |
| `setActive`, `mockRefresh` | look, remove, write | `SetCRMConfigActive`, `MockAmoCRMRefreshToken` |
| `callback`, `mockAuth` | look, remove, upsert | `AmoCRMCallback`, `MockAmoCRMAuth` |
| `save` | remove, upsert | `SaveCRMConfig` |
| `delete` | look, remove, erase | `DeleteCRMConfigByType` |
| `refresh` | look, read, write | `AmoCRMRefreshToken`, `RefreshAmoCRMToken` |
| `use` | check, read, provide | `ensureValidTokenByType` and `GetOrCreateProvider` of any operation |

`look` is the sanitizing read, `check` the first read of an operation, after which it may
remove the provider. The refresh that is then due is a request of kind `refresh`; the
operation goes on after it or without it. `save` may bring tokens of its own (`Sent`).
Faults: a statement fails (`database`), or it succeeds and its confirmation times out
(`confirmation`). `Panic` is `SetCRMConfigActive` without `is_active` (`config_handlers.go`
619): nothing recovers it, and the process ends with the cache and all requests that
have begun. `overtaken`, `blind` and `provider.cause` are history variables that name the
reasons the properties allow. `LossHasCause`, `AcknowledgedStored` and
`StaleSourceHasCause` therefore do not say that an overlap, a key missing at a read, a row
deleted in between or an unconfirmed write does no harm: it does, and the properties
say that nothing else does.

What the model shows without a run of its own: the repository's `README.md` 17 promises
that all of a user's data is encrypted with the `MasterKey`, while a write without the
key stores plain text and reports success (`encryptCRMConfigFields`). No property of a
run is about it; the theorem `Sealed` states what is left of the promise, that as long as
every access has the key everything is sealed. `MockAmoCRMAuth` looks for the
`client_secret` in a sanitized configuration, so it answers 400 to everybody; and an
acknowledged setting may be nowhere, since `UPDATE ... WHERE id` of a deleted row is
no error (the request is then `overtaken`).

### ProviderRegistry and LeadFanout

`instances[c]` is the number of the cached provider of configuration `c`. A look-up that
finds one is one step; one that does not takes the mutex in `BeginInitialize` and
releases it in `EndInitialize` or `InitializeFails`, after the diagnosis of the network,
so that everybody else waits. `LeadFanout` lets three kinds of request use it: a lead
(`CreateLeadForUser`, over any sequence of mappings), an operation, a settings
handler. Configurations are activated, deactivated and deleted meanwhile
(`ChangeConfig`). `CreateLead` of amoCRM's provider is not implemented and always
returns an error, so the only leads that are answered "created" are those of which
every mapping was skipped (`CreatedMeansSkipped`).

### OAuthStates

State: `obj[r]` is the `models.OAuthState` object that request `r` has created, by
`AmoCRMAuth` or by reading the database; `cache[k]` names the request whose object
the cache points to, so that an encryption in place is seen through the cache, as
in the code; `row[k]` is the row, `held[c]` the object a callback goes on with. Of an
object only its authorization, its expiry and whether its fields are encrypted
matter. `key` may be shared by several authorizations, since the key is made of user
and second or chosen by the client. `written` is a history variable: the requests
whose INSERT or DELETE has succeeded.

Actions: `BeginAuth`, `Encrypt`, `SaveRow` (`AmoCRMAuth`, `SaveOAuthState`);
`BeginCallback`, `ReadRow`, `CacheRow`, `Exchange`, `DeleteEntry`, `DeleteRow`
(`AmoCRMCallback` with its deferred deletion, `GetOAuthState`, `DeleteOAuthState`);
`CleanupCache`, `CleanupRows`, `Restart`, `Tick`; and a failing variant of each
access to the database and of each use of the master key.

A state is compared with the clock in two ways: `ReadRow` refuses a row at the
moment it expires, the cache only after it. `AcceptedInTime` holds for both.

### Router

`Stack` is the sequence of middlewares and routes in the order in which
`Server.Handler` registers them, `Skip`, `Identify`, `Reject`, `Answer` and `NotFound`
are Fiber's walk along it. Paths are sequences of segments; a parameter stands for
any one segment, and `Values` is what a client may put there: an ordinary value, or a
word that is a segment of another route. CORS and the metrics middleware pass every request on and are
left out, as are Fiber's answers to OPTIONS and HEAD.

### AppLifecycle

`at` says where main and the four goroutines of `App.Run` are; `usersDB` and `exit` are
the two channels (closed or not), `cancelled` the one context that matters: those of
App, DB and CRM descend from it, so `CRM.Shutdown` cancels nothing that is not
cancelled yet. Requests are reduced to read, call amoCRM, write. `comdb.DB` (its
context is the child of the one it is given, its `Close` returns) and
`logger.Fatal` (it ends the process) are external.

## 3. Runs

| Run | Instance | Shows |
|---|---|---|
| `token_refresh` | two requests; operation, refresh, delete; all failures; 3 pairs; clock to 4; `FairSpec` | `TypeOK`, `RefreshChain`, `PairsNeverGoBack`, the refinement `RotationSpec`, and `RequestsEnd` |
| `token_sequential` | one request at a time; every kind but `refresh`; all failures but `ambiguous_commit`; clock to 7 | `CacheCoherent`, `NoExpiredCall` |
| `token_stale_provider` | two requests; operation and refresh | `NoExpiredCall` fails |
| `token_settings_race` | two requests; settings and refresh | `SettingsKeepTokens` fails |
| `token_sanitized` | active and callback | `SecretKept` fails |
| `entity_operations` | all sixteen operations; 3 retries, 30 s per attempt, two requests; `FairOperationSpec` | the four invariants of `HttpRetry`, `OperationTypeOK`, `SuccessIsReal`, `FailureIsHonest`, `SourceIsExtra`, `NotFoundCauses`, the refinement `RemoteSpec`, and `OperationEnds` |
| `config_store` | two requests of all twelve kinds, key and no key, both faults, the panic | `TypeOK`, `StaleSourceHasCause`, `LossHasCause`, `AcknowledgedStored` |
| `lead_fanout` | two requests of three kinds, two configurations, up to two mappings; `FairSpec` | `TypeOK`, `SharedProvider`, `CreatedMeansSkipped`, `EveryRequestEnds` |
| `oauth_states` | two authorizations, two callbacks, one key, all failures; `FairSpec` | `TypeOK`, `SavedUntilExpiry`, `DeletedIsGone`, `AcceptedInTime`, `StatesForgotten` |
| `oauth_cipher` | one of each, master key available, no failure | `ExchangeSendsPlain` fails |
| `router` | every method with the path of every route, an ordinary value or a word of another route in the place of each parameter, and each kind of header | `TypeOK`, `HandlersHaveUser`, `LegacyLikeNew`, `DocumentedUnlessShadowed` |
| `app_lifecycle` | two requests, all failures; `FairSpec` | `TypeOK`, `StopsInOrder`, `SignalEndsProcess`, `CleanupGoesOn` |

Bounds of the token runs. Thresholds are scaled: a tick stands for five minutes,
`RefreshThreshold` = 1 (300 s), `WarningThreshold` = 2 (600 s), `TokenTTL` = 3, so each
of the four regions (fresh, near expiry, to be refreshed, expired) is reached.
`MaxDuration` = 1 lets one tick pass during a request: `HttpRetry` shows that a request
takes less than the refresh threshold. Three pairs are enough for a refresh that
starts from each of: the pair of the user's first authorization, a refreshed pair,
and a pair lost to a failure. A deleted and saved row changes its id; ids are
bounded by `MaxRowId`. Two requests suffice for the races, each of which has
one victim and one other request; the theorems have no such bound.

Bounds of the others. In `entity_operations` a unit of time is five seconds and every
duration is rounded up, so the run takes a longer time than the code can: 30 s per
attempt are 6, the waits of at most 5 s are 1, the diagnosis of the network before the
request (5 s and 10 s) is 3, the threshold of 300 s is 60. The theorem `TokenOutlives`
covers the exact values too (in half seconds 30 + 2 * 270 < 600). Waiting for the mutex
behind the diagnosis of other accounts is not in that sum. In `config_store` two requests are what
every loss needs, one that is overtaken and one that overtakes; the row may be there
or not and be encrypted or not at the start. In `lead_fanout` two configurations tell
one user's provider from another's, two mappings a first failure from a last one, and
one change from outside is enough to change a configuration between the two reads
of a request. In `oauth_states` one key shared by all requests is the case with most
interference, two callbacks can overlap in every way, `MaxTime` lets states expire
during and after the callbacks, and `LastAuth` leaves time for them to be forgotten.
`router` takes the path of each route with each of three values for each parameter: one
that is no word of a route, and the two words that another route has where this one has a
parameter; the theorems are about any `Values`. In `app_lifecycle` the requests are
independent of each other. The theorems of section 4 have none of these bounds.

Deadlock is checked in the token runs. The others stop where the system does: when the
operation is answered (`entity_operations`), when all requests are answered
(`config_store`, `lead_fanout`; in `oauth_states` also the bounded clock stands), when
the request is answered (`router`), when the process has ended (`app_lifecycle`).

The four runs that fail are disagreements between the code and its own comments or
README, quoted under "findings" in `PROJECT.json`:

* writers of the row other than the refresher damage the credentials: settings
  write back tokens of before a concurrent refresh, `SetCRMConfigActive` and the
  callback write back sanitized credentials;
* the registry serves a provider older than the row: `RemoveProvider` comes before the
  refresh (`crm_service.go` 505), and another operation caches the old token again in
  between. That is the trace TLC prints; a manual refresh, which never removes the
  provider (`oauth_handlers.go` 308), gets there with `Requests <- OneRequest` too;
* the callback sends encrypted credentials to amoCRM, since cache and repository
  share the object.

Two more divergences are described by properties that hold. The repository's
`README.md` 82 lists the OAuth callback as public, but a callback without `X-User-ID` is
refused, since the middleware of the legacy group (`server.go` 109) stands before it
(178); `GetContact` (165) hides the two searches for contacts (169, 171); and a note on
a lead whose number reads "ai-dialog" goes to `CreateAIDialogLead`.
`DocumentedUnlessShadowed` names exactly these exceptions. And `README.md` 55 speaks of a
graceful stop, while main returns as soon as the database is closed (`crm.go` 95,
`db.go` 44): `StopsInOrder` says what the stop does guarantee, and `AppLifecycle` lets
requests in progress end with the process.

### Fairness

Clients are never assumed to send requests, signals to come, nor failures to happen
or to stop. What is assumed is that Go schedules every goroutine that can run, and
that what it waits for ends.

* `TokenLifecycle`: weak fairness of `Step(r)` for each request. The service's
  `http.Client` has a timeout of 30 s, each SQL statement a context with a timeout,
  and the registry's mutex is held by one goroutine that waits only for a dial with a
  timeout.
* `OAuthStates`: the same for requests that have begun; the clock advances and the
  tickers of the two clean-ups fire. A clean-up that fails is one that has not
  happened yet; that it is tried again is `CleanupGoesOn`.
* `AppLifecycle`: weak fairness of main and of each goroutine.
* `EntityOperations`: weak fairness of `Work`, the goroutine of the request. amoCRM's late
  executions (`Late`) need not happen.
* `LeadFanout`: strong fairness of `Step(r)`. The mutex may be free and taken again any
  number of times while a request waits for it; that the request gets it in the end is
  Go's starvation mode, in which `sync.Mutex` is handed to a goroutine that has waited
  for more than a millisecond. Who holds it goes on, because the look-up of the name
  is bounded by 5 s and the dial by 10 s.

## 4. Proofs

All theorems hold for every value of the constants that satisfies the named
assumption of their module.

`TokenLifecycleProofs`, under `ConstantsAssumption` (thresholds ordered, bounds
natural numbers):

* `TypeCorrect`: `Spec => []TypeOK`. One case per action of `Step`, with lemmas for
  the helpers that update one request.
* `RefreshChainHolds`: if only operations, refreshes and deletions are sent, the live
  refresh token is in the row, held by a request, or in `lost`. `RefreshChain` is not
  inductive: a step that stores a pair must know that the pair it holds is the live
  one, and a step that spends the live token must know that nobody else holds a newer
  pair. `RefreshInv` adds `Shape` (only a request at `refresh_save` holds a pair),
  `PairBounds` (nobody knows a pair newer than the last one issued, and what is held
  is the last one) and `SoleHolder` (while a pair is held, neither the row nor any
  configuration read from it has the live token, so no second refresh can succeed).
  Actions that touch neither the row nor a held pair go through one lemma,
  `QuietStep`; the others have a lemma each.
* `PairsOnlyGrow`: from the same invariant, the pair in the row only grows.

* `RotationRefined`: for the same kinds, `Spec => RotationSpec`. The mapping takes the pair
  in the row for the stored one and `issued` for the pending one while somebody holds
  it. `RotationInv` adds to `RefreshInv` that a row has a pair, and that whoever
  knows the live pair knows it from the row as it stands; so an exchange at amoCRM
  starts from the stored pair (`Rotate`, `Waste`). A save is `Commit`, or `Lose` if the row
  is gone; failures are `Lose`; everything else is quiet and maps to a stutter.
* `CacheStaysCoherent`, `CallsInTime`: if there is one request at a time (`OneByOne`), none
  of it a refresh by hand, and no write without confirmation, the cached provider agrees
  with the row whenever nobody is under way, and no call is sent with an expired
  token as long as a request takes no longer than the refresh threshold.
  `SequentialInv` says at each step what the request knows of the row, when the
  registry is empty, and that the token it goes on with outlives the rest of its time.

* `RequestsWindDown`: a request of any kind has at most nine steps (`StepsLeft`); each of
  its own makes them fewer, and no step of anybody else, a restart included, makes them
  more.

The hypotheses are needed: `token_settings_race` is the counterexample to
`RefreshChainHolds`, `PairsOnlyGrow` and `RotationRefined` without the one on the kinds,
`token_stale_provider` to `CallsInTime`. Three more theorems say where the findings end, so
that a repair can be judged:

* `SecretStays`: without `active` and `callback` (`SanitizingKinds`), the two that write
  back a sanitized row, no number of concurrent requests and no failure erases the
  `client_secret`. The invariant, `WritesSecret`, says of each request about to write
  that its copy has one.
* `SettingsKeepInTurn`: with one request at a time (`InTurn`), of any kind and with every
  failure, settings leave the stored pair alone, because the copy they write back is still
  the row (`KnowsRow`).
* `ChainInTurn`: with one request at a time, settings and new authorizations keep the refresh
  chain as well (`HoldsLive`: who has received a pair and not yet stored it has the live
  one; `ChainLinked`). `active` and `save` stay excluded: they drop the pair by themselves,
  without any race.

`HttpRetryProofs`, under `RetryAssumption` (natural numbers, and the time of all calls
of an operation, each at most `Budget`, is below the threshold):

* `TypeCorrect`.
* `AtMostOnce`: the invariant is `OneCopy` - a body nobody has read has left no
  trace, one that was read has left at most one, under way or executed.
* `TokenOutlives`: `WithinBudget` bounds the time spent at each place of the loop by
  what the attempts and calls so far may have taken. It needs that products are
  monotone, a lemma of its own.
* `ResponsesClosed`: an invariant that counts the open responses at each place of the
  loop.

`EntityOperationsProofs`, under the same assumption:

* `Simulation`: `OperationSpec => Spec`, so `RequestsSafe`: what is proved of `HttpRetry`
  holds of every operation.
* `RemoteRefined`: `OperationSpec => RemoteSpec`. Each action has a lemma that maps it to
  a step of `RemoteOperation` or to a stutter (`Quiet`). What they need is
  that the operation is executed at most once, and once if it was confirmed (`Counted`,
  from `OneCopy`), and that a success was confirmed (`Truthful`).
* `EveryStepCounts`: an operation ends after at most `4 * MaxRetries + 9` steps of its
  goroutine. A retry uses up an attempt, the second request of `CreateContact` the one
  there is, and late executions take no step away.
* `NotFoundCaused`: an equivalence, so each cause is one and there is no other.
  It comes from the same invariant as the next ones, which keeps what the error of a
  refusal quotes.
* `SuccessReal`, `FailureHonest`, `SourceExtra`, `OperationTypeCorrect`:
  from one invariant. `OneCopy` gives "at most one execution"; that a reply is a
  confirmation exactly if amoCRM has executed the request (`RepliesTruly`) gives "at
  least one". It has to be kept through the retries, after which the reply may
  belong to an earlier copy, and through the second request of `CreateContact`,
  which starts a new count (`Stages`).

`ConfigStoreProofs`, under `StoreAssumption` (the kinds exist, `Old` and `None` are two
values and not requests), for any number of requests:

* `TypeCorrect`.
* `Sealed`: with `KeyStates = {TRUE}` every filled column is encrypted, whatever fails and
  however the requests overlap. Without that hypothesis it is false.
* `LossExplained`, `AcknowledgedHolds`, `StaleSource`: the invariant relates the copy of
  each request to the row. As long as the request has not been overtaken, each setting
  of its copy is that of the row, or one it is about, or one it could not parse
  (`Current`); `HasCopy` and `Statements` say when it has a copy and which statement
  may come next. A commit of one request makes all others with a copy `overtaken`,
  so that nothing is claimed of them any more. `AcknowledgedHolds` also needs that
  only a request that has ended has been answered (`AnsweredAtEnd`), since a panic ends
  requests without an answer.

`LeadFanoutProofs`, under `RegistryAssumption` and `FanoutAssumption`, for any number of
users, configurations and mappings:

* `TypeCorrect`; `OneProvider` (the invariant adds that what a request got since the
  last removal is what is cached, and that who initializes holds the mutex);
  `CreatedOnlyIfSkipped` (no lead ever succeeds, and a failed mapping is remembered).
* `MutexComesBack`: the mutex of the registry is held exactly by who initializes a
  provider. Nobody keeps it behind, whichever way `Initialize` ends.
* `RequestsWindDown`: a lead with n mappings has at most `1 + 8 * n` steps, any other request at
  most eight; its own steps make them fewer, others change nothing about them.

`RouterProofs`, for any set of headers and any value in the place of a parameter:

* `UserKnown`: behind the fifth entry of the stack, the middleware of the legacy group,
  which matches every path, everybody has a user; the entries before it are the
  public ones and the middleware of the new group. `StackFacts` establishes the types
  of all entries and the first five of them. `TypeCorrect` likewise.
* `LegacyKept`, `DocumentedAnswer`: for any value of a parameter, words of other routes
  included. `StackSections` cuts the stack into the public entries, the new group, the
  legacy group and the rest, `RouteTable` lists the routes of a group, and
  `FittingMeans` says which method, length and words a request needs to fit each.
  A path is one of three kinds, `ApiPath`, `LegacyPath` or `Outside`, and each part of
  the stack fits one of them only (the three `OnStack` lemmas). So what answers in a
  group depends on the path behind the prefix alone (`GroupAnswers`), which is
  `LegacyKept`, and `GroupHidden` finds for each route the first that fits. The
  invariant adds to `UserKnown` that nothing before the current entry fits (`Passed`),
  that what answered is the first that fits (`Answered`) and why a request was
  refused (`Refused`).

`OAuthStatesProofs`, under `OAuthAssumption` (authorizations and callbacks are
different, `None` is none of the values, the times are natural numbers):

* `TypeCorrect`, and `AcceptanceInTime`: from `Inv` - what each request has at each of its places, and
  `Provenance`: every copy of a state, in a row or in an object, goes back to
  the object of its authorization and has that object's expiry.
* `SavedStays`: with `KeyDiscipline` (a request has a key once it has begun, a callback
  only the key of an answered authorization, and a request writes in its last step)
  the row of an authorization alone on its key is touched by nobody else.
* `DeletedForGood`: with `DeletionLasts` - after a callback's DELETE the row stays
  empty, and whatever is still in the cache is there because some callback that
  has not yet deleted its entry put it there.
* `PlainFromDatabase`, `PlainWithoutKey`: the limits of the finding `oauth_cipher`. With a
  master key, a callback that exchanges what it has read from the database sends the
  plain `client_secret` (`ReadPlain`); without one, every callback does, since nothing is
  encrypted (`AllPlain`). Only the object of an authorization, found in the cache, is
  sent encrypted.

`AppLifecycleProofs`, without assumption:

* `TypeCorrect`, and `StopOrder`: the invariant follows the chain signal, App, `UsersDB`, database,
  `Exit`, main, one implication for each link.
* `NobodyStuck`: with the converse implications (`ChannelsClosed`), from the signal to the end
  of the process one of main, App's goroutine and DB's goroutine can go on; none
  waits for a channel that nobody will close.
* `EndComesNearer`: these three have nine steps together, and nothing puts them back.

`RequestsWindDown`, `EveryStepCounts`, `NobodyStuck` and `EndComesNearer` are the safety half of
liveness, for every value of the constants: a number that each step of a process makes
smaller and nobody makes larger, and somebody who can take the next. That the steps are
taken is the fairness of section 3, and that an action is enabled is about ENABLED;
both are out of the prover's reach and stay with TLC.

Only model-checked: liveness (`RequestsEnd`, `OperationEnds`, `EveryRequestEnds`,
`StatesForgotten`, `SignalEndsProcess`, `CleanupGoesOn`), which TLAPS does not handle. Every
other property of a passing run is stated by a theorem.

## 5. Not modelled

* Metrics and logging have no effect on the state.
* Normalising phone numbers and checking redirect URLs are pure functions on strings
  with tests of their own; a model would repeat them character by character. That a
  number may be refused is in `EntityOperations` (`request.usable`).
* The JSON of the amoCRM API (names, tags, custom fields) is data only.
* Creating, updating and deleting mappings, and `CreateCRMConfig`, have no caller.
* Handlers that only read the row (`GetCRMConfigs`, `GetChannelSettings`,
  `TestConnectionByType`) change nothing and are left out of `ConfigStore`; the kind `use`
  has the provider that `TestConnectionByType` may create.
* The details of amoCRM, Fiber, MySQL, `comdb` and the logger, as far as the code under
  `src/` does not use them; what it uses is marked external.

## 6. Plan

1. `ConfigStore` with amoCRM's view of the tokens, so that `token_settings_race` and
   `token_sanitized` are runs of one module.
2. `OAuthStates` with the exchange and the write of `TokenLifecycle` behind it: which
   authorization the tokens in the row belong to when two callbacks of one user
   overlap.
