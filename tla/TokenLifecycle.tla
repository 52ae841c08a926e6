---------------------------- MODULE TokenLifecycle ----------------------------
(***************************************************************************)
(* One user's amoCRM configuration: the row of crm_configs that holds the  *)
(* OAuth token pair, the provider instance the registry caches for it, and *)
(* the requests that read, refresh, overwrite and delete it concurrently.  *)
(*                                                                         *)
(* Every HTTP request runs in a goroutine of its own and takes no lock     *)
(* over the row, so each database access, each registry call and each      *)
(* answer of amoCRM is an action of its own.                               *)
(***************************************************************************)
EXTENDS Naturals

CONSTANTS
    Requests,          (* the slots in which requests are served          *)
    Kinds,             (* the kinds of request the clients send           *)
    Faults,            (* the failures that may happen                    *)
    Fields,            (* values of options.marusia_source_field_id       *)
    RefreshThreshold,  (* refreshThreshold, in clock ticks                *)
    WarningThreshold,  (* warningThreshold, in clock ticks                *)
    TokenTTL,          (* expires_in of a pair amoCRM issues              *)
    MaxDuration,       (* bound: clock ticks one request may take         *)
    MaxClock,          (* bound: last value of the clock                  *)
    MaxPairs,          (* bound: token pairs amoCRM issues                *)
    MaxRowId           (* bound: id of the last row a request may delete  *)

AllKinds == {"operation", "refresh", "settings", "save", "active",
             "callback", "delete"}

AllFaults == {"network", "lost_answer", "database", "ambiguous_commit",
              "restart"}

ASSUME ConstantsAssumption ==
    /\ Kinds \subseteq AllKinds
    /\ Faults \subseteq AllFaults
    /\ Fields \subseteq Nat
    /\ RefreshThreshold \in Nat \ {0}
    /\ WarningThreshold \in Nat /\ RefreshThreshold < WarningThreshold
    /\ TokenTTL \in Nat /\ WarningThreshold < TokenTTL
    /\ MaxDuration \in Nat
    /\ MaxClock \in Nat
    /\ MaxPairs \in Nat \ {0}
    /\ MaxRowId \in Nat

VARIABLES
    row,      (* the crm_configs row of the user                           *)
    cached,   (* Registry.instances[user]["amocrm"]                        *)
    issued,   (* amoCRM: number of the last pair issued, the only live one *)
    expiry,   (* amoCRM: when the access token of each pair expires        *)
    lost,     (* pairs issued whose answer nobody stored                   *)
    clock,    (* time.Now()                                                *)
    req       (* the local variables of each request in progress           *)

vars == <<row, cached, issued, expiry, lost, clock, req>>

-----------------------------------------------------------------------------
(* Data.  A token pair (access_token, refresh_token, expires_at) is the    *)
(* number amoCRM gave it; 0 stands for empty tokens.                       *)

Pairs == 0 .. MaxPairs

Row == [exists : BOOLEAN,   \* whether the row is in the table
        id     : Nat,       \* AUTO_INCREMENT id
        pair   : Pairs,     \* access_token, refresh_token, expires_at
        secret : BOOLEAN,   \* whether client_secret is not empty
        field  : Nat]       \* options.marusia_source_field_id

NoRow == [exists |-> FALSE, id |-> 0, pair |-> 0, secret |-> FALSE,
          field |-> 0]

(* What AmoCRMProvider.Initialize keeps of the configuration.              *)
Provider == [pair : Pairs, field : Nat]

NoProvider == [pair |-> 0, field |-> 0]

NewProvider(config) == [pair |-> config.pair, field |-> config.field]

(* sanitizeCredentials: the configuration as API handlers read it.         *)
Sanitize(config) == [config EXCEPT !.pair = 0, !.secret = FALSE]

Steps == {"idle", "load", "check", "refresh_load", "refresh_post",
          "refresh_save", "reload", "provider", "call", "exchange",
          "invalidate", "write"}

Request == [pc     : Steps,
            kind   : AllKinds \cup {"none"},
            config : Row,          \* the configuration as last read
            held   : Pairs,        \* a pair received and not yet stored
            client : Provider,     \* the provider an operation obtained
            age    : Nat]          \* clock ticks since the request started

IdleRequest == [pc |-> "idle", kind |-> "none", config |-> NoRow,
                held |-> 0, client |-> NoProvider, age |-> 0]

TypeOK ==
    /\ row \in Row
    /\ cached \in Provider
    /\ issued \in Pairs
    /\ expiry \in [1 .. MaxPairs -> Nat]
    /\ lost \in SUBSET (1 .. MaxPairs)
    /\ clock \in Nat
    /\ req \in [Requests -> Request]

(* The process has just started; the user has saved a configuration with   *)
(* credentials and the first pair, or none at all.                         *)
Init ==
    /\ row \in {NoRow, [exists |-> TRUE, id |-> 1, pair |-> 1,
                        secret |-> TRUE, field |-> 0]}
    /\ cached = NoProvider
    /\ issued = row.pair
    /\ expiry = [p \in 1 .. MaxPairs |-> IF p <= issued THEN TokenTTL ELSE 0]
    /\ lost = {}
    /\ clock = 0
    /\ req = [r \in Requests |-> IdleRequest]

-----------------------------------------------------------------------------
(* Helpers.                                                                *)

At(r, step) == req[r].pc = step

Continue(r, step) == req' = [req EXCEPT ![r].pc = step]

Finish(r) == req' = [req EXCEPT ![r] = IdleRequest]

(* Defect: the empty pair counted among the lost ones.                     *)
LosingAny(r) == lost \cup {req[r].held}

(* The lost pairs when a request forgets the one it received.              *)
Losing(r) == lost \cup ({req[r].held} \ {0})

(* The handler returns; a pair it received and did not store is gone.      *)
GiveUp(r) ==
    /\ Finish(r)
    /\ lost' = Losing(r)

(* amoCRM issues a pair: the refresh token of the pair before is spent.    *)
Issue ==
    /\ issued < MaxPairs
    /\ issued' = issued + 1
    /\ expiry' = [expiry EXCEPT ![issued + 1] = clock + TokenTTL]

(* The row a request read is still in the table (a row deleted and saved   *)
(* again has another id).                                                  *)
InTable(config) == row.exists /\ row.id = config.id

(* Repository.UpdateCRMConfig: every column of the row with that id; no    *)
(* such row is not an error.                                               *)
UpdateRow(config) == row' = IF InTable(config) THEN config ELSE row

(* Repository.UpsertCRMConfig: INSERT ... ON DUPLICATE KEY UPDATE.         *)
UpsertRow(config) ==
    row' = [config EXCEPT !.exists = TRUE,
                          !.id = IF row.exists THEN row.id ELSE row.id + 1]

(* Whether the server's confirmation of a write reaches the service.       *)
Confirmations == IF "ambiguous_commit" \in Faults THEN {TRUE, FALSE} ELSE {TRUE}

-----------------------------------------------------------------------------
(* The start of a request and the first read of the configuration.         *)

(* Defect: UpsertCRMConfig without RemoveProvider.                         *)
FirstStepSaveDirectly(kind) ==
    CASE kind = "callback" -> "exchange"
      [] kind = "save"     -> "write"
      [] OTHER             -> "load"

FirstStep(kind) ==
    CASE kind = "callback" -> "exchange"
      [] kind = "save"     -> "invalidate"
      [] OTHER             -> "load"

Start(r, kind) ==
    /\ At(r, "idle")
    /\ kind = "delete" => row.id <= MaxRowId
    /\ req' = [req EXCEPT ![r].pc = FirstStep(kind), ![r].kind = kind]
    /\ UNCHANGED <<row, cached, issued, expiry, lost, clock>>

(* Operations and settings read the row as stored, the other handlers the  *)
(* sanitized one.                                                          *)
ReadFor(kind) ==
    IF kind \in {"operation", "settings"} THEN row ELSE Sanitize(row)

StepAfterLoad(kind) ==
    CASE kind = "operation" -> "check"
      [] kind = "refresh"   -> "refresh_load"
      [] kind = "settings"  -> "write"
      [] OTHER              -> "invalidate"

Load(r) ==
    /\ At(r, "load")
    /\ \/ /\ row.exists
          /\ req' = [req EXCEPT ![r].pc = StepAfterLoad(req[r].kind),
                                ![r].config = ReadFor(req[r].kind)]
          /\ UNCHANGED lost
       \/ /\ ~row.exists
          /\ GiveUp(r)
    /\ UNCHANGED <<row, cached, issued, expiry, clock>>

-----------------------------------------------------------------------------
(* Lazy refresh: ensureValidToken before an operation.                     *)

(* Defect: no margin before the expiry.                                    *)
WithinNothing(threshold, pair) == clock >= expiry[pair] + threshold

(* The token of the pair is within the threshold of its expiry.            *)
Within(threshold, pair) == clock + threshold >= expiry[pair]

EnsureValidToken(r) ==
    LET pair == req[r].config.pair IN
    /\ At(r, "check")
    /\ \/ /\ pair = 0
          /\ Finish(r)
          /\ UNCHANGED cached
       \/ /\ pair # 0
          /\ cached' = IF Within(WarningThreshold, pair)
                       THEN NoProvider ELSE cached
          /\ Continue(r, IF Within(RefreshThreshold, pair)
                         THEN "refresh_load" ELSE "reload")
    /\ UNCHANGED <<row, issued, expiry, lost, clock>>

(* RefreshAmoCRMToken reads the row again, by the id its caller has.       *)
RefreshLoad(r) ==
    /\ At(r, "refresh_load")
    /\ IF InTable(req[r].config) /\ row.pair # 0 /\ row.secret
       THEN req' = [req EXCEPT ![r].pc = "refresh_post", ![r].config = row]
       ELSE Finish(r)
    /\ UNCHANGED <<row, cached, issued, expiry, lost, clock>>

(* The POST to /oauth2/access_token: the refresh token is the live one and *)
(* the answer arrives ...                                                  *)
RefreshAnswered(r) ==
    /\ At(r, "refresh_post")
    /\ req[r].config.pair = issued
    /\ Issue
    /\ req' = [req EXCEPT ![r].pc = "refresh_save", ![r].held = issued + 1]
    /\ UNCHANGED <<row, cached, lost, clock>>

(* ... or the answer is lost or unreadable ...                             *)
RefreshAnswerLost(r) ==
    /\ At(r, "refresh_post")
    /\ "lost_answer" \in Faults
    /\ req[r].config.pair = issued
    /\ Issue
    /\ lost' = lost \cup {issued + 1}
    /\ Finish(r)
    /\ UNCHANGED <<row, cached, clock>>

(* Defect: the status and the empty access_token of an answer not checked. *)
RefreshUnchecked(r) ==
    /\ At(r, "refresh_post")
    /\ \/ req[r].config.pair # issued
       \/ "network" \in Faults
    /\ Continue(r, "refresh_save")
    /\ UNCHANGED <<row, cached, issued, expiry, lost, clock>>

(* Defect: a refused refresh tried again without limit.                    *)
RefreshRetried(r) ==
    /\ At(r, "refresh_post")
    /\ \/ req[r].config.pair # issued
       \/ "network" \in Faults
       \/ issued = MaxPairs
    /\ Continue(r, "refresh_load")
    /\ UNCHANGED <<row, cached, issued, expiry, lost, clock>>

(* ... or amoCRM refuses a spent refresh token, or is not reached.         *)
RefreshRefused(r) ==
    /\ At(r, "refresh_post")
    /\ \/ req[r].config.pair # issued
       \/ "network" \in Faults
       \/ issued = MaxPairs           \* the bound stands for a failure
    /\ Finish(r)
    /\ UNCHANGED <<row, cached, issued, expiry, lost, clock>>

(* Defect: the credentials saved are those that were read.                 *)
RefreshSavesOld(r) ==
    /\ At(r, "refresh_save")
    /\ UpdateRow(req[r].config)
    /\ lost' = IF InTable(req[r].config) THEN lost ELSE Losing(r)
    /\ \E confirmed \in Confirmations :
         IF confirmed /\ req[r].kind = "operation"
         THEN req' = [req EXCEPT ![r].pc = "reload", ![r].held = 0]
         ELSE Finish(r)
    /\ UNCHANGED <<cached, issued, expiry, clock>>

(* The refresher writes the row it read, with the new pair in it.          *)
RefreshSave(r) ==
    /\ At(r, "refresh_save")
    /\ UpdateRow([req[r].config EXCEPT !.pair = req[r].held])
    /\ lost' = IF InTable(req[r].config) THEN lost ELSE Losing(r)
    /\ \E confirmed \in Confirmations :
         IF confirmed /\ req[r].kind = "operation"
         THEN req' = [req EXCEPT ![r].pc = "reload", ![r].held = 0]
         ELSE Finish(r)
    /\ UNCHANGED <<cached, issued, expiry, clock>>

(* ensureValidTokenByType reads the row once more ...                      *)
Reload(r) ==
    /\ At(r, "reload")
    /\ \/ /\ row.exists
          /\ req' = [req EXCEPT ![r].pc = "provider", ![r].config = row]
       \/ /\ ~row.exists
          /\ Finish(r)
    /\ UNCHANGED <<row, cached, issued, expiry, lost, clock>>

(* ... and the operation takes the cached provider, or caches a new one.   *)
GetOrCreateProvider(r) ==
    LET new == NewProvider(req[r].config) IN
    /\ At(r, "provider")
    /\ \/ /\ cached # NoProvider
          /\ req' = [req EXCEPT ![r].pc = "call", ![r].client = cached]
          /\ UNCHANGED cached
       \/ /\ cached = NoProvider /\ new.pair # 0
          /\ req' = [req EXCEPT ![r].pc = "call", ![r].client = new]
          /\ cached' = new
       \/ /\ cached = NoProvider /\ new.pair = 0
          /\ Finish(r)
          /\ UNCHANGED cached
    /\ UNCHANGED <<row, issued, expiry, lost, clock>>

(* The request to the amoCRM API, whatever its answer.                     *)
Call(r) ==
    /\ At(r, "call")
    /\ Finish(r)
    /\ UNCHANGED <<row, cached, issued, expiry, lost, clock>>

-----------------------------------------------------------------------------
(* The handlers that write the row.                                        *)

(* AmoCRMCallback exchanges the authorization code for a pair first.       *)
ExchangeCode(r) ==
    /\ At(r, "exchange")
    /\ \/ /\ Issue
          /\ req' = [req EXCEPT ![r].pc = "load", ![r].held = issued + 1]
       \/ /\ "network" \in Faults \/ issued = MaxPairs
          /\ Finish(r)
          /\ UNCHANGED <<issued, expiry>>
    /\ UNCHANGED <<row, cached, lost, clock>>

(* Registry.RemoveProvider: before the write, but after it for settings.   *)
Invalidate(r) ==
    /\ At(r, "invalidate")
    /\ cached' = NoProvider
    /\ IF req[r].kind = "settings" THEN Finish(r) ELSE Continue(r, "write")
    /\ UNCHANGED <<row, issued, expiry, lost, clock>>

(* SetMarusiaSourceFieldID sets the field; SetDefaultLeadSettings and      *)
(* SetChannelSettings leave it as read and change columns not modelled.    *)
WriteSettings(r) ==
    /\ At(r, "write") /\ req[r].kind = "settings"
    /\ \E field \in Fields \cup {req[r].config.field} :
         UpdateRow([req[r].config EXCEPT !.field = field])
    /\ \E confirmed \in Confirmations :
         IF confirmed THEN Continue(r, "invalidate") ELSE Finish(r)
    /\ UNCHANGED <<cached, issued, expiry, lost, clock>>

(* SetCRMConfigActive writes back the sanitized configuration it read.     *)
WriteActive(r) ==
    /\ At(r, "write") /\ req[r].kind = "active"
    /\ UpdateRow(req[r].config)
    /\ Finish(r)
    /\ UNCHANGED <<cached, issued, expiry, lost, clock>>

(* SaveCRMConfig writes the credentials of the request, with or without    *)
(* tokens the client obtained itself, and empty options.                   *)
WriteSave(r) ==
    LET new == [NoRow EXCEPT !.secret = TRUE] IN
    /\ At(r, "write") /\ req[r].kind = "save"
    /\ \/ /\ UpsertRow(new)
          /\ UNCHANGED <<issued, expiry>>
       \/ /\ Issue
          /\ UpsertRow([new EXCEPT !.pair = issued + 1])
    /\ Finish(r)
    /\ UNCHANGED <<cached, lost, clock>>

(* AmoCRMCallback stores the pair in the sanitized configuration it read.  *)
WriteCallback(r) ==
    /\ At(r, "write") /\ req[r].kind = "callback"
    /\ UpsertRow([req[r].config EXCEPT !.pair = req[r].held])
    /\ Finish(r)
    /\ UNCHANGED <<cached, issued, expiry, lost, clock>>

DeleteRow(r) ==
    /\ At(r, "write") /\ req[r].kind = "delete"
    /\ row' = IF InTable(req[r].config)
              THEN [NoRow EXCEPT !.id = row.id] ELSE row
    /\ Finish(r)
    /\ UNCHANGED <<cached, issued, expiry, lost, clock>>

-----------------------------------------------------------------------------
(* Failures and time.                                                      *)

DatabaseSteps == {"load", "refresh_load", "refresh_save", "reload", "write"}

(* A read or write of the database fails and the handler returns.          *)
DatabaseFails(r) ==
    /\ "database" \in Faults
    /\ req[r].pc \in DatabaseSteps
    /\ GiveUp(r)
    /\ UNCHANGED <<row, cached, issued, expiry, clock>>

(* The process dies and starts again: only the database survives.          *)
Restart ==
    /\ "restart" \in Faults
    /\ lost' = lost \cup ({req[r].held : r \in Requests} \ {0})
    /\ req' = [r \in Requests |-> IdleRequest]
    /\ cached' = NoProvider
    /\ UNCHANGED <<row, issued, expiry, clock>>

(* Time passes, but no request outlives the bound on its duration.         *)
Tick ==
    /\ clock < MaxClock
    /\ \A r \in Requests : At(r, "idle") \/ req[r].age < MaxDuration
    /\ clock' = clock + 1
    /\ req' = [r \in Requests |->
                 IF At(r, "idle") THEN req[r]
                 ELSE [req[r] EXCEPT !.age = @ + 1]]
    /\ UNCHANGED <<row, cached, issued, expiry, lost>>

-----------------------------------------------------------------------------

Step(r) ==
    \/ Load(r)
    \/ EnsureValidToken(r)
    \/ RefreshLoad(r)
    \/ RefreshAnswered(r)
    \/ RefreshAnswerLost(r)
    \/ RefreshRefused(r)
    \/ RefreshSave(r)
    \/ Reload(r)
    \/ GetOrCreateProvider(r)
    \/ Call(r)
    \/ ExchangeCode(r)
    \/ Invalidate(r)
    \/ WriteSettings(r)
    \/ WriteActive(r)
    \/ WriteSave(r)
    \/ WriteCallback(r)
    \/ DeleteRow(r)

Next ==
    \/ \E r \in Requests :
         \/ \E kind \in Kinds : Start(r, kind)
         \/ Step(r)
         \/ DatabaseFails(r)
    \/ Restart
    \/ Tick

Fairness == \A r \in Requests : WF_vars(Step(r))

Spec == Init /\ [][Next]_vars

FairSpec == Spec /\ Fairness

-----------------------------------------------------------------------------
(* Properties.                                                             *)

(* The requests that write no credentials but those of a refresh.          *)
RefreshKinds == {"operation", "refresh", "delete"}

(* The refresh token of a configuration can always be found: the live pair *)
(* is in the row, or the one request that has just received it is about to *)
(* store it, or a failure after amoCRM's answer lost it.  Two refreshes,   *)
(* each with the row it read itself, never waste a pair by themselves      *)
(* (RefreshAmoCRMToken, ensureValidToken).                                 *)
RefreshChain ==
    row.exists => \/ row.pair = issued
                  \/ \E r \in Requests : req[r].held = issued
                  \/ issued \in lost

(* The refreshes of all requests together are one rotation of one pair:    *)
(* the abstract specification TokenRotation, with the pair in the row as   *)
(* the stored one and a pair that some request holds as the pending one.   *)
StoredPair == IF row.exists THEN row.pair ELSE 0

PendingPair == IF \E r \in Requests : req[r].held # 0 THEN issued ELSE 0

Rotation == INSTANCE TokenRotation WITH stored <- StoredPair,
                                        pending <- PendingPair

RotationSpec == Rotation!Spec

(* A refresh that was slow to store its answer never overwrites the newer  *)
(* pair of another one (RefreshAmoCRMToken writes the whole row it read).  *)
PairsNeverGoBack ==
    [][row.exists /\ row'.exists => row.pair <= row'.pair]_row

(* When no other request is in progress, what is cached was built from the *)
(* row as it stands: every write of the row is paired with a               *)
(* RemoveProvider, whichever of its steps fails.                           *)
CacheCoherent ==
    (\A r \in Requests : req[r].pc \in {"idle", "call"})
        => \/ cached = NoProvider
           \/ row.exists /\ cached = NewProvider(row)

(* No operation is sent with an access token that has expired: the         *)
(* thresholds of ensureValidToken leave time for the whole request.        *)
NoExpiredCall ==
    \A r \in Requests :
        At(r, "call") => clock < expiry[req[r].client.pair]

(* The requests that change one setting leave the stored pair alone        *)
(* (SetMarusiaSourceFieldID, SetDefaultLeadSettings, SetChannelSettings).  *)
SettingsKeepTokens ==
    [][\A r \in Requests :
         WriteSettings(r) => row'.pair = row.pair]_vars

(* A request that stores tokens or is_active in an existing row does not   *)
(* erase its client_secret (AmoCRMCallback, SetCRMConfigActive).           *)
SecretKept ==
    [][row.exists /\ row'.exists /\ row.secret => row'.secret]_row

(* Every request ends, whatever fails on the way.                          *)
RequestsEnd ==
    \A r \in Requests : ~At(r, "idle") ~> At(r, "idle")
=============================================================================
