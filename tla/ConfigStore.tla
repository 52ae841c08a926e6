----------------------------- MODULE ConfigStore ------------------------------
(***************************************************************************)
(* The row of crm_configs of one user and one CRM, and every handler that  *)
(* reads and writes it.  A handler reads the whole row - with its secrets  *)
(* (read) or without (look) -, changes what it is about and writes the     *)
(* whole row back, without a transaction; columns are encrypted on the way *)
(* in and decrypted on the way out if the user's master key can be had at  *)
(* that moment.  The provider of the registry keeps what the options said  *)
(* when it was created.                                                    *)
(***************************************************************************)
EXTENDS Naturals, FiniteSets

CONSTANTS
    Requests,   (* the HTTP requests and OAuth callbacks of the run        *)
    Kinds,      (* what they may be                                        *)
    KeyStates,  (* whether an access may have the master key or lack it    *)
    Faults,     (* "database": a statement fails and changes nothing;      *)
                (* "confirmation": it succeeds, but the answer times out   *)
    Old,        (* the value of a setting made before the run              *)
    None        (* the value of a setting never made                       *)

(* The settings in the row and the column each is in.  "client" stands for *)
(* client_id and redirect_url, "tokens" for the pair and its expiry; the   *)
(* name of the configuration goes where the subdomain goes.                *)
Column ==
    [subdomain |-> "subdomain",
     client |-> "credentials", secret |-> "credentials",
     tokens |-> "credentials", field  |-> "options", lead |-> "options",
     assist |-> "channels", tags |-> "channels", active |-> "is_active"]

Settings   == DOMAIN Column
Protected  == {"subdomain", "credentials", "options", "channels"}
In(column) == {s \in Settings : Column[s] = column}

(* A setting is represented by the request that made it.                   *)
Values == Requests \cup {Old, None}
Rows   == [id : Nat, value : [Settings -> Values], sealed : SUBSET Protected]

NoRow == [id |-> 0, value |-> [s \in Settings |-> None], sealed |-> {}]

(* The statements of each handler in their order.  Those of the settings   *)
(* remove the cached provider after the write, the others before it.  A    *)
(* refresh that an operation finds necessary is a request of its own.      *)
Late    == {"setField", "setLead", "setAssist", "setTags"}
First   ==
    [setField    |-> "read", setLead     |-> "read",
     setAssist   |-> "look", setTags     |-> "look",
     setActive   |-> "look", mockRefresh |-> "look",
     callback    |-> "look", mockAuth    |-> "look",
     delete      |-> "look", save        |-> "remove",
     refresh     |-> "look", use         |-> "check"]
AfterLook(k)   == IF k \in {"setAssist", "setTags", "refresh"}
                  THEN "read" ELSE "remove"
AfterRead(k)   == IF k = "use" THEN "provide" ELSE "write"
AfterRemove(k) == CASE k \in Late -> "done"
                    [] k \in {"save", "callback", "mockAuth"} -> "upsert"
                    [] k = "delete" -> "erase"
                    [] OTHER -> "write"
AfterWrite(k)  == IF k \in Late THEN "remove" ELSE "done"

(* The settings a request is about.                                        *)
Requested ==
    [setField    |-> {"field"},            setLead   |-> {"lead"},
     setAssist   |-> {"assist"},           setTags   |-> {"tags"},
     setActive   |-> {"active"},           delete    |-> {},
     mockRefresh |-> {"tokens"},           refresh   |-> {"tokens"},
     callback    |-> {"tokens", "active"}, mockAuth  |-> {"tokens", "active"},
     save        |-> {"subdomain", "client", "secret", "active"},
     use         |-> {}]

ASSUME StoreAssumption ==
    /\ Kinds \subseteq DOMAIN First
    /\ KeyStates \subseteq BOOLEAN
    /\ Faults \subseteq {"database", "confirmation"}
    /\ Old \notin Requests /\ None \notin Requests /\ Old # None

VARIABLES
    row,        (* the row, or NoRow                                       *)
    nextId,     (* AUTO_INCREMENT                                          *)
    provider,   (* what the cached provider took from the options; why it  *)
                (* may differ from the row                                 *)
    kind,       (* what each request is                                    *)
    at,         (* its next statement                                      *)
    copy,       (* the row as the request holds it                         *)
    answer,     (* the status of its answer, 0 before                      *)
    overtaken,  (* requests during which another one has written the row   *)
    blind       (* requests that found a column they parse sealed          *)

vars == <<row, nextId, provider, kind, at, copy, answer, overtaken, blind>>

NoProvider == [field |-> None, cause |-> "absent"]
Causes     == {"absent", "none", "insertedLate", "blind", "notRemoved",
               "unconfirmed"}
Steps      == {"look", "check", "read", "remove", "write", "upsert", "erase",
               "provide", "done"}

TypeOK ==
    /\ row \in Rows
    /\ nextId \in Nat \ {0}
    /\ provider \in [field : Values, cause : Causes]
    /\ kind \in [Requests -> Kinds]
    /\ at \in [Requests -> Steps]
    /\ copy \in [Requests -> Rows]
    /\ answer \in [Requests -> {0, 200, 400, 404, 500}]
    /\ overtaken \subseteq Requests
    /\ blind \subseteq Requests

(* There is no row, or a complete one written with or without the key; the *)
(* provider of an earlier operation may be cached.                         *)
Init ==
    /\ row \in {NoRow}
         \cup {[id |-> 1, value |-> [s \in Settings |-> Old],
                sealed |-> IF key THEN Protected ELSE {}] : key \in KeyStates}
    /\ nextId = 2
    /\ provider \in {NoProvider}
         \cup IF row = NoRow THEN {} ELSE {[field |-> Old, cause |-> "none"]}
    /\ kind \in [Requests -> Kinds]
    /\ at = [r \in Requests |-> First[kind[r]]]
    /\ copy = [r \in Requests |-> NoRow]
    /\ answer = [r \in Requests |-> 0]
    /\ overtaken = {}
    /\ blind = {}

-----------------------------------------------------------------------------
(* What happens to the contents of a row.                                  *)

Without(value, settings) ==
    [s \in Settings |-> IF s \in settings THEN None ELSE value[s]]

Filled(value) == {c \in Protected : \E s \in In(c) : value[s] # None}

decryptCRMConfigFields(config, key) ==
    IF key THEN [config EXCEPT !.sealed = {}] ELSE config

(* What is sealed already is written back as it is.                        *)
encryptCRMConfigFields(config, key) ==
    [config EXCEPT !.sealed = IF key THEN @ \cup Filled(config.value) ELSE @]

(* Credentials that cannot be parsed come out as "{}".                     *)
sanitizeCredentials(config) ==
    [config EXCEPT
        !.value = Without(@, IF "credentials" \in config.sealed
                             THEN In("credentials")
                             ELSE {"secret", "tokens"}),
        !.sealed = @ \ {"credentials"}]

(* Defect: the new options start empty.                                    *)
ParsedEmpty(config, column) ==
    [config EXCEPT !.value = Without(@, In(column)),
                   !.sealed = @ \ {column}]

(* A column that cannot be parsed is taken for an empty one.               *)
Parsed(config, column) ==
    [config EXCEPT
        !.value = IF column \in config.sealed
                  THEN Without(@, In(column)) ELSE @,
        !.sealed = @ \ {column}]

(* The column whose contents the handler of a request parses.              *)
ParsedColumn(k) ==
    CASE k \in {"setField", "setLead", "use"} -> "options"
      [] k \in {"setAssist", "setTags"} -> "channels"
      [] OTHER -> "credentials"

Made(config, r) ==
    [config EXCEPT !.value =
        [s \in Settings |-> IF s \in Requested[kind[r]] THEN r ELSE @[s]]]

(* What a request has to write.  The credentials that SaveCRMConfig is     *)
(* given may contain tokens.                                               *)
Sent(r) ==
    {Made(copy[r], r)} \cup
    IF kind[r] = "save"
    THEN {[Made(copy[r], r) EXCEPT !.value = [@ EXCEPT !["tokens"] = r]]}
    ELSE {}

-----------------------------------------------------------------------------
Reply(r, status) ==
    /\ at' = [at EXCEPT ![r] = "done"]
    /\ answer' = [answer EXCEPT ![r] = status]

Proceed(r, step) ==
    /\ at' = [at EXCEPT ![r] = step]
    /\ answer' = IF step = "done" THEN [answer EXCEPT ![r] = 200] ELSE answer

(* Defect: a missing configuration is answered like an inactive one.       *)
MissingForbidden(k) == 403

Missing(k) == IF k = "delete" THEN 500 ELSE 404

NoteBlind(r) ==
    blind' = IF ParsedColumn(kind[r]) \in row.sealed
             THEN blind \cup {r} ELSE blind

(* GetCRMConfigByType, or GetCRMConfig in AmoCRMRefreshToken: without the  *)
(* secrets.  MockAmoCRMAuth then finds no client_secret, ever.             *)
Look(r) ==
    /\ at[r] = "look"
    /\ \E key \in KeyStates :
         LET config == decryptCRMConfigFields(row, key)
         IN  /\ copy' = [copy EXCEPT ![r] = sanitizeCredentials(config)]
             /\ IF key \/ kind[r] = "refresh"
                THEN UNCHANGED blind ELSE NoteBlind(r)
    /\ IF row = NoRow
       THEN Reply(r, Missing(kind[r]))
       ELSE IF kind[r] = "mockAuth" /\ copy'[r].value["secret"] = None
       THEN Reply(r, 400)
       ELSE Proceed(r, AfterLook(kind[r]))
    /\ UNCHANGED <<row, nextId, provider, kind, overtaken>>

(* What RefreshAmoCRMToken and an operation need of the credentials.       *)
Usable(k, config) ==
    /\ "credentials" \notin config.sealed
    /\ config.value["tokens"] # None
    /\ k = "refresh" => None \notin {config.value["client"],
                                    config.value["secret"]}

(* The first read of ensureValidTokenByType: without usable credentials    *)
(* the operation ends.  A provider whose token soon expires is removed, and *)
(* the refresh that is then due may fail.                                  *)
EnsureValid(r) ==
    /\ at[r] = "check"
    /\ \E key \in KeyStates :
         IF row # NoRow /\ Usable("use", decryptCRMConfigFields(row, key))
         THEN \/ provider' \in {provider, NoProvider} /\ Proceed(r, "read")
              \/ provider' = NoProvider /\ Reply(r, 500)
         ELSE UNCHANGED provider /\ Reply(r, 500)
    /\ UNCHANGED <<row, nextId, kind, copy, overtaken, blind>>

(* Whether the second read of a handler finds what it needs.  A refresh    *)
(* asks for the row by the identifier it has looked up.                    *)
Found(r, config) ==
    /\ row # NoRow
    /\ kind[r] = "refresh" => /\ row.id = copy[r].id
                              /\ Usable("refresh", config)

(* GetCRMConfigByTypeInternal or GetCRMConfigInternal, with the secrets.   *)
(* SetChannelSettings writes the entry that its handler has merged from    *)
(* its own look; a refresh keeps nothing of its look.                      *)
Read(r) ==
    /\ at[r] = "read"
    /\ \E key \in KeyStates :
         LET config == decryptCRMConfigFields(row, key)
             merged == Parsed(copy[r], "channels").value
         IN  /\ copy' = [copy EXCEPT ![r] =
                   IF kind[r] \in {"setAssist", "setTags"}
                   THEN [Parsed(config, "channels") EXCEPT !.value =
                           [s \in Settings |-> IF s \in In("channels")
                                               THEN merged[s] ELSE @[s]]]
                   ELSE IF kind[r] \in {"setField", "setLead"}
                   THEN Parsed(config, "options")
                   ELSE config]
             /\ IF key \/ kind[r] \in {"setAssist", "setTags"}
                THEN UNCHANGED blind ELSE NoteBlind(r)
             /\ IF Found(r, config)
                THEN Proceed(r, AfterRead(kind[r]))
                ELSE Reply(r, 500)
    /\ overtaken' = IF kind[r] = "refresh" THEN overtaken \ {r} ELSE overtaken
    /\ UNCHANGED <<row, nextId, provider, kind>>

(* The handler cannot parse what the client sent, or the configuration to  *)
(* be saved has no name.                                                   *)
Refuse(r) ==
    /\ at[r] = First[kind[r]]
    /\ \/ kind[r] \in Late \cup {"setActive", "save", "refresh"} /\ Reply(r, 400)
       \/ kind[r] = "save" /\ Reply(r, 500)
    /\ UNCHANGED <<row, nextId, provider, kind, copy, overtaken, blind>>

(* Defect: an error of a write is not returned.                            *)
StatementFailsSilently(r) ==
    /\ "database" \in Faults
    /\ at[r] \in {"look", "check", "read", "write", "upsert", "erase"}
    /\ Reply(r, IF at[r] = "look" THEN Missing(kind[r])
                ELSE IF at[r] \in {"check", "read"} THEN 500 ELSE 200)
    /\ UNCHANGED <<row, nextId, provider, kind, copy, overtaken, blind>>

(* The statement fails: the handler answers with an error.  In refresh it  *)
(* may be the request to amoCRM that fails.                                *)
StatementFails(r) ==
    /\ "database" \in Faults
    /\ at[r] \in {"look", "check", "read", "write", "upsert", "erase"}
    /\ Reply(r, IF at[r] = "look" THEN Missing(kind[r]) ELSE 500)
    /\ UNCHANGED <<row, nextId, provider, kind, copy, overtaken, blind>>

(* What a commit makes of the other requests and of the cached provider.   *)
NoteCommit(r, confirmed) ==
    /\ overtaken' = overtaken
         \cup {q \in Requests \ {r} : at[q] # "done" /\ copy[q] # NoRow}
    /\ provider' = IF provider.cause # "none"
                      \/ row'.value["field"] = row.value["field"]
                   THEN provider
                   ELSE IF kind[r] \notin Late
                   THEN [provider EXCEPT !.cause = "notRemoved"]
                   ELSE IF ~confirmed
                   THEN [provider EXCEPT !.cause = "unconfirmed"]
                   ELSE provider

(* A write without a confirmation is an error, and the handler ends there. *)
Outcome(r, confirmed, next) ==
    IF confirmed THEN Proceed(r, next) ELSE Reply(r, 500)

Confirmations == {TRUE} \cup IF "confirmation" \in Faults THEN {FALSE} ELSE {}

(* UpdateCRMConfig: UPDATE ... WHERE id.  The row may be gone by now, which *)
(* is no error.                                                            *)
Write(r) ==
    /\ at[r] = "write"
    /\ \E key \in KeyStates, confirmed \in Confirmations :
         /\ IF row.id = copy[r].id
            THEN /\ row' = encryptCRMConfigFields(Made(copy[r], r), key)
                 /\ NoteCommit(r, confirmed)
            ELSE UNCHANGED <<row, provider, overtaken>>
         /\ Outcome(r, confirmed, AfterWrite(kind[r]))
    /\ UNCHANGED <<nextId, kind, copy, blind>>

(* UpsertCRMConfig: an existing row keeps its id.  SaveCRMConfig writes    *)
(* what the client sent, with empty options and channels.                  *)
Upsert(r) ==
    /\ at[r] = "upsert"
    /\ \E key \in KeyStates, confirmed \in Confirmations, sent \in Sent(r) :
         /\ row' = [encryptCRMConfigFields(sent, key)
                       EXCEPT !.id = IF row = NoRow THEN nextId ELSE row.id]
         /\ NoteCommit(r, confirmed)
         /\ Outcome(r, confirmed, "done")
    /\ nextId' = IF row = NoRow THEN nextId + 1 ELSE nextId
    /\ UNCHANGED <<kind, copy, blind>>

(* DeleteCRMConfig: DELETE ... WHERE id.                                   *)
Erase(r) ==
    /\ at[r] = "erase"
    /\ \E confirmed \in Confirmations :
         /\ IF row.id = copy[r].id
            THEN row' = NoRow /\ NoteCommit(r, confirmed)
            ELSE UNCHANGED <<row, provider, overtaken>>
         /\ Outcome(r, confirmed, "done")
    /\ UNCHANGED <<nextId, kind, copy, blind>>

(* Defect: the cached provider is kept.                                    *)
RemoveNothing(r) ==
    /\ at[r] = "remove"
    /\ Proceed(r, AfterRemove(kind[r]))
    /\ UNCHANGED <<row, nextId, provider, kind, copy, overtaken, blind>>

(* RemoveProvider.                                                         *)
Remove(r) ==
    /\ at[r] = "remove"
    /\ provider' = NoProvider
    /\ Proceed(r, AfterRemove(kind[r]))
    /\ UNCHANGED <<row, nextId, kind, copy, overtaken, blind>>

(* SetCRMConfigActive dereferences is_active, which the client may have    *)
(* left out, and nothing recovers a panic: the process ends, and with it   *)
(* the cache and every request that has begun.  The rows stay.             *)
Panic(r) ==
    /\ kind[r] = "setActive" /\ at[r] = "remove"
    /\ provider' = NoProvider
    /\ at' = [q \in Requests |-> IF at[q] = First[kind[q]] THEN at[q] ELSE "done"]
    /\ UNCHANGED <<row, nextId, kind, copy, answer, overtaken, blind>>

(* GetOrCreateProvider: a new provider needs the subdomain and the token,  *)
(* and takes the source field from the options; options that cannot be     *)
(* parsed have none.                                                       *)
Provide(r) ==
    /\ at[r] = "provide"
    /\ IF provider # NoProvider
       THEN Proceed(r, "done") /\ UNCHANGED provider
       ELSE IF "subdomain" \in copy[r].sealed \/ ~Usable("use", copy[r])
       THEN Reply(r, 500) /\ UNCHANGED provider
       ELSE /\ Proceed(r, "done")
            /\ provider' =
                 [field |-> Parsed(copy[r], "options").value["field"],
                  cause |-> IF r \in overtaken THEN "insertedLate"
                            ELSE IF r \in blind THEN "blind" ELSE "none"]
    /\ UNCHANGED <<row, nextId, kind, copy, overtaken, blind>>

Step(r) ==
    \/ Refuse(r)
    \/ Look(r)
    \/ EnsureValid(r)
    \/ Read(r)
    \/ StatementFails(r)
    \/ Write(r)
    \/ Upsert(r)
    \/ Erase(r)
    \/ Remove(r)
    \/ Panic(r)
    \/ Provide(r)

Next == \E r \in Requests : Step(r)

Spec == Init /\ [][Next]_vars

-----------------------------------------------------------------------------
(* Properties.                                                             *)

(* The settings that the kind of a request cannot avoid to change: what it *)
(* is about, and what its copy does not have - the secrets if it has read  *)
(* the row without them, the options and channels in SaveCRMConfig.        *)
Changes(k) ==
    Requested[k] \cup
    CASE k = "save" -> Settings
      [] First[k] = "look" /\ AfterLook(k) # "read" -> {"secret", "tokens"}
      [] OTHER -> {}

(* A write changes a setting of somebody else for two reasons only: another *)
(* request has written the row since this one read it, or the master key   *)
(* was missing when this one read the column it was to change.  A missing  *)
(* key alone never damages a column the handler does not parse.            *)
LossHasCause ==
    [][\A r \in Requests, s \in Settings :
          /\ at[r] \in {"write", "upsert"} /\ at'[r] # at[r]
          /\ row'.value[s] # row.value[s]
          => \/ s \in Changes(kind[r])
             \/ r \in overtaken
             \/ r \in blind /\ s \in In(ParsedColumn(kind[r]))]_vars

(* An update that is answered with success, or that its handler goes on    *)
(* from to remove the provider, is in the row, unless another request has  *)
(* written or deleted it in the meantime - also when the process ends in   *)
(* between.                                                                *)
AcknowledgedStored ==
    [][\A r \in Requests :
          /\ at[r] \in {"write", "upsert"} /\ at'[r] # at[r]
          /\ answer'[r] = 200 \/ at'[r] = "remove"
          => \/ r \in overtaken
             \/ \A s \in Requested[kind[r]] : row'.value[s] = r]_vars

(* A provider that knows another source field than the row has one of four *)
(* excuses: it was inserted by an operation whose copy had been overtaken  *)
(* or whose options were sealed, or the field was changed by a handler     *)
(* that removes the provider before its write or never, or by one that was *)
(* told of a failure - or the removal is the next step.                    *)
StaleSourceHasCause ==
    provider.cause = "none" /\ row # NoRow
    => \/ provider.field = row.value["field"]
       \/ \E r \in Requests : kind[r] \in Late /\ at[r] = "remove"
===============================================================================
