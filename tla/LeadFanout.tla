------------------------------ MODULE LeadFanout ------------------------------
(***************************************************************************)
(* CreateLeadForUser beside the other users of the provider registry: a    *)
(* lead is offered to the configuration of every active mapping in turn,   *)
(* an operation on an entity uses one configuration, a settings handler    *)
(* writes a configuration and removes its provider.                        *)
(***************************************************************************)
EXTENDS ProviderRegistry, Sequences

CONSTANTS
    Kinds,       (* what a request may be                                  *)
    Mappings,    (* what GetActiveMappings may return: sequences of        *)
                 (* configurations, highest priority first                 *)
    MaxChanges   (* bound on the changes made to the rows from outside     *)

ASSUME FanoutAssumption ==
    /\ Kinds \subseteq {"lead", "operation", "settings"}
    /\ Mappings \subseteq Seq(Configs)
    /\ MaxChanges \in Nat

VARIABLES
    config,     (* the row of each configuration                           *)
    changes,
    kind,
    at,         (* where the goroutine of a request is                     *)
    todo,       (* the configurations it has still to deal with            *)
    skipped,    (* of a lead: mappings skipped because inactive            *)
    lastError,  (* of a lead: a mapping has failed                         *)
    successes,  (* of a lead: successCount                                 *)
    answer      (* the status of the answer, 0 before                      *)

request == <<kind, at, todo, skipped, lastError, successes, answer>>
vars    == <<registry, config, changes, request>>

Places == {"start", "config", "token", "expiring", "refresh", "reread",
           "provide", "initialize", "call", "write", "remove", "done"}

TypeOK ==
    /\ RegistryTypeOK
    /\ config \in [Configs -> {"active", "inactive", "missing"}]
    /\ changes \in 0..MaxChanges
    /\ kind \in [Requests -> Kinds]
    /\ at \in [Requests -> Places]
    /\ todo \in [Requests -> Seq(Configs)]
    /\ skipped \in [Requests -> Nat]
    /\ lastError \in [Requests -> BOOLEAN]
    /\ successes \in [Requests -> Nat]
    /\ answer \in [Requests -> {0, 200, 201, 400, 500}]

Init ==
    /\ RegistryInit
    /\ config \in [Configs -> {"active", "inactive", "missing"}]
    /\ changes = 0
    /\ kind \in [Requests -> Kinds]
    /\ at = [r \in Requests |->
                CASE kind[r] = "lead" -> "start"
                  [] kind[r] = "operation" -> "config"
                  [] OTHER -> "write"]
    /\ todo \in [Requests -> {<<>>} \cup {<<c>> : c \in Configs}]
    /\ \A r \in Requests : todo[r] = <<>> <=> kind[r] = "lead"
    /\ skipped = [r \in Requests |-> 0]
    /\ lastError = [r \in Requests |-> FALSE]
    /\ successes = [r \in Requests |-> 0]
    /\ answer = [r \in Requests |-> 0]

-----------------------------------------------------------------------------
Target(r) == Head(todo[r])

Go(r, place) == at' = [at EXCEPT ![r] = place]

Reply(r, status) ==
    /\ Go(r, "done")
    /\ answer' = [answer EXCEPT ![r] = status]
    /\ UNCHANGED <<kind, todo, skipped, lastError, successes>>

Proceed(r, place) ==
    /\ Go(r, place)
    /\ UNCHANGED <<kind, todo, skipped, lastError, successes, answer>>

(* Defect: a partial failure has a status of its own.                      *)
VerdictPartial(failed, n) == IF failed THEN 207 ELSE 201

(* The end of the loop: an error only if something failed and nothing      *)
(* succeeded.                                                              *)
Verdict(failed, n) == IF n = 0 /\ failed THEN 500 ELSE 201

(* A lead goes on with the next mapping, whatever became of this one.      *)
NextMapping(r, failed, n, skip) ==
    LET last == Len(todo[r]) = 1
    IN  /\ todo' = [todo EXCEPT ![r] = Tail(@)]
        /\ skipped' = [skipped EXCEPT ![r] = @ + skip]
        /\ lastError' = [lastError EXCEPT ![r] = @ \/ failed]
        /\ successes' = [successes EXCEPT ![r] = @ + n]
        /\ Go(r, IF last THEN "done" ELSE "config")
        /\ answer' = IF last
                     THEN [answer EXCEPT ![r] =
                             Verdict(lastError'[r], successes'[r])]
                     ELSE answer
        /\ UNCHANGED kind

(* Defect: a mapping that fails is only logged.                            *)
FailLogged(r) == IF kind[r] = "lead" THEN NextMapping(r, FALSE, 0, 0)
                                     ELSE Reply(r, 500)

Fail(r) == IF kind[r] = "lead" THEN NextMapping(r, TRUE, 0, 0)
                               ELSE Reply(r, 500)

(* The handler refuses an incomplete request.  GetActiveMappings: an error *)
(* of the database or an empty result is an error of the request.          *)
GetMappings(r) ==
    /\ at[r] = "start"
    /\ \/ Reply(r, 400)
       \/ Reply(r, 500)
       \/ \E list \in Mappings \ {<<>>} :
             /\ todo' = [todo EXCEPT ![r] = list]
             /\ Go(r, "config")
             /\ UNCHANGED <<kind, skipped, lastError, successes, answer>>
    /\ UNCHANGED <<registry, config, changes>>

(* The first read of the configuration.  Only leads ask if it is active.   *)
GetConfig(r) ==
    /\ at[r] = "config"
    /\ \/ Fail(r)
       \/ /\ config[Target(r)] # "missing"
          /\ IF kind[r] = "lead" /\ config[Target(r)] = "inactive"
             THEN NextMapping(r, FALSE, 0, 1)
             ELSE Proceed(r, "token")
    /\ UNCHANGED <<registry, config, changes>>

(* ensureValidToken: the token is missing, good, or about to expire.       *)
CheckToken(r) ==
    /\ at[r] = "token"
    /\ \/ Fail(r)
       \/ Proceed(r, "reread")
       \/ Proceed(r, "expiring")
    /\ UNCHANGED <<registry, config, changes>>

(* It removes the provider of a token that expires soon, and refreshes one *)
(* that expires very soon.                                                 *)
Invalidate(r) ==
    /\ at[r] = "expiring"
    /\ RemoveProvider(Target(r))
    /\ \/ Proceed(r, "reread")
       \/ Proceed(r, "refresh")
    /\ UNCHANGED <<config, changes>>

Refresh(r) ==
    /\ at[r] = "refresh"
    /\ Fail(r) \/ Proceed(r, "reread")
    /\ UNCHANGED <<registry, config, changes>>

(* The second read.  Whether the configuration is still active is not      *)
(* asked again.                                                            *)
Reread(r) ==
    /\ at[r] = "reread"
    /\ \/ Fail(r)
       \/ config[Target(r)] # "missing" /\ Proceed(r, "provide")
    /\ UNCHANGED <<registry, config, changes>>

(* Registry.GetOrCreateProvider.                                           *)
Provide(r) ==
    /\ at[r] = "provide"
    /\ \/ GetProvider(r, Target(r)) /\ Proceed(r, "call")
       \/ BeginInitialize(r, Target(r)) /\ Proceed(r, "initialize")
    /\ UNCHANGED <<config, changes>>

Initialized(r) ==
    /\ at[r] = "initialize"
    /\ \/ InitializeFails(r) /\ Fail(r)
       \/ EndInitialize(r, Target(r)) /\ Proceed(r, "call")
    /\ UNCHANGED <<config, changes>>

(* The call of the provider.  CreateLead of amoCRM is not implemented: it  *)
(* always returns an error.                                                *)
Call(r) ==
    /\ at[r] = "call"
    /\ \/ Fail(r)
       \/ kind[r] # "lead" /\ Reply(r, 200)
    /\ UNCHANGED <<registry, config, changes>>

(* A settings handler of the service: write the row, remove the provider.  *)
Write(r) ==
    /\ at[r] = "write"
    /\ \/ Fail(r)
       \/ Proceed(r, "remove")
    /\ UNCHANGED <<registry, config, changes>>

Remove(r) ==
    /\ at[r] = "remove"
    /\ RemoveProvider(Target(r))
    /\ Reply(r, 200)
    /\ UNCHANGED <<config, changes>>

(* Another client activates, deactivates or deletes a configuration.       *)
ChangeConfig(c) ==
    /\ changes < MaxChanges
    /\ config[c] # "missing"
    /\ config' = [config EXCEPT ![c] =
                     IF @ = "active" THEN "inactive" ELSE "active"]
       \/ config' = [config EXCEPT ![c] = "missing"]
    /\ changes' = changes + 1
    /\ UNCHANGED <<registry, request>>

Step(r) ==
    \/ GetMappings(r)
    \/ GetConfig(r)
    \/ CheckToken(r)
    \/ Invalidate(r)
    \/ Refresh(r)
    \/ Reread(r)
    \/ Provide(r)
    \/ Initialized(r)
    \/ Call(r)
    \/ Write(r)
    \/ Remove(r)

Next ==
    \/ \E r \in Requests : Step(r)
    \/ \E c \in Configs : ChangeConfig(c)

Spec == Init /\ [][Next]_vars

(* A goroutine goes on when it can; one that waits for the mutex gets it   *)
(* in the end, since sync.Mutex serves those first who have waited long.   *)
FairSpec == Spec /\ \A r \in Requests : SF_vars(Step(r))

-----------------------------------------------------------------------------
(* Properties.                                                             *)

(* "Lead created" is answered only if nothing was even tried: every        *)
(* mapping was skipped because its configuration was inactive.  One that   *)
(* failed makes the whole request fail, since none can succeed.            *)
CreatedMeansSkipped ==
    \A r \in Requests :
       kind[r] = "lead" /\ answer[r] = 201
       => skipped[r] > 0 /\ ~lastError[r] /\ successes[r] = 0

(* However slow the diagnosis of one account is and however often          *)
(* providers are removed, every request of every user ends.                *)
EveryRequestEnds == \A r \in Requests : <>(at[r] = "done")
=============================================================================
