--------------------------- MODULE ProviderRegistry ---------------------------
(***************************************************************************)
(* The cache of providers: at most one for each user and type of CRM, that *)
(* is for each configuration, behind one mutex for all users.  The mutex   *)
(* is held while a provider is initialized, a diagnosis of its network     *)
(* connection included.                                                    *)
(***************************************************************************)
EXTENDS Naturals

CONSTANTS
    Requests,   (* the goroutines that use the registry                    *)
    Configs,    (* the configurations, one for each user and type          *)
    Nobody      (* holder of the free mutex; configuration of no provider  *)

ASSUME RegistryAssumption == Nobody \notin Requests /\ Nobody \notin Configs

VARIABLES
    mu,         (* who holds the mutex across a slow operation             *)
    instances,  (* the cached provider of each configuration, 0 for none   *)
    made,       (* providers made so far; the number of the last           *)
    removals,   (* how often a configuration's provider has been removed   *)
    holds       (* the provider each request works with                    *)

registry == <<mu, instances, made, removals, holds>>

Holding(c, n, removed) == [config |-> c, provider |-> n, removed |-> removed]

NoProvider == Holding(Nobody, 0, 0)

RegistryTypeOK ==
    /\ mu \in Requests \cup {Nobody}
    /\ instances \in [Configs -> Nat]
    /\ made \in Nat
    /\ removals \in [Configs -> Nat]
    /\ holds \in [Requests -> [config : Configs \cup {Nobody},
                               provider : Nat, removed : Nat]]

RegistryInit ==
    /\ mu = Nobody
    /\ instances = [c \in Configs |-> 0]
    /\ made = 0
    /\ removals = [c \in Configs |-> 0]
    /\ holds = [r \in Requests |-> NoProvider]

-----------------------------------------------------------------------------
(* GetOrCreateProvider finds an instance.                                  *)
GetProvider(r, c) ==
    /\ mu = Nobody
    /\ instances[c] # 0
    /\ holds' = [holds EXCEPT ![r] = Holding(c, instances[c], removals[c])]
    /\ UNCHANGED <<mu, instances, made, removals>>

(* Defect: an instance that exists is not found.                           *)
BeginInitializeAgain(r, c) ==
    /\ mu = Nobody
    /\ mu' = r
    /\ UNCHANGED <<instances, made, removals, holds>>

(* It finds none and calls Initialize with the mutex held.                 *)
BeginInitialize(r, c) ==
    /\ mu = Nobody
    /\ instances[c] = 0
    /\ mu' = r
    /\ UNCHANGED <<instances, made, removals, holds>>

(* Defect: the early return does not release the mutex.                    *)
InitializeFailsLocked(r) ==
    /\ mu = r
    /\ UNCHANGED registry

(* There is no factory of that type, or the subdomain or the credentials   *)
(* are no good: an error and nothing cached.                               *)
InitializeFails(r) ==
    /\ mu = r
    /\ mu' = Nobody
    /\ UNCHANGED <<instances, made, removals, holds>>

(* The diagnosis has ended - with a result or after 5 s for the name and   *)
(* 10 s for the connection -, and whatever it says the provider is cached. *)
EndInitialize(r, c) ==
    /\ mu = r
    /\ made' = made + 1
    /\ instances' = [instances EXCEPT ![c] = made + 1]
    /\ holds' = [holds EXCEPT ![r] = Holding(c, made + 1, removals[c])]
    /\ mu' = Nobody
    /\ UNCHANGED removals

RemoveProvider(c) ==
    /\ mu = Nobody
    /\ instances' = [instances EXCEPT ![c] = 0]
    /\ removals' = [removals EXCEPT ![c] = @ + 1]
    /\ UNCHANGED <<mu, made, holds>>

-----------------------------------------------------------------------------
(* Two requests that get the provider of one configuration without a       *)
(* removal in between get the same one: there is no window between the     *)
(* look-up and the insertion in which two are made, of which one would go  *)
(* on unknown to RemoveProvider.                                           *)
SharedProvider ==
    \A r, q \in Requests :
       /\ holds[r].config = holds[q].config
       /\ holds[r].removed = holds[q].removed
       => holds[r].provider = holds[q].provider
=============================================================================
