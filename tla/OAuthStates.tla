------------------------------ MODULE OAuthStates ------------------------------
(***************************************************************************)
(* The OAuth states of CRMService: AmoCRMAuth saves one in the cache and   *)
(* in the database, AmoCRMCallback looks it up, uses its client's          *)
(* credentials and deletes it, two clean-ups remove what has expired.      *)
(* The cache holds a pointer to the object it was given, and               *)
(* Repository.SaveOAuthState encrypts that object in place.                *)
(***************************************************************************)
EXTENDS Naturals

CONSTANTS
    Auths,         (* requests POST /oauth/amocrm/auth                      *)
    Callbacks,     (* requests GET /oauth/amocrm/callback                   *)
    Keys,          (* values of the parameter state                         *)
    TTL,           (* ExpiresAt - CreatedAt                                 *)
    MaxTime,       (* bound on the clock                                    *)
    LastAuth,      (* no authorization begins after this time               *)
    MasterKey,     (* what MasterKeyResolver may report: subset of BOOLEAN  *)
    Faults,        (* what may go wrong: subset of {"database", "crypto",   *)
                   (*   "restart"}                                          *)
    None           (* no object, no row, no key                             *)

Requests == Auths \cup Callbacks

(* Fields of a state: who created it, when it expires, whether its         *)
(* client_id, client_secret, redirect_url and subdomain are encrypted.     *)
State == [grant : Auths, expires : Nat, cipher : BOOLEAN]

ASSUME OAuthAssumption ==
    /\ Auths \cap Callbacks = {}
    /\ None \notin Requests \cup Keys \cup State
    /\ TTL \in Nat /\ MaxTime \in Nat /\ LastAuth \in Nat
    /\ MasterKey \subseteq BOOLEAN

VARIABLES
    now,      (* the clock                                                  *)
    pc,       (* where each request is                                      *)
    key,      (* the state parameter each request carries                   *)
    obj,      (* the models.OAuthState object each request has created      *)
    cache,    (* per key, the request whose object the cache points to      *)
    row,      (* per key, the row of crm_oauth_states                       *)
    held,     (* the object a callback goes on with                         *)
    written   (* requests whose INSERT or DELETE has succeeded (history)    *)

vars == <<now, pc, key, obj, cache, row, held, written>>

AuthPlaces == {"idle", "encrypting", "saving", "answered", "dead"}
CallbackPlaces == {"idle", "reading", "caching", "exchanging", "deleting",
                   "deletingRow", "answered", "dead"}

TypeOK ==
    /\ now \in Nat
    /\ pc \in [Requests -> AuthPlaces \cup CallbackPlaces]
    /\ key \in [Requests -> Keys \cup {None}]
    /\ obj \in [Requests -> State \cup {None}]
    /\ cache \in [Keys -> Requests \cup {None}]
    /\ row \in [Keys -> State \cup {None}]
    /\ held \in [Callbacks -> Requests \cup {None}]
    /\ written \subseteq Requests
    /\ \A k \in Keys : cache[k] # None => obj[cache[k]] # None
    /\ \A c \in Callbacks : held[c] # None => obj[held[c]] # None

Init ==
    /\ now = 0
    /\ pc = [r \in Requests |-> "idle"]
    /\ key = [r \in Requests |-> None]
    /\ obj = [r \in Requests |-> None]
    /\ cache = [k \in Keys |-> None]
    /\ row = [k \in Keys |-> None]
    /\ held = [c \in Callbacks |-> None]
    /\ written = {}

-----------------------------------------------------------------------------
(* Helpers.                                                                *)

Goto(r, place) == pc' = [pc EXCEPT ![r] = place]

(* OAuthStateCache.Set: the cache keeps the pointer.                       *)
CacheSet(k, r) == cache' = [cache EXCEPT ![k] = r]

(* Defect: DeleteOAuthState forgets the cache.                             *)
CacheKept(k) == cache' = cache

(* OAuthStateCache.Delete.                                                 *)
CacheDelete(k) == cache' = [cache EXCEPT ![k] = None]

(* Defect: an entry is compared by its creation time.                      *)
CreatedBefore(s) == s.expires < now + TTL

(* Defect: only what expires in this very moment.                          *)
ExpiresNow(s) == s.expires = now

(* The condition of the DELETE in CleanupExpiredOAuthStates.               *)
ExpiredRow(s) == s.expires < now

(* The expiry OAuthStateCache.Get and its clean-up look at.                *)
ExpiredEntry(k) == now > obj[cache[k]].expires

-----------------------------------------------------------------------------
(* AmoCRMAuth.                                                             *)

(* It builds the object and puts it into the cache.  The key may be one    *)
(* that was used before: user and second, or what the client has chosen.   *)
BeginAuth(a, k) ==
    /\ pc[a] = "idle"
    /\ now <= LastAuth
    /\ key' = [key EXCEPT ![a] = k]
    /\ obj' = [obj EXCEPT ![a] =
                 [grant |-> a, expires |-> now + TTL, cipher |-> FALSE]]
    /\ CacheSet(k, a)
    /\ Goto(a, "encrypting")
    /\ UNCHANGED <<now, row, held, written>>

(* encryptOAuthStateFields writes into the same object.                    *)
Encrypt(a) ==
    /\ pc[a] = "encrypting"
    /\ \E available \in MasterKey : obj' = [obj EXCEPT ![a].cipher = available]
    /\ Goto(a, "saving")
    /\ UNCHANGED <<now, key, cache, row, held, written>>

(* An error after some or none of the fields; the service only logs it.    *)
EncryptFails(a) ==
    /\ pc[a] = "encrypting"
    /\ "crypto" \in Faults /\ TRUE \in MasterKey
    /\ \E some \in BOOLEAN : obj' = [obj EXCEPT ![a].cipher = some]
    /\ Goto(a, "answered")
    /\ UNCHANGED <<now, key, cache, row, held, written>>

(* INSERT ... ON DUPLICATE KEY UPDATE.                                     *)
SaveRow(a) ==
    /\ pc[a] = "saving"
    /\ row' = [row EXCEPT ![key[a]] = obj[a]]
    /\ written' = written \cup {a}
    /\ Goto(a, "answered")
    /\ UNCHANGED <<now, key, obj, cache, held>>

(* A database error is only logged: the state is in the cache.             *)
SaveRowFails(a) ==
    /\ pc[a] = "saving"
    /\ "database" \in Faults
    /\ Goto(a, "answered")
    /\ UNCHANGED <<now, key, obj, cache, row, held, written>>

-----------------------------------------------------------------------------
(* AmoCRMCallback.                                                         *)

(* OAuthStateCache.Get, for a key some authorization has answered.         *)
BeginCallback(c, k) ==
    /\ pc[c] = "idle"
    /\ \E a \in Auths : key[a] = k /\ pc[a] = "answered"
    /\ key' = [key EXCEPT ![c] = k]
    /\ IF cache[k] # None /\ ~ExpiredEntry(k)
         THEN held' = [held EXCEPT ![c] = cache[k]] /\ Goto(c, "exchanging")
         ELSE held' = held /\ Goto(c, "reading")
    /\ UNCHANGED <<now, obj, cache, row, written>>

(* Defect: the SELECT does not look at expires_at.                         *)
ReadAnyRow(c) ==
    /\ pc[c] = "reading"
    /\ row[key[c]] # None
    /\ obj' = [obj EXCEPT ![c] = row[key[c]]]
    /\ held' = [held EXCEPT ![c] = c]
    /\ Goto(c, "caching")
    /\ UNCHANGED <<now, key, cache, row, written>>

(* SELECT ... AND expires_at > NOW(), then decryptOAuthStateFields.        *)
ReadRow(c) ==
    /\ pc[c] = "reading"
    /\ row[key[c]] # None /\ row[key[c]].expires > now
    /\ \E available \in MasterKey :
         obj' = [obj EXCEPT ![c] =
                   [row[key[c]] EXCEPT !.cipher = @ /\ ~available]]
    /\ held' = [held EXCEPT ![c] = c]
    /\ Goto(c, "caching")
    /\ UNCHANGED <<now, key, cache, row, written>>

(* Defect: an error of the database does not end the lookup.               *)
ReadErrorIgnored(c) ==
    /\ pc[c] = "reading"
    /\ row[key[c]] = None
    /\ Goto(c, "caching")
    /\ UNCHANGED <<now, key, obj, cache, row, held, written>>

(* No row, an expired one, a failed query or a failed decryption.          *)
ReadRowFails(c) ==
    /\ pc[c] = "reading"
    /\ \/ row[key[c]] = None
       \/ row[key[c]] # None /\ row[key[c]].expires <= now
       \/ "database" \in Faults
       \/ row[key[c]] # None /\ row[key[c]].cipher /\ "crypto" \in Faults
    /\ Goto(c, "deleting")
    /\ UNCHANGED <<now, key, obj, cache, row, held, written>>

CacheRow(c) ==
    /\ pc[c] = "caching"
    /\ CacheSet(key[c], c)
    /\ Goto(c, "exchanging")
    /\ UNCHANGED <<now, key, obj, row, held, written>>

(* ExchangeAmoCRMCode and what follows it (TokenLifecycle, Callback), with *)
(* or without success; the deferred function comes next.                   *)
Exchange(c) ==
    /\ pc[c] = "exchanging"
    /\ Goto(c, "deleting")
    /\ UNCHANGED <<now, key, obj, cache, row, held, written>>

(* DeleteOAuthState, deferred before the lookup.                           *)
DeleteEntry(c) ==
    /\ pc[c] = "deleting"
    /\ CacheDelete(key[c])
    /\ Goto(c, "deletingRow")
    /\ UNCHANGED <<now, key, obj, row, held, written>>

DeleteRow(c) ==
    /\ pc[c] = "deletingRow"
    /\ row' = [row EXCEPT ![key[c]] = None]
    /\ written' = written \cup {c}
    /\ Goto(c, "answered")
    /\ UNCHANGED <<now, key, obj, cache, held>>

DeleteRowFails(c) ==
    /\ pc[c] = "deletingRow"
    /\ "database" \in Faults
    /\ Goto(c, "answered")
    /\ UNCHANGED <<now, key, obj, cache, row, held, written>>

-----------------------------------------------------------------------------
(* The background: the clean-ups, the clock and restarts.                  *)

(* OAuthStateCache.cleanupExpired, under the cache's lock.                 *)
CleanupCache ==
    /\ \E k \in Keys : cache[k] # None /\ ExpiredEntry(k)
    /\ cache' = [k \in Keys |-> IF cache[k] # None /\ ExpiredEntry(k)
                                THEN None ELSE cache[k]]
    /\ UNCHANGED <<now, pc, key, obj, row, held, written>>

(* StartOAuthStateCleanup: one DELETE statement; an error is only logged.  *)
CleanupRows ==
    /\ \E k \in Keys : row[k] # None /\ ExpiredRow(row[k])
    /\ row' = [k \in Keys |-> IF row[k] # None /\ ExpiredRow(row[k])
                              THEN None ELSE row[k]]
    /\ UNCHANGED <<now, pc, key, obj, cache, held, written>>

(* The process ends and starts again: its requests and its cache are lost. *)
Restart ==
    /\ "restart" \in Faults
    /\ cache' = [k \in Keys |-> None]
    /\ pc' = [r \in Requests |->
                IF pc[r] \in {"idle", "answered"} THEN pc[r] ELSE "dead"]
    /\ UNCHANGED <<now, key, obj, row, held, written>>

Tick ==
    /\ now < MaxTime
    /\ now' = now + 1
    /\ UNCHANGED <<pc, key, obj, cache, row, held, written>>

-----------------------------------------------------------------------------
(* The specification.                                                      *)

AuthStep(a) ==
    \/ \E k \in Keys : BeginAuth(a, k)
    \/ Encrypt(a)
    \/ EncryptFails(a)
    \/ SaveRow(a)
    \/ SaveRowFails(a)

CallbackStep(c) ==
    \/ \E k \in Keys : BeginCallback(c, k)
    \/ ReadRow(c)
    \/ ReadRowFails(c)
    \/ CacheRow(c)
    \/ Exchange(c)
    \/ DeleteEntry(c)
    \/ DeleteRow(c)
    \/ DeleteRowFails(c)

Next ==
    \/ \E a \in Auths : AuthStep(a)
    \/ \E c \in Callbacks : CallbackStep(c)
    \/ CleanupCache
    \/ CleanupRows
    \/ Restart
    \/ Tick

Spec == Init /\ [][Next]_vars

(* Requests that have begun go on, the clock advances and the tickers of   *)
(* the two clean-ups fire.                                                 *)
Fairness ==
    /\ \A a \in Auths : WF_vars(pc[a] # "idle" /\ AuthStep(a))
    /\ \A c \in Callbacks : WF_vars(pc[c] # "idle" /\ CallbackStep(c))
    /\ WF_vars(CleanupCache)
    /\ WF_vars(CleanupRows)
    /\ WF_vars(Tick)

FairSpec == Spec /\ Fairness

-----------------------------------------------------------------------------
(* Properties.                                                             *)

(* Whichever way a callback finds its state, cache or database, before or  *)
(* after a restart, it accepts it only in the TTL after the authorization  *)
(* that created it (GetOAuthState, and the answer of AmoCRMAuth).          *)
AcceptedInTime ==
    [][\A c \in Callbacks : held'[c] # held[c] =>
         now <= obj[obj'[held'[c]].grant].expires]_vars

(* Authorization a alone has used its key.                                 *)
OnlyAuth(a) == \A b \in Auths \ {a} : key[b] # key[a]

(* A state that AmoCRMAuth has written to the database stays there, over   *)
(* clean-ups and restarts, until it expires or a callback comes for it.    *)
SavedUntilExpiry ==
    \A a \in Auths \cap written :
      /\ OnlyAuth(a)
      /\ \A c \in Callbacks : key[c] # key[a]
      /\ now <= obj[a].expires
      => row[key[a]] # None /\ row[key[a]].grant = a

(* Once a callback has deleted the state of an authorization and no        *)
(* request works with it any more, the state is nowhere: a callback that   *)
(* read the row before the deletion puts it back into the cache, but then  *)
(* removes it again.                                                       *)
DeletedIsGone ==
    \A a \in Auths, c \in Callbacks \cap written :
      /\ OnlyAuth(a) /\ key[a] = key[c]
      /\ \A r \in Requests : key[r] = key[a] => pc[r] \in {"answered", "dead"}
      => cache[key[a]] = None /\ row[key[a]] = None

(* What has expired is finally forgotten, in the cache and in the          *)
(* database (README: OAuth states are periodically cleaned up).            *)
StatesForgotten ==
    <>[](\A k \in Keys : cache[k] = None /\ row[k] = None)

(* The client's credentials that a callback sends to amoCRM are not        *)
(* encrypted (README: OAuth authorization, callback, and token refresh).   *)
ExchangeSendsPlain ==
    \A c \in Callbacks : pc[c] = "exchanging" => ~obj[held[c]].cipher
=============================================================================
