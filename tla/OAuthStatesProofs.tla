--------------------------- MODULE OAuthStatesProofs ---------------------------
(***************************************************************************)
(* Proofs about OAuthStates for any sets of requests and keys, any TTL and *)
(* any faults.                                                             *)
(***************************************************************************)
EXTENDS OAuthStates, TLAPS

(* What a request has at each of its places.                               *)
Places ==
    /\ \A a \in Auths : pc[a] = "idle" => obj[a] = None
    /\ \A a \in Auths : pc[a] # "idle" => obj[a] # None
    /\ \A c \in Callbacks : pc[c] = "caching" => obj[c] # None
    /\ \A r \in Requests : pc[r] # "idle" => key[r] \in Keys

(* A copy s of a state goes back to the object of its authorization and    *)
(* has that object's expiry.                                               *)
Genuine(s) == obj[s.grant] # None /\ s.expires = obj[s.grant].expires

(* All copies are genuine, and an authorization's own object names it.     *)
ObjectsGenuine == \A r \in Requests : obj[r] # None => Genuine(obj[r])
RowsGenuine == \A k \in Keys : row[k] # None => Genuine(row[k])
OwnGrant == \A a \in Auths : obj[a] # None => obj[a].grant = a
Provenance == ObjectsGenuine /\ RowsGenuine /\ OwnGrant

Inv == TypeOK /\ Places /\ Provenance

-----------------------------------------------------------------------------
(* Lemmas about single assignments.                                        *)

(* None is neither a request nor a key nor a state.                        *)
LEMMA NoneIsNothing ==
    /\ None \notin Requests /\ None \notin Keys /\ None \notin State
    /\ Auths \subseteq Requests /\ Callbacks \subseteq Requests
    /\ Requests = Auths \cup Callbacks
    /\ Auths \cap Callbacks = {}
BY OAuthAssumption DEF Requests

(* A request moves to a place.                                             *)
LEMMA GotoTyped ==
    ASSUME TypeOK, NEW r \in Requests,
           NEW place \in AuthPlaces \cup CallbackPlaces, Goto(r, place)
    PROVE  /\ pc' \in [Requests -> AuthPlaces \cup CallbackPlaces]
           /\ pc'[r] = place
           /\ \A q \in Requests \ {r} : pc'[q] = pc[q]
BY DEF TypeOK, Goto

(* The steps that create or change no object, and write no row, leave      *)
(* every copy genuine.                                                     *)
LEMMA NothingNew ==
    ASSUME Provenance, obj' = obj,
           \A k \in Keys : row'[k] = row[k] \/ row'[k] = None
    PROVE  Provenance'
<1>1. ObjectsGenuine'
  BY DEF Provenance, ObjectsGenuine, Genuine
<1>2. RowsGenuine'
  BY DEF Provenance, RowsGenuine, Genuine
<1>3. OwnGrant'
  BY DEF Provenance, OwnGrant
<1> QED  BY <1>1, <1>2, <1>3 DEF Provenance

(* A request that moves on, without a new object, keeps what the others    *)
(* have at their places.                                                   *)
LEMMA MovesOn ==
    ASSUME TypeOK, Places, NEW r \in Requests,
           NEW place \in AuthPlaces \cup CallbackPlaces, Goto(r, place),
           place # "idle", obj' = obj, key' = key, key[r] \in Keys,
           r \in Auths => obj[r] # None,
           r \in Callbacks /\ place = "caching" => obj[r] # None
    PROVE  Places'
<1>1. /\ pc'[r] = place
      /\ \A q \in Requests \ {r} : pc'[q] = pc[q]
  BY GotoTyped
<1> QED  BY <1>1, NoneIsNothing DEF Places

-----------------------------------------------------------------------------
(* The invariant.                                                          *)

(* The initial states satisfy it.                                          *)
LEMMA InitInv == Init => Inv
<1> SUFFICES ASSUME Init PROVE Inv
  OBVIOUS
<1>1. TypeOK
  BY NoneIsNothing DEF Init, TypeOK, AuthPlaces
<1>2. Places
  BY NoneIsNothing DEF Init, Places
<1>3. Provenance
  BY NoneIsNothing DEF Init, Provenance, ObjectsGenuine, RowsGenuine, OwnGrant
<1> QED  BY <1>1, <1>2, <1>3 DEF Inv

(* AmoCRMAuth's first step.                                                *)
LEMMA BeginAuthInv ==
    ASSUME Inv, NEW a \in Auths, NEW k \in Keys, BeginAuth(a, k)
    PROVE  Inv'
<1> USE NoneIsNothing
<1> DEFINE new == [grant |-> a, expires |-> now + TTL, cipher |-> FALSE]
<1>1. TypeOK /\ Places /\ Provenance  BY DEF Inv
<1>2. new \in State /\ new # None
  <2>1. now + TTL \in Nat
    BY <1>1, OAuthAssumption DEF TypeOK
  <2>2. new \in State
    BY <2>1 DEF State
  <2> QED  BY <2>2
<1>3. /\ obj[a] = None /\ obj' = [obj EXCEPT ![a] = new]
      /\ key' = [key EXCEPT ![a] = k] /\ cache' = [cache EXCEPT ![k] = a]
      /\ Goto(a, "encrypting")
      /\ UNCHANGED <<now, row, held, written>>
  BY <1>1 DEF BeginAuth, Places, CacheSet
<1> HIDE DEF new
<1>4. obj'[a] = new /\ \A r \in Requests \ {a} : obj'[r] = obj[r]
  BY <1>1, <1>3 DEF TypeOK
<1>5. pc' \in [Requests -> AuthPlaces \cup CallbackPlaces] /\ pc'[a] = "encrypting"
      /\ \A q \in Requests \ {a} : pc'[q] = pc[q]
  BY <1>1, <1>3, GotoTyped DEF AuthPlaces
<1>6. \A r \in Requests : obj[r] # None => r # a /\ obj'[r] = obj[r]
  BY <1>3, <1>4
<1>7. TypeOK'
  <2>1. obj' \in [Requests -> State \cup {None}]
    BY <1>1, <1>2, <1>3 DEF TypeOK
  <2>2. key' \in [Requests -> Keys \cup {None}] /\ cache' \in [Keys -> Requests \cup {None}]
    BY <1>1, <1>3 DEF TypeOK
  <2>3. \A j \in Keys : cache'[j] # None => obj'[cache'[j]] # None
    BY <1>1, <1>2, <1>3, <1>4, <1>6 DEF TypeOK
  <2>4. \A c \in Callbacks : held'[c] # None => obj'[held'[c]] # None
    BY <1>1, <1>3, <1>6 DEF TypeOK
  <2> QED  BY <1>1, <1>3, <1>5, <2>1, <2>2, <2>3, <2>4 DEF TypeOK
<1>8. Places'
  <2>1. key'[a] = k /\ \A q \in Requests \ {a} : key'[q] = key[q]
    BY <1>1, <1>3 DEF TypeOK
  <2> QED  BY <1>1, <1>2, <1>4, <1>5, <2>1 DEF Places
<1>9. Provenance'
  <2>1. new.grant = a
    BY DEF new
  <2>2. ObjectsGenuine'
    <3> SUFFICES ASSUME NEW r \in Requests, obj'[r] # None
                 PROVE  /\ obj'[obj'[r].grant] # None
                        /\ obj'[r].expires = obj'[obj'[r].grant].expires
      BY DEF ObjectsGenuine, Genuine
    <3>1. CASE r = a
      BY <1>2, <1>4, <2>1, <3>1
    <3>2. CASE r # a
      <4>1. obj'[r] = obj[r] /\ obj[r] \in State /\ obj[r].grant \in Requests
        BY <1>1, <1>4, <3>2 DEF TypeOK, State
      <4>2. Genuine(obj[r])
        BY <1>1, <4>1 DEF Provenance, ObjectsGenuine
      <4> QED  BY <1>6, <4>1, <4>2 DEF Genuine
    <3> QED  BY <3>1, <3>2
  <2>3. RowsGenuine'
    <3> SUFFICES ASSUME NEW j \in Keys, row[j] # None
                 PROVE  /\ obj'[row[j].grant] # None
                        /\ row[j].expires = obj'[row[j].grant].expires
      BY <1>3 DEF RowsGenuine, Genuine
    <3>1. Genuine(row[j]) /\ row[j].grant \in Requests
      BY <1>1 DEF TypeOK, State, Provenance, RowsGenuine
    <3> QED  BY <1>6, <3>1 DEF Genuine
  <2>4. OwnGrant'
    BY <1>1, <1>4, <2>1 DEF Provenance, OwnGrant
  <2> QED  BY <2>2, <2>3, <2>4 DEF Provenance
<1> QED  BY <1>7, <1>8, <1>9 DEF Inv

(* encryptOAuthStateFields, with or without an error: only cipher changes. *)
LEMMA EncryptInv ==
    ASSUME Inv, NEW a \in Auths, Encrypt(a) \/ EncryptFails(a)
    PROVE  Inv'
<1> USE NoneIsNothing
<1>1. TypeOK /\ Places /\ Provenance  BY DEF Inv
<1>2. PICK some \in BOOLEAN : obj' = [obj EXCEPT ![a].cipher = some]
  BY OAuthAssumption DEF Encrypt, EncryptFails
<1>3. PICK place \in {"saving", "answered"} : Goto(a, place)
  BY DEF Encrypt, EncryptFails
<1>4. UNCHANGED <<now, key, cache, row, held, written>> /\ pc[a] = "encrypting"
  BY DEF Encrypt, EncryptFails
<1> DEFINE new == [obj[a] EXCEPT !.cipher = some]
<1>5. obj[a] \in State /\ key[a] \in Keys
  BY <1>1, <1>4 DEF TypeOK, Places
<1>6. /\ new \in State /\ new # None
      /\ new.grant = obj[a].grant /\ new.expires = obj[a].expires
  BY <1>5 DEF State
<1>7. obj' = [obj EXCEPT ![a] = new]
  BY <1>2
<1> HIDE DEF new
<1>8. obj'[a] = new /\ \A r \in Requests \ {a} : obj'[r] = obj[r]
  BY <1>1, <1>7 DEF TypeOK
<1>9. /\ \A r \in Requests : (obj'[r] = None) <=> (obj[r] = None)
      /\ \A r \in Requests : obj[r] # None =>
            /\ obj'[r].grant = obj[r].grant
            /\ obj'[r].expires = obj[r].expires
  BY <1>5, <1>6, <1>8
<1>10. /\ pc' \in [Requests -> AuthPlaces \cup CallbackPlaces] /\ pc'[a] = place
       /\ \A q \in Requests \ {a} : pc'[q] = pc[q]
  BY <1>1, <1>3, GotoTyped DEF AuthPlaces
<1>11. TypeOK'
  <2>1. obj' \in [Requests -> State \cup {None}]
    BY <1>1, <1>6, <1>7 DEF TypeOK
  <2>2. /\ \A j \in Keys : cache'[j] # None => obj'[cache'[j]] # None
        /\ \A c \in Callbacks : held'[c] # None => obj'[held'[c]] # None
    BY <1>1, <1>4, <1>9 DEF TypeOK
  <2> QED  BY <1>1, <1>4, <1>10, <2>1, <2>2 DEF TypeOK
<1>12. Places'
  BY <1>1, <1>3, <1>4, <1>5, <1>9, <1>10 DEF Places
<1>13. Provenance'
  <2>1. \A s \in State : s.grant \in Requests
    BY DEF State
  <2>2. ObjectsGenuine'
    BY <1>1, <1>9, <2>1 DEF TypeOK, Provenance, ObjectsGenuine, Genuine
  <2>3. RowsGenuine'
    BY <1>1, <1>4, <1>9, <2>1 DEF TypeOK, Provenance, RowsGenuine, Genuine
  <2>4. OwnGrant'
    BY <1>1, <1>9 DEF Provenance, OwnGrant
  <2> QED  BY <2>2, <2>3, <2>4 DEF Provenance
<1> QED  BY <1>11, <1>12, <1>13 DEF Inv

(* The row of a callback becomes its object.                               *)
LEMMA ReadRowInv ==
    ASSUME Inv, NEW c \in Callbacks, ReadRow(c)
    PROVE  Inv'
<1> USE NoneIsNothing
<1>1. TypeOK /\ Places /\ Provenance  BY DEF Inv
<1>2. PICK available \in BOOLEAN :
        obj' = [obj EXCEPT ![c] = [row[key[c]] EXCEPT !.cipher = @ /\ ~available]]
  BY OAuthAssumption DEF ReadRow
<1>3. /\ pc[c] = "reading" /\ row[key[c]] # None
      /\ held' = [held EXCEPT ![c] = c] /\ Goto(c, "caching")
      /\ UNCHANGED <<now, key, cache, row, written>>
  BY DEF ReadRow
<1> DEFINE new == [row[key[c]] EXCEPT !.cipher = @ /\ ~available]
<1>4. key[c] \in Keys /\ row[key[c]] \in State
  BY <1>1, <1>3 DEF TypeOK, Places
<1>5. row[key[c]].cipher \in BOOLEAN /\ (row[key[c]].cipher /\ ~available) \in BOOLEAN
  BY <1>4 DEF State
<1>6. /\ new \in State /\ new # None
      /\ new.grant = row[key[c]].grant /\ new.expires = row[key[c]].expires
  BY <1>4, <1>5 DEF State
<1>7. obj' = [obj EXCEPT ![c] = new]
  BY <1>2
<1> HIDE DEF new
<1>8. obj'[c] = new /\ \A r \in Requests \ {c} : obj'[r] = obj[r]
  BY <1>1, <1>7 DEF TypeOK
<1>9. /\ pc' \in [Requests -> AuthPlaces \cup CallbackPlaces] /\ pc'[c] = "caching"
      /\ \A q \in Requests \ {c} : pc'[q] = pc[q]
  BY <1>1, <1>3, GotoTyped DEF CallbackPlaces
<1>10. \A a \in Auths : obj'[a] = obj[a]
  BY <1>8
<1>11. TypeOK'
  <2>1. obj' \in [Requests -> State \cup {None}]
    BY <1>1, <1>6, <1>7 DEF TypeOK
  <2>2. held' \in [Callbacks -> Requests \cup {None}]
    BY <1>1, <1>3 DEF TypeOK
  <2>3. \A j \in Keys : cache'[j] # None => obj'[cache'[j]] # None
    BY <1>1, <1>3, <1>6, <1>8 DEF TypeOK
  <2>4. \A d \in Callbacks : held'[d] # None => obj'[held'[d]] # None
    BY <1>1, <1>3, <1>6, <1>8 DEF TypeOK
  <2> QED  BY <1>1, <1>3, <1>9, <2>1, <2>2, <2>3, <2>4 DEF TypeOK
<1>12. Places'
  BY <1>1, <1>3, <1>4, <1>6, <1>8, <1>9 DEF Places
<1>13. Provenance'
  <2>1. \A s \in State : s.grant \in Auths
    BY DEF State
  <2>2. \A s \in State : Genuine(s) <=> obj'[s.grant] # None /\ s.expires = obj'[s.grant].expires
    BY <1>10, <2>1 DEF Genuine
  <2>3. Genuine(new)
    BY <1>1, <1>3, <1>4, <1>6 DEF Provenance, RowsGenuine, Genuine
  <2>4. \A r \in Requests : obj'[r] # None => obj'[r] \in State /\ Genuine(obj'[r])
    BY <1>1, <1>6, <1>8, <2>3 DEF TypeOK, Provenance, ObjectsGenuine
  <2>5. ObjectsGenuine'
    BY <2>2, <2>4 DEF ObjectsGenuine, Genuine
  <2>6. RowsGenuine'
    BY <1>1, <1>3, <2>2 DEF TypeOK, Provenance, RowsGenuine, Genuine
  <2>7. OwnGrant'
    BY <1>1, <1>10 DEF Provenance, OwnGrant
  <2> QED  BY <2>5, <2>6, <2>7 DEF Provenance
<1> QED  BY <1>11, <1>12, <1>13 DEF Inv

(* The other steps of AmoCRMAuth.                                          *)
LEMMA SaveRowInv ==
    ASSUME Inv, NEW a \in Auths, SaveRow(a) \/ SaveRowFails(a)
    PROVE  Inv'
<1> USE NoneIsNothing
<1>1. TypeOK /\ Places /\ Provenance  BY DEF Inv
<1>2. /\ pc[a] = "saving" /\ Goto(a, "answered")
      /\ UNCHANGED <<now, key, obj, cache, held>>
      /\ written' = written \/ written' = written \cup {a}
      /\ row' = row \/ row' = [row EXCEPT ![key[a]] = obj[a]]
  BY DEF SaveRow, SaveRowFails
<1>3. key[a] \in Keys /\ obj[a] \in State
  BY <1>1, <1>2 DEF TypeOK, Places
<1>4. pc' \in [Requests -> AuthPlaces \cup CallbackPlaces]
  BY <1>1, <1>2, GotoTyped DEF AuthPlaces
<1>5. \A k \in Keys : row'[k] = row[k] \/ row'[k] = obj[a]
  BY <1>1, <1>2 DEF TypeOK
<1>6. TypeOK'
  <2>1. row' \in [Keys -> State \cup {None}]
    BY <1>1, <1>2, <1>3 DEF TypeOK
  <2>2. written' \subseteq Requests
    BY <1>1, <1>2 DEF TypeOK
  <2> QED  BY <1>1, <1>2, <1>4, <2>1, <2>2 DEF TypeOK
<1>7. Places'
  BY <1>1, <1>2, <1>3, MovesOn DEF AuthPlaces
<1>8. Provenance'
  <2>1. Genuine(obj[a])
    BY <1>1, <1>3 DEF Provenance, ObjectsGenuine
  <2>2. RowsGenuine'
    BY <1>1, <1>2, <1>5, <2>1 DEF Provenance, RowsGenuine, Genuine
  <2>3. ObjectsGenuine' /\ OwnGrant'
    BY <1>1, <1>2 DEF Provenance, ObjectsGenuine, OwnGrant, Genuine
  <2> QED  BY <2>2, <2>3 DEF Provenance
<1> QED  BY <1>6, <1>7, <1>8 DEF Inv

(* A callback begins.                                                      *)
LEMMA BeginCallbackInv ==
    ASSUME Inv, NEW c \in Callbacks, NEW k \in Keys, BeginCallback(c, k)
    PROVE  Inv'
<1> USE NoneIsNothing
<1>1. TypeOK /\ Places /\ Provenance  BY DEF Inv
<1>2. /\ pc[c] = "idle" /\ key' = [key EXCEPT ![c] = k]
      /\ UNCHANGED <<now, obj, cache, row, written>>
      /\ \/ held' = held /\ Goto(c, "reading")
         \/ cache[k] # None /\ held' = [held EXCEPT ![c] = cache[k]]
              /\ Goto(c, "exchanging")
  BY DEF BeginCallback
<1>3. PICK place \in {"reading", "exchanging"} : Goto(c, place)
  BY <1>2
<1>4. /\ pc' \in [Requests -> AuthPlaces \cup CallbackPlaces] /\ pc'[c] = place
      /\ \A q \in Requests \ {c} : pc'[q] = pc[q]
  BY <1>1, <1>3, GotoTyped DEF CallbackPlaces
<1>5. key'[c] = k /\ \A q \in Requests \ {c} : key'[q] = key[q]
  BY <1>1, <1>2 DEF TypeOK
<1>6. TypeOK'
  <2>1. key' \in [Requests -> Keys \cup {None}]
    BY <1>1, <1>2 DEF TypeOK
  <2>2. CASE held' = held
    BY <1>1, <1>2, <1>4, <2>1, <2>2 DEF TypeOK
  <2>3. CASE cache[k] # None /\ held' = [held EXCEPT ![c] = cache[k]]
    <3>1. held' \in [Callbacks -> Requests \cup {None}]
      BY <1>1, <2>3 DEF TypeOK
    <3>2. \A d \in Callbacks : held'[d] # None => obj[held'[d]] # None
      BY <1>1, <2>3 DEF TypeOK
    <3> QED  BY <1>1, <1>2, <1>4, <2>1, <3>1, <3>2 DEF TypeOK
  <2> QED  BY <1>2, <2>2, <2>3
<1>7. Places'
  BY <1>1, <1>2, <1>4, <1>5 DEF Places
<1>8. Provenance'
  BY <1>1, <1>2, NothingNew
<1> QED  BY <1>6, <1>7, <1>8 DEF Inv

(* The steps of a callback that create no object and hold no new one.      *)
LEMMA CallbackGoesOn ==
    ASSUME Inv, NEW c \in Callbacks,
           \/ ReadRowFails(c) \/ CacheRow(c) \/ Exchange(c)
           \/ DeleteEntry(c) \/ DeleteRow(c) \/ DeleteRowFails(c)
    PROVE  Inv'
<1> USE NoneIsNothing
<1>1. TypeOK /\ Places /\ Provenance  BY DEF Inv
<1>2. /\ pc[c] # "idle"
      /\ UNCHANGED <<now, key, obj, held>>
      /\ written' = written \/ written' = written \cup {c}
      /\ row' = row \/ row' = [row EXCEPT ![key[c]] = None]
  BY DEF ReadRowFails, CacheRow, Exchange, DeleteEntry, DeleteRow, DeleteRowFails
<1>3. \/ cache' = cache
      \/ cache' = [cache EXCEPT ![key[c]] = None]
      \/ pc[c] = "caching" /\ cache' = [cache EXCEPT ![key[c]] = c]
  BY DEF ReadRowFails, CacheRow, Exchange, DeleteEntry, DeleteRow, DeleteRowFails,
         CacheSet, CacheDelete
<1>4. PICK place \in {"deleting", "exchanging", "deletingRow", "answered"} :
        Goto(c, place)
  BY DEF ReadRowFails, CacheRow, Exchange, DeleteEntry, DeleteRow, DeleteRowFails
<1>5. key[c] \in Keys
  BY <1>1, <1>2 DEF Places
<1>6. pc' \in [Requests -> AuthPlaces \cup CallbackPlaces]
  BY <1>1, <1>4, GotoTyped DEF CallbackPlaces
<1>7. TypeOK'
  <2>1. row' \in [Keys -> State \cup {None}] /\ written' \subseteq Requests
    BY <1>1, <1>2 DEF TypeOK
  <2>2. cache' \in [Keys -> Requests \cup {None}]
    BY <1>1, <1>3 DEF TypeOK
  <2>3. pc[c] = "caching" => obj[c] # None
    BY <1>1 DEF Places
  <2>4. \A j \in Keys : cache'[j] # None => obj[cache'[j]] # None
    BY <1>1, <1>3, <2>3 DEF TypeOK
  <2> QED  BY <1>1, <1>2, <1>6, <2>1, <2>2, <2>4 DEF TypeOK
<1>8. Places'
  BY <1>1, <1>2, <1>4, <1>5, MovesOn DEF CallbackPlaces
<1>9. Provenance'
  <2>1. \A k \in Keys : row'[k] = row[k] \/ row'[k] = None
    BY <1>1, <1>2 DEF TypeOK
  <2> QED  BY <1>1, <1>2, <2>1, NothingNew
<1> QED  BY <1>7, <1>8, <1>9 DEF Inv

(* The clean-ups, the clock and restarts.                                  *)
LEMMA BackgroundInv ==
    ASSUME Inv, CleanupCache \/ CleanupRows \/ Restart \/ Tick \/ UNCHANGED vars
    PROVE  Inv'
<1> USE NoneIsNothing
<1>1. TypeOK /\ Places /\ Provenance  BY DEF Inv
<1>2. /\ UNCHANGED <<key, obj, held, written>>
      /\ now' = now \/ now' = now + 1
  BY DEF CleanupCache, CleanupRows, Restart, Tick, vars
<1>3. /\ pc' \in [Requests -> AuthPlaces \cup CallbackPlaces]
      /\ \A r \in Requests : pc'[r] = pc[r] \/ (pc[r] # "idle" /\ pc'[r] = "dead")
  <2>1. CASE pc' = pc
    BY <1>1, <2>1 DEF TypeOK
  <2>2. CASE Restart
    <3>1. pc' = [r \in Requests |->
                   IF pc[r] \in {"idle", "answered"} THEN pc[r] ELSE "dead"]
      BY <2>2 DEF Restart
    <3> QED  BY <1>1, <3>1 DEF TypeOK, AuthPlaces
  <2> QED  BY <2>1, <2>2 DEF CleanupCache, CleanupRows, Tick, vars
<1>4. /\ cache' \in [Keys -> Requests \cup {None}]
      /\ \A k \in Keys : cache'[k] = cache[k] \/ cache'[k] = None
  <2>1. CASE cache' = cache
    BY <1>1, <2>1 DEF TypeOK
  <2>2. CASE cache' = [k \in Keys |-> None]
    BY <2>2
  <2>3. CASE CleanupCache
    <3>1. cache' = [k \in Keys |-> IF cache[k] # None /\ ExpiredEntry(k)
                                  THEN None ELSE cache[k]]
      BY <2>3 DEF CleanupCache
    <3> QED  BY <1>1, <3>1 DEF TypeOK
  <2> QED  BY <2>1, <2>2, <2>3 DEF CleanupRows, Restart, Tick, vars
<1>5. /\ row' \in [Keys -> State \cup {None}]
      /\ \A k \in Keys : row'[k] = row[k] \/ row'[k] = None
  <2>1. CASE row' = row
    BY <1>1, <2>1 DEF TypeOK
  <2>2. CASE CleanupRows
    <3>1. row' = [k \in Keys |-> IF row[k] # None /\ ExpiredRow(row[k])
                                THEN None ELSE row[k]]
      BY <2>2 DEF CleanupRows
    <3> QED  BY <1>1, <3>1 DEF TypeOK
  <2> QED  BY <2>1, <2>2 DEF CleanupCache, Restart, Tick, vars
<1>6. TypeOK'
  <2>1. now' \in Nat
    BY <1>1, <1>2 DEF TypeOK
  <2>2. \A j \in Keys : cache'[j] # None => obj'[cache'[j]] # None
    BY <1>1, <1>2, <1>4 DEF TypeOK
  <2> QED  BY <1>1, <1>2, <1>3, <1>4, <1>5, <2>1, <2>2 DEF TypeOK
<1>7. Places'
  BY <1>1, <1>2, <1>3 DEF Places
<1>8. Provenance'
  BY <1>1, <1>2, <1>5, NothingNew
<1> QED  BY <1>6, <1>7, <1>8 DEF Inv

(* The invariant holds in every reachable state.                           *)
LEMMA InvHolds == Spec => []Inv
<1>1. Inv /\ [Next]_vars => Inv'
  <2> SUFFICES ASSUME Inv, [Next]_vars PROVE Inv'
    OBVIOUS
  <2>1. ASSUME NEW a \in Auths, AuthStep(a) PROVE Inv'
    BY <2>1, BeginAuthInv, EncryptInv, SaveRowInv DEF AuthStep
  <2>2. ASSUME NEW c \in Callbacks, CallbackStep(c) PROVE Inv'
    BY <2>2, BeginCallbackInv, ReadRowInv, CallbackGoesOn DEF CallbackStep
  <2> QED  BY <2>1, <2>2, BackgroundInv DEF Next
<1> QED  BY <1>1, InitInv, PTL DEF Spec

-----------------------------------------------------------------------------
(* The theorems.                                                           *)

(* Every variable keeps its type and no pointer of the cache or of a       *)
(* callback leads nowhere, for any requests, keys, TTL and faults.         *)
THEOREM TypeCorrect == Spec => []TypeOK
<1>1. Inv => TypeOK
  BY DEF Inv
<1> QED  BY <1>1, InvHolds, PTL

(* A callback accepts a state only in the TTL after the authorization that *)
(* created it, whichever copies, restarts and failures lie in between.     *)
THEOREM AcceptanceInTime == Spec => AcceptedInTime
<1>1. Inv /\ Inv' /\ [Next]_vars
        => [\A c \in Callbacks : held'[c] # held[c] =>
              now <= obj[obj'[held'[c]].grant].expires]_vars
  <2> SUFFICES ASSUME Inv, Inv', [Next]_vars,
                      NEW c \in Callbacks, held'[c] # held[c]
               PROVE  now <= obj[obj'[held'[c]].grant].expires
    OBVIOUS
  <2> USE NoneIsNothing
  <2>1. TypeOK /\ Places /\ Provenance  BY DEF Inv
  <2>2. PICK d \in Callbacks : ReadRow(d) \/ \E k \in Keys : BeginCallback(d, k)
    BY DEF Next, AuthStep, CallbackStep, BeginAuth, Encrypt, EncryptFails, SaveRow,
           SaveRowFails, ReadRowFails, CacheRow, Exchange, DeleteEntry, DeleteRow,
           DeleteRowFails, CleanupCache, CleanupRows, Restart, Tick, vars
  <2>3. CASE ReadRow(d)
    <3>1. held' = [held EXCEPT ![d] = d] /\ pc[d] = "reading"
          /\ row[key[d]] # None /\ row[key[d]].expires > now
      BY <2>3 DEF ReadRow
    <3>2. d = c /\ held'[c] = c
      BY <2>1, <3>1 DEF TypeOK
    <3>3. key[c] \in Keys /\ row[key[c]] \in State
      BY <2>1, <3>1, <3>2 DEF TypeOK, Places
    <3>4. PICK available \in MasterKey :
            obj'[c] = [row[key[c]] EXCEPT !.cipher = @ /\ ~available]
      BY <2>1, <2>3, <3>2 DEF ReadRow, TypeOK
    <3>5. obj'[c].grant = row[key[c]].grant
      BY <3>3, <3>4 DEF State
    <3>6. row[key[c]].expires = obj[row[key[c]].grant].expires
      BY <2>1, <3>1, <3>2, <3>3 DEF Provenance, RowsGenuine, Genuine
    <3>7. row[key[c]].expires \in Nat /\ now \in Nat
      BY <2>1, <3>3 DEF State, TypeOK
    <3> QED  BY <3>1, <3>2, <3>5, <3>6, <3>7
  <2>4. CASE \E k \in Keys : BeginCallback(d, k)
    <3>1. PICK k \in Keys : BeginCallback(d, k)
      BY <2>4
    <3>2. cache[k] # None /\ ~ExpiredEntry(k) /\ held' = [held EXCEPT ![d] = cache[k]]
          /\ obj' = obj
      BY <2>1, <3>1 DEF BeginCallback, TypeOK
    <3>3. d = c /\ held'[c] = cache[k] /\ cache[k] \in Requests
      BY <2>1, <3>2 DEF TypeOK
    <3>4. obj[cache[k]] # None /\ obj[cache[k]] \in State
      BY <2>1, <3>2, <3>3 DEF TypeOK
    <3>5. obj[cache[k]].expires = obj[obj[cache[k]].grant].expires
      BY <2>1, <3>3, <3>4 DEF Provenance, ObjectsGenuine, Genuine
    <3>6. obj[cache[k]].expires \in Nat /\ now \in Nat
      BY <2>1, <3>4 DEF State, TypeOK
    <3>7. now <= obj[cache[k]].expires
      BY <3>2, <3>6 DEF ExpiredEntry
    <3> QED  BY <3>2, <3>3, <3>5, <3>7
  <2> QED  BY <2>2, <2>3, <2>4
<1> QED  BY <1>1, InvHolds, PTL DEF Spec, AcceptedInTime

-----------------------------------------------------------------------------
(* What happens to the state of one authorization.                         *)

(* A request has a key once it has begun, a callback only one that an      *)
(* authorization has answered, and a request writes in its last step.      *)
KeyDiscipline ==
    /\ \A r \in Requests : pc[r] = "idle" => key[r] = None
    /\ \A r \in written : pc[r] = "answered"
    /\ \A c \in Callbacks : pc[c] # "idle" =>
         \E a \in Auths : key[a] = key[c] /\ pc[a] = "answered"

(* Somebody who will still remove the entry of key k from the cache.       *)
WillClear(k) == \E d \in Callbacks : key[d] = k /\ pc[d] \in {"exchanging", "deleting"}

(* After a callback has removed the entry, and after it has deleted the    *)
(* row.                                                                    *)
DeletionLasts ==
    \A a \in Auths, c \in Callbacks :
      OnlyAuth(a) /\ key[a] = key[c] =>
        /\ pc[c] = "deletingRow" \/ c \in written
             => cache[key[a]] = None \/ WillClear(key[a])
        /\ c \in written => row[key[a]] = None

(* A step lets a request begin, in its role, or changes no key.            *)
LEMMA KeysOnceGiven ==
    ASSUME Inv, KeyDiscipline, [Next]_vars
    PROVE  /\ \A r \in Requests : pc[r] # "idle" => key'[r] = key[r] /\ pc'[r] # "idle"
           /\ \A r \in Requests : key'[r] # key[r] => pc[r] = "idle" /\ pc'[r] # "idle"
           /\ \A r \in Requests : pc[r] = "answered" => pc'[r] = "answered"
<1> USE NoneIsNothing
<1>1. TypeOK  BY DEF Inv
<1>2. ASSUME NEW a \in Auths, NEW k \in Keys, BeginAuth(a, k)
      PROVE  /\ pc[a] = "idle" /\ pc'[a] # "idle"
             /\ \A r \in Requests \ {a} : key'[r] = key[r] /\ pc'[r] = pc[r]
  BY <1>1, <1>2 DEF BeginAuth, Goto, TypeOK
<1>3. ASSUME NEW c \in Callbacks, NEW k \in Keys, BeginCallback(c, k)
      PROVE  /\ pc[c] = "idle" /\ pc'[c] # "idle"
             /\ \A r \in Requests \ {c} : key'[r] = key[r] /\ pc'[r] = pc[r]
  BY <1>1, <1>3 DEF BeginCallback, Goto, TypeOK
<1>4. ASSUME NEW a \in Auths,
             Encrypt(a) \/ EncryptFails(a) \/ SaveRow(a) \/ SaveRowFails(a)
      PROVE  /\ key' = key /\ pc[a] \notin {"idle", "answered"} /\ pc'[a] # "idle"
             /\ \A r \in Requests \ {a} : pc'[r] = pc[r]
  BY <1>1, <1>4 DEF Encrypt, EncryptFails, SaveRow, SaveRowFails, Goto, TypeOK
<1>5. ASSUME NEW c \in Callbacks,
             \/ ReadRow(c) \/ ReadRowFails(c) \/ CacheRow(c) \/ Exchange(c)
             \/ DeleteEntry(c) \/ DeleteRow(c) \/ DeleteRowFails(c)
      PROVE  /\ key' = key /\ pc[c] \notin {"idle", "answered"} /\ pc'[c] # "idle"
             /\ \A r \in Requests \ {c} : pc'[r] = pc[r]
  BY <1>1, <1>5 DEF ReadRow, ReadRowFails, CacheRow, Exchange, DeleteEntry, DeleteRow,
                    DeleteRowFails, Goto, TypeOK
<1>6. ASSUME CleanupCache \/ CleanupRows \/ Tick \/ UNCHANGED vars
      PROVE  key' = key /\ pc' = pc
  BY <1>6 DEF CleanupCache, CleanupRows, Tick, vars
<1>7. ASSUME Restart
      PROVE  /\ key' = key
             /\ \A r \in Requests : pc[r] \in {"idle", "answered"} => pc'[r] = pc[r]
             /\ \A r \in Requests : pc[r] # "idle" => pc'[r] # "idle"
  BY <1>7 DEF Restart
<1>8. CASE \E a \in Auths : AuthStep(a)
  BY <1>2, <1>4, <1>8 DEF AuthStep
<1>9. CASE \E c \in Callbacks : CallbackStep(c)
  BY <1>3, <1>5, <1>9 DEF CallbackStep
<1> QED  BY <1>6, <1>7, <1>8, <1>9 DEF Next

(* Which steps write to the database, and who has written.                 *)
LEMMA Writers ==
    ASSUME Inv, [Next]_vars
    PROVE  /\ \A r \in written' : r \in written
                \/ (r \in Auths /\ SaveRow(r)) \/ (r \in Callbacks /\ DeleteRow(r))
           /\ \/ row' = row
              \/ \E a \in Auths : SaveRow(a)
              \/ \E c \in Callbacks : DeleteRow(c)
              \/ CleanupRows
BY DEF Next, AuthStep, CallbackStep, BeginAuth, Encrypt, EncryptFails, SaveRow,
       SaveRowFails, BeginCallback, ReadRow, ReadRowFails, CacheRow, Exchange,
       DeleteEntry, DeleteRow, DeleteRowFails, CleanupCache, CleanupRows, Restart,
       Tick, vars

(* The discipline of keys holds in every reachable state.                  *)
LEMMA KeyDisciplineHolds == Spec => []KeyDiscipline
<1> USE NoneIsNothing
<1>1. Init => KeyDiscipline
  BY DEF Init, KeyDiscipline
<1>2. Inv /\ Inv' /\ KeyDiscipline /\ [Next]_vars => KeyDiscipline'
  <2> SUFFICES ASSUME Inv, Inv', KeyDiscipline, [Next]_vars PROVE KeyDiscipline'
    OBVIOUS
  <2>1. \A r \in Requests : pc'[r] = "idle" => key'[r] = None
    BY KeysOnceGiven DEF KeyDiscipline
  <2>2. \A r \in written' : pc'[r] = "answered"
    <3> SUFFICES ASSUME NEW r \in written' PROVE pc'[r] = "answered"
      OBVIOUS
    <3>1. r \in Requests
      BY DEF Inv, TypeOK
    <3>2. CASE r \in written
      BY <3>1, <3>2, KeysOnceGiven DEF KeyDiscipline
    <3>3. CASE SaveRow(r) \/ DeleteRow(r)
      BY <3>1, <3>3 DEF SaveRow, DeleteRow, Goto, Inv, TypeOK
    <3> QED  BY <3>2, <3>3, Writers
  <2>3. \A c \in Callbacks : pc'[c] # "idle" =>
          \E a \in Auths : key'[a] = key'[c] /\ pc'[a] = "answered"
    <3> SUFFICES ASSUME NEW c \in Callbacks, pc'[c] # "idle"
                 PROVE  \E a \in Auths : key'[a] = key'[c] /\ pc'[a] = "answered"
      OBVIOUS
    <3>1. CASE pc[c] # "idle"
      BY <3>1, KeysOnceGiven DEF KeyDiscipline
    <3>2. CASE pc[c] = "idle"
      <4>1. PICK k \in Keys : BeginCallback(c, k)
        <5>1. TypeOK /\ TypeOK'  BY DEF Inv
        <5>2. ASSUME NEW a \in Auths, AuthStep(a) PROVE pc'[c] = pc[c]
          <6>1. a \in Requests /\ c \in Requests /\ a # c
            OBVIOUS
          <6>2. PICK place \in AuthPlaces : Goto(a, place)
            BY <5>2 DEF AuthStep, BeginAuth, Encrypt, EncryptFails, SaveRow,
                        SaveRowFails, AuthPlaces
          <6> QED  BY <5>1, <6>1, <6>2 DEF Goto, TypeOK
        <5>3. ASSUME NEW d \in Callbacks, d # c, CallbackStep(d) PROVE pc'[c] = pc[c]
          BY <5>1, <5>3 DEF CallbackStep, BeginCallback, ReadRow, ReadRowFails, CacheRow,
               Exchange, DeleteEntry, DeleteRow, DeleteRowFails, Goto, TypeOK
        <5>4. ASSUME Restart PROVE pc'[c] = pc[c]
          BY <3>2, <5>4 DEF Restart
        <5>5. ASSUME CleanupCache \/ CleanupRows \/ Tick \/ UNCHANGED vars
              PROVE  pc'[c] = pc[c]
          BY <5>5 DEF CleanupCache, CleanupRows, Tick, vars
        <5>6. CallbackStep(c)
          BY <3>2, <5>2, <5>3, <5>4, <5>5 DEF Next
        <5> QED  BY <3>2, <5>6 DEF CallbackStep, ReadRow, ReadRowFails, CacheRow,
                   Exchange, DeleteEntry, DeleteRow, DeleteRowFails
      <4>2. PICK a \in Auths : key[a] = k /\ pc[a] = "answered"
        BY <4>1 DEF BeginCallback
      <4>3. key'[c] = k
        BY <4>1 DEF BeginCallback, Inv, TypeOK
      <4> QED  BY <4>2, <4>3, KeysOnceGiven
    <3> QED  BY <3>1, <3>2
  <2> QED  BY <2>1, <2>2, <2>3 DEF KeyDiscipline
<1> QED  BY <1>1, <1>2, InvHolds, PTL DEF Spec

(* If an authorization that has begun is alone with its key after a step,  *)
(* it was before.                                                          *)
LEMMA AloneBefore ==
    ASSUME Inv, KeyDiscipline, [Next]_vars,
           NEW a \in Auths, pc[a] # "idle", OnlyAuth(a)'
    PROVE  OnlyAuth(a) /\ key'[a] = key[a] /\ key[a] \in Keys
<1> USE NoneIsNothing
<1>1. key'[a] = key[a] /\ key[a] \in Keys
  BY KeysOnceGiven DEF Inv, Places
<1>2. ASSUME NEW b \in Auths \ {a} PROVE key[b] # key[a]
  <2>1. CASE pc[b] = "idle"
    BY <1>1, <2>1 DEF KeyDiscipline
  <2>2. CASE pc[b] # "idle"
    BY <1>1, <2>2, KeysOnceGiven DEF OnlyAuth
  <2> QED  BY <2>1, <2>2
<1> QED  BY <1>1, <1>2 DEF OnlyAuth

(* Expiries are fixed and time does not run back.                          *)
LEMMA ExpiryFixed ==
    ASSUME Inv, [Next]_vars, NEW a \in Auths, pc[a] # "idle", obj[a] # None
    PROVE  obj'[a].expires = obj[a].expires /\ now' \in Nat /\ now <= now'
<1> USE NoneIsNothing
<1>1. TypeOK /\ obj[a] \in State  BY DEF Inv, TypeOK
<1>2. CASE obj' = obj /\ now' \in {now, now + 1}
  BY <1>1, <1>2 DEF TypeOK
<1>3. CASE \E b \in Auths, k \in Keys : BeginAuth(b, k)
  BY <1>1, <1>3 DEF BeginAuth, TypeOK
<1>4. ASSUME NEW b \in Auths, Encrypt(b) \/ EncryptFails(b)
      PROVE  obj'[a].expires = obj[a].expires /\ now' = now
  <2>1. PICK some \in BOOLEAN : obj' = [obj EXCEPT ![b].cipher = some]
    BY <1>4, OAuthAssumption DEF Encrypt, EncryptFails
  <2>2. CASE a = b
    <3>1. obj'[a] = [obj[a] EXCEPT !.cipher = some]
      BY <1>1, <2>1, <2>2 DEF TypeOK
    <3> QED  BY <1>1, <1>4, <3>1 DEF State, Encrypt, EncryptFails
  <2>3. CASE a # b
    BY <1>1, <1>4, <2>1, <2>3 DEF TypeOK, Encrypt, EncryptFails
  <2> QED  BY <2>2, <2>3
<1>5. ASSUME NEW c \in Callbacks, ReadRow(c)
      PROVE  obj'[a] = obj[a] /\ now' = now
  BY <1>1, <1>5 DEF ReadRow, TypeOK
<1> QED
  BY <1>1, <1>2, <1>3, <1>4, <1>5
  DEF TypeOK, Next, AuthStep, CallbackStep, SaveRow, SaveRowFails, BeginCallback,
      ReadRowFails, CacheRow, Exchange, DeleteEntry, DeleteRow, DeleteRowFails,
      CleanupCache, CleanupRows, Restart, Tick, vars

(* A state that was written to the database is there until it expires or a *)
(* callback comes for it, whatever else happens.                           *)
THEOREM SavedStays == Spec => []SavedUntilExpiry
<1> USE NoneIsNothing
<1>1. Init => SavedUntilExpiry
  BY DEF Init, SavedUntilExpiry
<1>2. Inv /\ Inv' /\ KeyDiscipline /\ SavedUntilExpiry /\ [Next]_vars
        => SavedUntilExpiry'
  <2> SUFFICES ASSUME Inv, Inv', KeyDiscipline, SavedUntilExpiry, [Next]_vars,
                      NEW a \in Auths, a \in written', OnlyAuth(a)',
                      \A c \in Callbacks : key'[c] # key'[a],
                      now' <= obj'[a].expires
               PROVE  row'[key'[a]] # None /\ row'[key'[a]].grant = a
    BY DEF SavedUntilExpiry
  <2>1. TypeOK /\ Places /\ Provenance  BY DEF Inv
  <2>2. CASE SaveRow(a)
    <3>1. key[a] \in Keys /\ obj[a] # None /\ obj[a].grant = a /\ key' = key
      BY <2>1, <2>2 DEF SaveRow, Places, Provenance, OwnGrant
    <3>2. row'[key[a]] = obj[a]
      BY <2>1, <2>2, <3>1 DEF SaveRow, TypeOK
    <3> QED  BY <3>1, <3>2
  <2>3. CASE a \in written
    <3>1. pc[a] # "idle"
      BY <2>3 DEF KeyDiscipline
    <3>2. OnlyAuth(a) /\ key'[a] = key[a] /\ key[a] \in Keys
      BY <3>1, AloneBefore
    <3>3. \A c \in Callbacks : key[c] # key[a]
      <4> SUFFICES ASSUME NEW c \in Callbacks PROVE key[c] # key[a]
        OBVIOUS
      <4>1. CASE pc[c] = "idle"
        BY <3>2, <4>1 DEF KeyDiscipline
      <4>2. CASE pc[c] # "idle"
        BY <3>2, <4>2, KeysOnceGiven
      <4> QED  BY <4>1, <4>2
    <3>4. obj[a] # None /\ obj[a].expires \in Nat
      BY <2>1, <3>1 DEF Places, TypeOK, State
    <3>5. obj'[a].expires = obj[a].expires /\ now' \in Nat /\ now <= now' /\ now \in Nat
      BY <2>1, <3>1, <3>4, ExpiryFixed DEF TypeOK
    <3>6. row[key[a]] # None /\ row[key[a]].grant = a
      BY <2>3, <3>2, <3>3, <3>4, <3>5 DEF SavedUntilExpiry
    <3>7. ~ExpiredRow(row[key[a]])
      <4>1. row[key[a]].expires = obj[a].expires
        BY <2>1, <3>2, <3>6 DEF Provenance, RowsGenuine, Genuine
      <4> QED  BY <3>4, <3>5, <4>1 DEF ExpiredRow
    <3>8. row'[key[a]] = row[key[a]]
      <4>1. ASSUME NEW b \in Auths, SaveRow(b), b # a PROVE row'[key[a]] = row[key[a]]
        BY <2>1, <3>2, <4>1 DEF SaveRow, OnlyAuth, TypeOK
      <4>2. ASSUME NEW c \in Callbacks, DeleteRow(c) PROVE row'[key[a]] = row[key[a]]
        BY <2>1, <3>2, <3>3, <4>2 DEF DeleteRow, TypeOK
      <4>3. CASE CleanupRows
        BY <3>2, <3>7, <4>3 DEF CleanupRows
      <4>4. ~SaveRow(a)
        BY <2>3 DEF KeyDiscipline, SaveRow
      <4> QED  BY <4>1, <4>2, <4>3, <4>4, Writers
    <3> QED  BY <3>2, <3>6, <3>8
  <2> QED  BY <2>2, <2>3, Writers
<1> QED  BY <1>1, <1>2, InvHolds, KeyDisciplineHolds, PTL DEF Spec

(* Who puts an entry into the cache, and who takes it out.                 *)
LEMMA CacheWriters ==
    ASSUME Inv, [Next]_vars, NEW k \in Keys
    PROVE  \/ cache'[k] = cache[k]
           \/ cache'[k] = None
           \/ \E a \in Auths : BeginAuth(a, k)
           \/ \E c \in Callbacks : CacheRow(c) /\ key[c] = k
<1>1. TypeOK  BY DEF Inv
<1>2. CASE cache' = cache
  BY <1>2
<1>3. CASE \E a \in Auths, j \in Keys : BeginAuth(a, j)
  BY <1>1, <1>3 DEF BeginAuth, CacheSet, TypeOK
<1>4. CASE \E c \in Callbacks : CacheRow(c)
  BY <1>1, <1>4 DEF CacheRow, CacheSet, TypeOK
<1>5. CASE \E c \in Callbacks : DeleteEntry(c)
  BY <1>1, <1>5 DEF DeleteEntry, CacheDelete, TypeOK
<1>6. CASE CleanupCache \/ Restart
  BY <1>6 DEF CleanupCache, Restart
<1> QED
  BY <1>2, <1>3, <1>4, <1>5, <1>6
  DEF Next, AuthStep, CallbackStep, Encrypt, EncryptFails, SaveRow, SaveRowFails,
      BeginCallback, ReadRow, ReadRowFails, Exchange, DeleteRow, DeleteRowFails,
      CleanupRows, Tick, vars

(* Where a callback goes.                                                  *)
LEMMA CallbackMoves ==
    ASSUME Inv, [Next]_vars, NEW c \in Callbacks
    PROVE  /\ pc'[c] = "deletingRow" => pc[c] = "deletingRow" \/ DeleteEntry(c)
           /\ pc[c] \in {"exchanging", "deleting"} =>
                \/ pc'[c] \in {"exchanging", "deleting"}
                \/ DeleteEntry(c)
                \/ Restart
<1> USE NoneIsNothing
<1>1. TypeOK  BY DEF Inv
<1>2. CASE pc'[c] = pc[c] \/ DeleteEntry(c)
  BY <1>2
<1>3. CASE Restart
  <2>1. pc'[c] = pc[c] \/ pc'[c] = "dead"
    BY <1>1, <1>3 DEF Restart, TypeOK
  <2> QED  BY <1>3, <2>1
<1>4. CASE \E a \in Auths : AuthStep(a)
  <2>1. PICK a \in Auths : AuthStep(a)
    BY <1>4
  <2>2. PICK place \in AuthPlaces : Goto(a, place)
    BY <2>1 DEF AuthStep, BeginAuth, Encrypt, EncryptFails, SaveRow, SaveRowFails,
                AuthPlaces
  <2>3. a \in Requests /\ c \in Requests /\ a # c
    OBVIOUS
  <2> QED  BY <1>1, <1>2, <2>2, <2>3 DEF Goto, TypeOK
<1>5. ASSUME NEW d \in Callbacks, d # c, CallbackStep(d)
      PROVE  pc'[c] = pc[c]
  <2>1. PICK place \in CallbackPlaces : Goto(d, place)
    BY <1>5 DEF CallbackStep, BeginCallback, ReadRow, ReadRowFails, CacheRow, Exchange,
                DeleteEntry, DeleteRow, DeleteRowFails, CallbackPlaces
  <2> QED  BY <1>1, <1>5, <2>1 DEF Goto, TypeOK
<1>6. CASE CallbackStep(c)
  <2>1. CASE \E k \in Keys : BeginCallback(c, k)
    BY <1>1, <2>1 DEF BeginCallback, Goto, TypeOK
  <2>2. CASE ReadRow(c) \/ ReadRowFails(c) \/ CacheRow(c)
    BY <1>1, <2>2 DEF ReadRow, ReadRowFails, CacheRow, Goto, TypeOK
  <2>3. CASE Exchange(c)
    BY <1>1, <2>3 DEF Exchange, Goto, TypeOK
  <2>4. CASE DeleteRow(c) \/ DeleteRowFails(c)
    BY <1>1, <2>4 DEF DeleteRow, DeleteRowFails, Goto, TypeOK
  <2> QED  BY <1>2, <1>6, <2>1, <2>2, <2>3, <2>4 DEF CallbackStep
<1>7. CASE CleanupCache \/ CleanupRows \/ Tick \/ UNCHANGED vars
  BY <1>2, <1>7 DEF CleanupCache, CleanupRows, Tick, vars
<1> QED  BY <1>2, <1>3, <1>4, <1>5, <1>6, <1>7 DEF Next

(* When a callback has deleted a state, only callbacks that will delete it *)
(* once more can put it back, and nobody writes its row again.             *)
LEMMA DeletionLastsStep ==
    ASSUME Inv, Inv', KeyDiscipline, KeyDiscipline', DeletionLasts, [Next]_vars
    PROVE  DeletionLasts'
<1> USE NoneIsNothing
<1> SUFFICES ASSUME NEW a \in Auths, NEW c \in Callbacks,
                    OnlyAuth(a)', key'[a] = key'[c],
                    pc'[c] = "deletingRow" \/ c \in written'
             PROVE  /\ \/ cache'[key'[a]] = None
                       \/ \E d \in Callbacks :
                            key'[d] = key'[a] /\ pc'[d] \in {"exchanging", "deleting"}
                    /\ c \in written' => row'[key'[a]] = None
  BY DEF DeletionLasts, WillClear
<1>1. TypeOK /\ TypeOK' /\ Places  BY DEF Inv
<1>2. /\ pc[c] = "deletingRow" \/ c \in written \/ DeleteEntry(c)
      /\ c \in written' => c \in written \/ DeleteRow(c)
  BY Writers, CallbackMoves DEF DeleteRow
<1>3. pc[c] # "idle"
  BY <1>2 DEF KeyDiscipline, DeleteEntry
<1>4. key'[c] = key[c] /\ key[c] \in Keys
  BY <1>1, <1>3, KeysOnceGiven DEF Places
<1>5. pc[a] = "answered" /\ key[a] = key[c]
  <2>1. PICK b \in Auths : key[b] = key[c] /\ pc[b] = "answered"
    BY <1>3 DEF KeyDiscipline
  <2>2. key'[b] = key[c]
    BY <2>1, KeysOnceGiven
  <2>3. b = a
    BY <1>4, <2>2 DEF OnlyAuth
  <2> QED  BY <2>1, <2>3
<1>6. OnlyAuth(a) /\ key'[a] = key[a]
  BY <1>5, AloneBefore
<1>7. PICK k \in Keys : key[a] = k /\ key'[a] = k /\ key[c] = k
  BY <1>4, <1>5, <1>6
<1>8. DeleteEntry(c) \/ cache[k] = None \/ WillClear(k)
  BY <1>2, <1>5, <1>6, <1>7 DEF DeletionLasts
<1>9. ASSUME NEW d \in Callbacks, DeleteEntry(d), key[d] = k
      PROVE  cache'[k] = None
  BY <1>1, <1>7, <1>9 DEF DeleteEntry, CacheDelete, TypeOK
<1>10. cache'[k] = None \/ WillClear(k)'
  <2>1. CASE \E b \in Auths : BeginAuth(b, k)
    <3>1. PICK b \in Auths : BeginAuth(b, k)
      BY <2>1
    <3>2. b # a /\ key'[b] = k
      BY <1>1, <1>5, <3>1 DEF BeginAuth, TypeOK
    <3> QED  BY <1>7, <3>2 DEF OnlyAuth
  <2>2. CASE \E d \in Callbacks : CacheRow(d) /\ key[d] = k
    <3>1. PICK d \in Callbacks : CacheRow(d) /\ key[d] = k
      BY <2>2
    <3>2. pc'[d] = "exchanging" /\ key'[d] = k
      BY <1>1, <3>1 DEF CacheRow, Goto, TypeOK
    <3> QED  BY <3>2 DEF WillClear
  <2>3. CASE cache'[k] = cache[k]
    <3>1. CASE DeleteEntry(c)
      BY <1>7, <1>9, <3>1
    <3>2. CASE cache[k] = None
      BY <2>3, <3>2
    <3>3. CASE WillClear(k)
      <4>1. PICK d \in Callbacks : key[d] = k /\ pc[d] \in {"exchanging", "deleting"}
        BY <3>3 DEF WillClear
      <4>2. CASE pc'[d] \in {"exchanging", "deleting"}
        <5>1. key'[d] = k
          BY <4>1, KeysOnceGiven
        <5> QED  BY <4>2, <5>1 DEF WillClear
      <4>3. CASE DeleteEntry(d)
        BY <1>9, <4>1, <4>3
      <4>4. CASE Restart
        BY <1>7, <4>4 DEF Restart
      <4> QED  BY <4>1, <4>2, <4>3, <4>4, CallbackMoves
    <3> QED  BY <1>8, <3>1, <3>2, <3>3
  <2> QED  BY <1>7, <2>1, <2>2, <2>3, CacheWriters
<1>11. c \in written' => row'[k] = None
  <2> SUFFICES ASSUME c \in written' PROVE row'[k] = None
    OBVIOUS
  <2>1. CASE DeleteRow(c)
    BY <1>1, <1>7, <2>1 DEF DeleteRow, TypeOK
  <2>2. CASE c \in written
    <3>1. row[k] = None
      BY <1>5, <1>6, <1>7, <2>2 DEF DeletionLasts
    <3>2. ASSUME NEW b \in Auths, SaveRow(b) PROVE row'[k] = None
      <4>1. b # a
        BY <1>5, <3>2 DEF SaveRow
      <4>2. key[b] # k
        BY <1>6, <1>7, <4>1 DEF OnlyAuth
      <4> QED  BY <1>1, <1>7, <3>1, <3>2, <4>2 DEF SaveRow, TypeOK
    <3>3. ASSUME NEW d \in Callbacks, DeleteRow(d) PROVE row'[k] = None
      BY <1>1, <1>7, <3>1, <3>3 DEF DeleteRow, TypeOK
    <3>4. CASE CleanupRows
      BY <1>7, <3>1, <3>4 DEF CleanupRows
    <3> QED  BY <3>1, <3>2, <3>3, <3>4, Writers
  <2> QED  BY <1>2, <2>1, <2>2
<1> QED  BY <1>7, <1>10, <1>11 DEF WillClear

(* Once a callback has deleted the state of an authorization and no        *)
(* request works with it any more, it is neither in the cache nor in the   *)
(* database, for any number of concurrent callbacks.                       *)
THEOREM DeletedForGood == Spec => []DeletedIsGone
<1>1. Init => DeletionLasts
  BY NoneIsNothing DEF Init, DeletionLasts
<1>2. Inv /\ Inv' /\ KeyDiscipline /\ KeyDiscipline' /\ DeletionLasts /\ [Next]_vars
        => DeletionLasts'
  BY DeletionLastsStep
<1>3. DeletionLasts => DeletedIsGone
  <2> SUFFICES ASSUME DeletionLasts, NEW a \in Auths, NEW c \in Callbacks \cap written,
                      OnlyAuth(a), key[a] = key[c],
                      \A r \in Requests : key[r] = key[a] => pc[r] \in {"answered", "dead"}
               PROVE  cache[key[a]] = None /\ row[key[a]] = None
    BY DEF DeletedIsGone
  <2>1. ~WillClear(key[a])
    BY NoneIsNothing DEF WillClear
  <2> QED  BY <2>1 DEF DeletionLasts
<1> QED  BY <1>1, <1>2, <1>3, InvHolds, KeyDisciplineHolds, PTL DEF Spec

-----------------------------------------------------------------------------
(* What a callback sends to amoCRM.                                        *)

(* The objects that callbacks have read from the database are decrypted.   *)
ReadPlain == \A c \in Callbacks : obj[c] # None => ~obj[c].cipher

(* The exchanging callback has an object.                                  *)
HasObject == \A c \in Callbacks : pc[c] \in {"caching", "exchanging"} => held[c] # None

(* A step creates or changes the object of an authorization, or creates    *)
(* that of a callback from a row, or leaves the objects alone.             *)
LEMMA ObjectWriters ==
    ASSUME [Next]_vars
    PROVE  \/ obj' = obj
           \/ \E a \in Auths : (\E k \in Keys : BeginAuth(a, k)) \/ Encrypt(a) \/ EncryptFails(a)
           \/ \E c \in Callbacks : ReadRow(c)
BY DEF Next, AuthStep, CallbackStep, SaveRow, SaveRowFails, BeginCallback,
       ReadRowFails, CacheRow, Exchange, DeleteEntry, DeleteRow, DeleteRowFails,
       CleanupCache, CleanupRows, Restart, Tick, vars

LEMMA HasObjectHolds == Spec => []HasObject
<1>1. Init => HasObject
  <2> SUFFICES ASSUME Init, NEW c \in Callbacks
               PROVE  pc[c] = "idle"
    BY DEF HasObject
  <2> QED  BY NoneIsNothing DEF Init
<1>2. Inv /\ HasObject /\ [Next]_vars => HasObject'
  <2> SUFFICES ASSUME Inv, HasObject, [Next]_vars, NEW c \in Callbacks,
                      pc'[c] \in {"caching", "exchanging"}
               PROVE  held'[c] # None
    BY DEF HasObject
  <2>1. TypeOK /\ c \in Requests  BY NoneIsNothing DEF Inv
  <2>2. CASE \E k \in Keys : BeginCallback(c, k)
    BY <2>1, <2>2 DEF BeginCallback, Goto, TypeOK
  <2>3. CASE ReadRow(c)
    BY <2>1, <2>3, NoneIsNothing DEF ReadRow, TypeOK
  <2>4. CASE CacheRow(c)
    BY <2>4 DEF CacheRow, HasObject
  <2>5. CASE ReadRowFails(c) \/ Exchange(c) \/ DeleteEntry(c) \/ DeleteRow(c) \/ DeleteRowFails(c)
    BY <2>1, <2>5 DEF ReadRowFails, Exchange, DeleteEntry, DeleteRow, DeleteRowFails,
                      Goto, TypeOK
  <2>6. ASSUME NEW d \in Callbacks, d # c, CallbackStep(d)  PROVE held'[c] # None
    <3>1. pc'[c] = pc[c]
      BY <2>1, <2>6 DEF CallbackStep, BeginCallback, ReadRow, ReadRowFails, CacheRow,
         Exchange, DeleteEntry, DeleteRow, DeleteRowFails, Goto, TypeOK
    <3>2. held'[c] = held[c]
      BY <2>1, <2>6 DEF CallbackStep, BeginCallback, ReadRow, ReadRowFails, CacheRow,
         Exchange, DeleteEntry, DeleteRow, DeleteRowFails, TypeOK
    <3> QED  BY <3>1, <3>2 DEF HasObject
  <2>7. ASSUME NEW a \in Auths, AuthStep(a)  PROVE held'[c] # None
    <3>1. c # a  BY NoneIsNothing
    <3>2. pc'[c] = pc[c] /\ held' = held
      BY <2>1, <2>7, <3>1 DEF AuthStep, BeginAuth, Encrypt, EncryptFails, SaveRow,
         SaveRowFails, Goto, TypeOK
    <3> QED  BY <3>2 DEF HasObject
  <2>8. CASE CleanupCache \/ CleanupRows \/ Tick \/ UNCHANGED vars
    BY <2>8 DEF CleanupCache, CleanupRows, Tick, vars, HasObject
  <2>9. CASE Restart
    <3>1. pc'[c] = pc[c]  BY <2>1, <2>9 DEF Restart
    <3> QED  BY <2>9, <3>1 DEF Restart, HasObject
  <2> QED
    BY <2>2, <2>3, <2>4, <2>5, <2>6, <2>7, <2>8, <2>9 DEF Next, CallbackStep
<1> QED  BY <1>1, <1>2, InvHolds, PTL DEF Spec

(* With a master key that is always there, what a callback has read from   *)
(* the database itself, or finds in the cache because another callback has *)
(* put it there, is sent as it was given: only the object AmoCRMAuth left  *)
(* in the cache is sent encrypted (GetOAuthState, SaveOAuthState).         *)
THEOREM PlainFromDatabase ==
    ASSUME MasterKey = {TRUE}
    PROVE  Spec => [](\A c \in Callbacks :
                        pc[c] = "exchanging" /\ held[c] \notin Auths
                        => ~obj[held[c]].cipher)
<1>1. Init => ReadPlain
  BY NoneIsNothing DEF Init, ReadPlain
<1>2. Inv /\ ReadPlain /\ [Next]_vars => ReadPlain'
  <2> SUFFICES ASSUME Inv, ReadPlain, [Next]_vars, NEW c \in Callbacks
               PROVE  obj'[c] # None => ~obj'[c].cipher
    BY DEF ReadPlain
  <2>1. TypeOK  BY DEF Inv
  <2>2. ASSUME NEW a \in Auths,
               (\E k \in Keys : BeginAuth(a, k)) \/ Encrypt(a) \/ EncryptFails(a)
        PROVE  obj'[c] = obj[c]
    <3>1. a # c /\ c \in Requests  BY NoneIsNothing
    <3> QED  BY <2>1, <2>2, <3>1 DEF BeginAuth, Encrypt, EncryptFails, TypeOK
  <2>3. ASSUME NEW d \in Callbacks, ReadRow(d)
        PROVE  obj'[c] # None => ~obj'[c].cipher
    <3>1. CASE d # c
      <4>1. obj'[c] = obj[c]  BY <2>1, <2>3, <3>1, NoneIsNothing DEF ReadRow, TypeOK
      <4> QED  BY <4>1 DEF ReadPlain
    <3>2. CASE d = c
      <4>1. obj' = [obj EXCEPT ![c] = [row[key[c]] EXCEPT !.cipher = @ /\ ~TRUE]]
        BY <2>3, <3>2 DEF ReadRow
      <4>2. row[key[c]] \in State
        BY <2>3, <3>2, NoneIsNothing DEF Inv, TypeOK, Places, ReadRow
      <4>3. obj'[c] = [row[key[c]] EXCEPT !.cipher = FALSE]
        BY <2>1, <4>1, <4>2, NoneIsNothing DEF TypeOK, State
      <4> QED  BY <4>2, <4>3 DEF State
    <3> QED  BY <3>1, <3>2
  <2> QED  BY <2>2, <2>3, ObjectWriters DEF ReadPlain
<1>3. Inv /\ HasObject /\ ReadPlain
      => \A c \in Callbacks : pc[c] = "exchanging" /\ held[c] \notin Auths
                            => ~obj[held[c]].cipher
  BY NoneIsNothing DEF Inv, TypeOK, HasObject, ReadPlain
<1> QED  BY <1>1, <1>2, <1>3, InvHolds, HasObjectHolds, PTL DEF Spec

(* Without a master key nothing is ever encrypted.                         *)
AllPlain ==
    /\ \A r \in Requests : obj[r] # None => ~obj[r].cipher
    /\ \A k \in Keys : row[k] # None => ~row[k].cipher

(* And without a master key every callback sends what the client gave,     *)
(* from cache and database alike (encryptOAuthStateFields).                *)
THEOREM PlainWithoutKey ==
    ASSUME MasterKey = {FALSE}
    PROVE  Spec => []ExchangeSendsPlain
<1>1. Init => AllPlain
  BY DEF Init, AllPlain
<1>2. Inv /\ AllPlain /\ [Next]_vars => AllPlain'
  <2> SUFFICES ASSUME Inv, AllPlain, [Next]_vars PROVE AllPlain'
    OBVIOUS
  <2>1. TypeOK  BY DEF Inv
  <2>2. ASSUME NEW r \in Requests  PROVE obj'[r] # None => ~obj'[r].cipher
    <3>1. ASSUME NEW a \in Auths, NEW k \in Keys, BeginAuth(a, k)
          PROVE  obj'[r] = obj[r] \/ (obj'[r] # None /\ ~obj'[r].cipher)
      <4>1. \/ obj'[r] = obj[r]
            \/ obj'[r] = [grant |-> a, expires |-> now + TTL, cipher |-> FALSE]
        BY <2>1, <3>1 DEF BeginAuth, TypeOK
      <4>2. [grant |-> a, expires |-> now + TTL, cipher |-> FALSE] # None
        <5>1. [grant |-> a, expires |-> now + TTL, cipher |-> FALSE] \in State
          BY <2>1, OAuthAssumption DEF TypeOK, State
        <5> QED  BY <5>1, NoneIsNothing
      <4>3. CASE obj'[r] = obj[r]
        BY <4>3
      <4>4. CASE obj'[r] = [grant |-> a, expires |-> now + TTL, cipher |-> FALSE]
        BY <4>2, <4>4
      <4> QED  BY <4>1, <4>3, <4>4
    <3>2. ASSUME NEW a \in Auths, Encrypt(a)
          PROVE  obj'[r] = obj[r] \/ ~obj'[r].cipher
      <4>1. obj' = [obj EXCEPT ![a].cipher = FALSE] /\ a \in Requests
        BY <3>2, NoneIsNothing DEF Encrypt
      <4>2. obj[a] \in State
        BY <2>1, <3>2, NoneIsNothing DEF Inv, Places, Encrypt, TypeOK
      <4> QED  BY <2>1, <4>1, <4>2 DEF TypeOK, State
    <3>3. ASSUME NEW a \in Auths, EncryptFails(a)  PROVE FALSE
      BY <3>3 DEF EncryptFails
    <3>4. ASSUME NEW c \in Callbacks, ReadRow(c)
          PROVE  obj'[r] = obj[r] \/ ~obj'[r].cipher
      <4>1. obj' = [obj EXCEPT ![c] = [row[key[c]] EXCEPT !.cipher = @ /\ ~FALSE]]
        BY <3>4 DEF ReadRow
      <4>2. key[c] \in Keys /\ row[key[c]] \in State /\ ~row[key[c]].cipher
        BY <3>4, NoneIsNothing DEF Inv, TypeOK, Places, ReadRow, AllPlain
      <4>3. CASE r # c
        BY <2>1, <4>1, <4>3 DEF TypeOK
      <4>4. CASE r = c
        <5>1. obj'[c] = [row[key[c]] EXCEPT !.cipher = @ /\ ~FALSE]
          BY <2>1, <4>1, <4>4 DEF TypeOK
        <5> QED  BY <4>2, <4>4, <5>1 DEF State
      <4> QED  BY <4>3, <4>4
    <3> QED  BY <3>1, <3>2, <3>3, <3>4, ObjectWriters DEF AllPlain
  <2>3. ASSUME NEW k \in Keys  PROVE row'[k] # None => ~row'[k].cipher
    <3>1. ASSUME NEW a \in Auths, SaveRow(a)  PROVE row'[k] # None => ~row'[k].cipher
      <4>1. row'[k] = row[k] \/ row'[k] = obj[a]
        BY <2>1, <3>1 DEF SaveRow, TypeOK
      <4> QED  BY <4>1, NoneIsNothing DEF AllPlain
    <3>2. ASSUME NEW c \in Callbacks, DeleteRow(c)  PROVE row'[k] = row[k] \/ row'[k] = None
      BY <2>1, <3>2 DEF DeleteRow, TypeOK
    <3>3. CASE CleanupRows
      BY <3>3 DEF CleanupRows, AllPlain
    <3> QED  BY <3>1, <3>2, <3>3, Writers DEF AllPlain
  <2> QED  BY <2>2, <2>3 DEF AllPlain
<1>3. Inv /\ HasObject /\ AllPlain => ExchangeSendsPlain
  BY DEF Inv, TypeOK, HasObject, AllPlain, ExchangeSendsPlain
<1> QED  BY <1>1, <1>2, <1>3, InvHolds, HasObjectHolds, PTL DEF Spec
=============================================================================
