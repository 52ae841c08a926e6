--------------------------- MODULE ConfigStoreProofs ----------------------------
(***************************************************************************)
(* Proofs about ConfigStore for any set of requests of any kinds, with or  *)
(* without the master key and any faults.                                  *)
(***************************************************************************)
EXTENDS ConfigStore, TLAPS

-----------------------------------------------------------------------------
(* What happens to the contents of a row.                                  *)

(* The settings and columns are those of the table.                        *)
LEMMA Table ==
    /\ Settings = {"subdomain", "client", "secret", "tokens", "field", "lead",
                   "assist", "tags", "active"}
    /\ In("credentials") = {"client", "secret", "tokens"}
    /\ In("options") = {"field", "lead"}
    /\ In("channels") = {"assist", "tags"}
<1>1. Settings = {"subdomain", "client", "secret", "tokens", "field", "lead",
                  "assist", "tags", "active"}
  BY DEF Settings, Column
<1> QED  BY <1>1 DEF In, Column

(* A row with other contents is a row.                                     *)
LEMMA RowTyped ==
    ASSUME NEW c \in Rows
    PROVE  /\ c.id \in Nat
           /\ c.value \in [Settings -> Values]
           /\ c.sealed \in SUBSET Protected
BY DEF Rows

LEMMA NoRowTyped == NoRow \in Rows
BY DEF NoRow, Rows, Values

(* Settings that are removed come out as never made, the others as they    *)
(* were.                                                                   *)
LEMMA WithoutTyped ==
    ASSUME NEW value \in [Settings -> Values], NEW settings
    PROVE  /\ Without(value, settings) \in [Settings -> Values]
           /\ \A s \in Settings \ settings : Without(value, settings)[s] = value[s]
BY DEF Without, Values

(* Decryption opens the columns or does nothing.                           *)
LEMMA Decrypted ==
    ASSUME NEW c \in Rows, NEW key \in BOOLEAN
    PROVE  /\ decryptCRMConfigFields(c, key) \in Rows
           /\ decryptCRMConfigFields(c, key).id = c.id
           /\ decryptCRMConfigFields(c, key).value = c.value
           /\ decryptCRMConfigFields(c, key).sealed = IF key THEN {} ELSE c.sealed
BY DEF decryptCRMConfigFields, Rows

(* Encryption closes whatever is filled, if there is a key.                *)
LEMMA Encrypted ==
    ASSUME NEW c \in Rows, NEW key \in BOOLEAN
    PROVE  /\ encryptCRMConfigFields(c, key) \in Rows
           /\ encryptCRMConfigFields(c, key).id = c.id
           /\ encryptCRMConfigFields(c, key).value = c.value
           /\ key => Filled(c.value) \subseteq encryptCRMConfigFields(c, key).sealed
<1>1. Filled(c.value) \in SUBSET Protected  BY DEF Filled
<1> QED  BY <1>1, RowTyped DEF encryptCRMConfigFields, Rows

(* Parsing keeps the settings outside the column, and those in it unless   *)
(* it is sealed.                                                           *)
LEMMA ParsedTyped ==
    ASSUME NEW c \in Rows, NEW column
    PROVE  /\ Parsed(c, column) \in Rows
           /\ Parsed(c, column).id = c.id
           /\ \A s \in Settings : s \notin In(column) \/ column \notin c.sealed
                 => Parsed(c, column).value[s] = c.value[s]
<1>1. /\ Without(c.value, In(column)) \in [Settings -> Values]
      /\ \A s \in Settings \ In(column) : Without(c.value, In(column))[s] = c.value[s]
  BY RowTyped, WithoutTyped
<1>2. c.sealed \ {column} \in SUBSET Protected  BY RowTyped
<1> QED  BY <1>1, <1>2, RowTyped DEF Parsed, Rows

(* Sanitizing keeps all but the secrets, and the credentials only if they  *)
(* can be parsed.                                                          *)
LEMMA SanitizedTyped ==
    ASSUME NEW c \in Rows
    PROVE  /\ sanitizeCredentials(c) \in Rows
           /\ sanitizeCredentials(c).id = c.id
           /\ sanitizeCredentials(c).sealed = c.sealed \ {"credentials"}
           /\ \A s \in Settings \ {"secret", "tokens"} :
                 s \notin In("credentials") \/ "credentials" \notin c.sealed
                 => sanitizeCredentials(c).value[s] = c.value[s]
<1> DEFINE gone == IF "credentials" \in c.sealed THEN In("credentials")
                   ELSE {"secret", "tokens"}
<1>1. /\ Without(c.value, gone) \in [Settings -> Values]
      /\ \A s \in Settings \ gone : Without(c.value, gone)[s] = c.value[s]
  BY RowTyped, WithoutTyped
<1>2. c.sealed \ {"credentials"} \in SUBSET Protected  BY RowTyped
<1>3. sanitizeCredentials(c) = [c EXCEPT !.value = Without(c.value, gone),
                                         !.sealed = c.sealed \ {"credentials"}]
  BY DEF sanitizeCredentials
<1>4. gone \in {In("credentials"), {"secret", "tokens"}}
      /\ ("credentials" \notin c.sealed => gone = {"secret", "tokens"})
      /\ {"secret", "tokens"} \subseteq In("credentials")
  BY Table
<1> HIDE DEF gone
<1> QED  BY <1>1, <1>2, <1>3, <1>4, RowTyped DEF Rows

(* A request's settings are made by it, the others are kept.               *)
LEMMA MadeTyped ==
    ASSUME NEW c \in Rows, NEW r \in Requests
    PROVE  /\ Made(c, r) \in Rows
           /\ Made(c, r).id = c.id
           /\ \A s \in Settings :
                 Made(c, r).value[s] = IF s \in Requested[kind[r]] THEN r ELSE c.value[s]
<1> DEFINE made == [s \in Settings |-> IF s \in Requested[kind[r]] THEN r ELSE c.value[s]]
<1>1. made \in [Settings -> Values]  BY RowTyped DEF Values
<1>2. Made(c, r) = [c EXCEPT !.value = made]  BY DEF Made
<1>3. \A s \in Settings : made[s] = IF s \in Requested[kind[r]] THEN r ELSE c.value[s]
  OBVIOUS
<1> HIDE DEF made
<1> QED  BY <1>1, <1>2, <1>3, RowTyped DEF Rows

-----------------------------------------------------------------------------
(* The invariant.                                                          *)

Channels == {"setAssist", "setTags"}

(* Whether a request is about to write the row it holds.                   *)
Holds(r) ==
    /\ kind[r] # "save"
    /\ \/ at[r] \in {"write", "upsert"}
       \/ at[r] = "remove" /\ kind[r] \notin Late

(* Each statement belongs to handlers that have it.                        *)
Statements(r) ==
    /\ at[r] = "look" => First[kind[r]] = "look"
    /\ at[r] = "check" => kind[r] = "use"
    /\ at[r] = "read" => kind[r] \in {"setField", "setLead", "refresh", "use"} \cup Channels
    /\ at[r] = "write" => kind[r] \notin {"save", "callback", "mockAuth", "delete", "use"}
    /\ at[r] = "upsert" => kind[r] \in {"save", "callback", "mockAuth"}
    /\ at[r] = "provide" => kind[r] = "use"
    /\ at[r] = "erase" => kind[r] = "delete"
    /\ at[r] = "remove" => kind[r] \notin {"use", "refresh"}

(* Who goes on after it has read the row has read one.                     *)
HasCopy(r) ==
    \/ Holds(r)
    \/ at[r] = "read" /\ kind[r] \in Channels
    \/ at[r] = "provide"
    => copy[r].id # 0

(* A setting of the copy is as in the row, except for the reasons given in *)
(* LossHasCause.                                                           *)
Kept(r, s) ==
    \/ copy[r].value[s] = row.value[s]
    \/ s \in Changes(kind[r])
    \/ r \in blind /\ s \in In(ParsedColumn(kind[r]))

(* The copy of a request that has not been overtaken agrees with the row.  *)
Current(r) ==
    /\ Holds(r) => copy[r].id = row.id /\ \A s \in Settings : Kept(r, s)
    /\ at[r] = "read" /\ kind[r] \in Channels
       => \A s \in In("channels") :
             \/ Parsed(copy[r], "channels").value[s] = row.value[s]
             \/ r \in blind
    /\ at[r] = "provide"
       => /\ copy[r].value["field"] = row.value["field"]
          /\ "options" \in copy[r].sealed => r \in blind

RequestInv(r) ==
    /\ Statements(r)
    /\ HasCopy(r)
    /\ r \notin overtaken => Current(r)

(* No row has the identifier 0.                                            *)
RowIdentified == row = NoRow \/ row.id # 0

(* StaleSourceHasCause, also while there is no row.                        *)
SourceHasCause ==
    provider.cause = "none"
    => \/ provider.field = row.value["field"]
       \/ \E r \in Requests : kind[r] \in Late /\ at[r] = "remove"

Inv ==
    /\ TypeOK
    /\ RowIdentified
    /\ SourceHasCause
    /\ \A r \in Requests : RequestInv(r)

-----------------------------------------------------------------------------
(* Helpers of the handlers.                                                *)

(* Replying ends a request and concerns no other.                          *)
LEMMA Replied ==
    ASSUME TypeOK, NEW r \in Requests, NEW status \in {200, 400, 404, 500},
           Reply(r, status)
    PROVE  /\ at' \in [Requests -> Steps]
           /\ answer' \in [Requests -> {0, 200, 400, 404, 500}]
           /\ at'[r] = "done" /\ answer'[r] = status
           /\ \A q \in Requests \ {r} : at'[q] = at[q]
BY DEF Reply, TypeOK, Steps

(* A request goes on to its next statement; at the end it answers 200.     *)
LEMMA Proceeded ==
    ASSUME TypeOK, NEW r \in Requests, NEW step \in Steps, Proceed(r, step)
    PROVE  /\ at' \in [Requests -> Steps]
           /\ answer' \in [Requests -> {0, 200, 400, 404, 500}]
           /\ at'[r] = step
           /\ \A q \in Requests \ {r} : at'[q] = at[q]
BY DEF Proceed, TypeOK, Steps

(* The statements of the handlers.                                         *)
LEMMA StepTable ==
    ASSUME NEW k \in Kinds
    PROVE  /\ First[k] \in {"look", "check", "read", "remove"}
           /\ AfterLook(k) = IF k \in Channels \cup {"refresh"}
                             THEN "read" ELSE "remove"
           /\ AfterRead(k) \in {"provide", "write"}
           /\ AfterRemove(k) \in {"done", "upsert", "erase", "write"}
           /\ AfterWrite(k) \in {"remove", "done"}
           /\ Missing(k) \in {404, 500}
           /\ Requested[k] \subseteq Settings
<1>1. First[k] \in {"look", "check", "read", "remove"} /\ Requested[k] \subseteq Settings
  BY StoreAssumption, Table DEF First, Requested
<1> QED
  BY <1>1 DEF AfterLook, AfterRead, AfterRemove, AfterWrite, Missing, Channels

(* What a step of r leaves alone stays true of the others.                 *)
LEMMA OthersKeep ==
    ASSUME NEW q \in Requests, RequestInv(q),
           at'[q] = at[q], UNCHANGED <<row, kind>>, copy'[q] = copy[q],
           q \in overtaken => q \in overtaken',
           q \in blind => q \in blind'
    PROVE  RequestInv(q)'
BY DEF RequestInv, Statements, HasCopy, Holds, Current, Kept

(* A request that has ended makes no claims.                               *)
LEMMA EndedKeeps ==
    ASSUME NEW q \in Requests, at'[q] = "done"
    PROVE  RequestInv(q)'
BY DEF RequestInv, Statements, HasCopy, Holds, Current

(* A commit overtakes whoever holds a copy.                                *)
LEMMA CommitOvertakes ==
    ASSUME NEW r \in Requests, NEW q \in Requests \ {r}, RequestInv(q),
           at'[q] = at[q], UNCHANGED <<kind, copy, blind>>,
           q \in overtaken', overtaken' \in SUBSET Requests
    PROVE  RequestInv(q)'
BY DEF RequestInv, Statements, HasCopy, Holds

(* The excuses of the provider stay while nobody removes it.               *)
LEMMA SourceKept ==
    ASSUME SourceHasCause, NEW r \in Requests,
           ~(kind[r] \in Late /\ at[r] = "remove"),
           \A q \in Requests \ {r} : at'[q] = at[q],
           provider' \in {provider, NoProvider}, UNCHANGED <<row, kind>>
    PROVE  SourceHasCause'
BY DEF SourceHasCause, NoProvider

-----------------------------------------------------------------------------
(* The steps that leave the row alone.                                     *)

(* A request that ends without a commit, whatever the reason.              *)
LEMMA EndInv ==
    ASSUME Inv, NEW r \in Requests,
           ~(kind[r] \in Late /\ at[r] = "remove"),
           NEW status \in {200, 400, 404, 500}, Reply(r, status),
           UNCHANGED <<row, nextId, kind>>, provider' \in {provider, NoProvider},
           overtaken \ {r} \subseteq overtaken', overtaken' \subseteq Requests,
           copy' \in [Requests -> Rows], \A q \in Requests \ {r} : copy'[q] = copy[q],
           blind \subseteq blind', blind' \subseteq Requests
    PROVE  Inv'
<1>1. /\ at' \in [Requests -> Steps]
      /\ answer' \in [Requests -> {0, 200, 400, 404, 500}]
      /\ at'[r] = "done"
      /\ \A q \in Requests \ {r} : at'[q] = at[q]
  BY Replied DEF Inv
<1>2. TypeOK'  BY <1>1 DEF Inv, TypeOK, NoProvider, Values, Causes
<1>3. RowIdentified'  BY DEF Inv, RowIdentified, NoRow
<1>4. SourceHasCause'  BY <1>1, SourceKept DEF Inv
<1>5. ASSUME NEW q \in Requests  PROVE RequestInv(q)'
  <2>1. CASE q = r  BY <1>1, <2>1, EndedKeeps
  <2>2. CASE q # r  BY <1>1, <2>2, OthersKeep DEF Inv
  <2> QED  BY <2>1, <2>2
<1> QED  BY <1>2, <1>3, <1>4, <1>5 DEF Inv

(* A request that goes on after a read has a current copy.                 *)
LEMMA GoOnInv ==
    ASSUME Inv, NEW r \in Requests, at[r] # "remove",
           NEW step \in Steps, Proceed(r, step),
           UNCHANGED <<row, nextId, kind>>, provider' \in {provider, NoProvider},
           overtaken \ {r} \subseteq overtaken', overtaken' \subseteq Requests,
           copy' \in [Requests -> Rows], \A q \in Requests \ {r} : copy'[q] = copy[q],
           blind \subseteq blind', blind' \subseteq Requests,
           RequestInv(r)'
    PROVE  Inv'
<1>1. /\ at' \in [Requests -> Steps]
      /\ answer' \in [Requests -> {0, 200, 400, 404, 500}]
      /\ \A q \in Requests \ {r} : at'[q] = at[q]
  BY Proceeded DEF Inv
<1>2. TypeOK'  BY <1>1 DEF Inv, TypeOK, NoProvider, Values, Causes
<1>3. RowIdentified'  BY DEF Inv, RowIdentified, NoRow
<1>4. SourceHasCause'  BY <1>1, SourceKept DEF Inv
<1>5. ASSUME NEW q \in Requests  PROVE RequestInv(q)'
  <2>1. CASE q = r  BY <2>1
  <2>2. CASE q # r  BY <1>1, <2>2, OthersKeep DEF Inv
  <2> QED  BY <2>1, <2>2
<1> QED  BY <1>2, <1>3, <1>4, <1>5 DEF Inv

(* Whoever cannot decrypt what it parses is noted.                         *)
LEMMA Noted ==
    ASSUME NEW r \in Requests, blind \subseteq Requests, NoteBlind(r)
    PROVE  /\ blind \subseteq blind' /\ blind' \subseteq Requests
           /\ ParsedColumn(kind[r]) \in row.sealed => r \in blind'
BY DEF NoteBlind

LEMMA LookInv ==
    ASSUME Inv, NEW r \in Requests, Look(r)
    PROVE  Inv'
<1>1. TypeOK /\ row \in Rows /\ blind \subseteq Requests /\ kind[r] \in Kinds
      /\ copy \in [Requests -> Rows] /\ overtaken \subseteq Requests
  BY DEF Inv, TypeOK
<1>2. PICK key \in KeyStates :
        /\ copy' = [copy EXCEPT ![r] =
                       sanitizeCredentials(decryptCRMConfigFields(row, key))]
        /\ IF key \/ kind[r] = "refresh" THEN UNCHANGED blind ELSE NoteBlind(r)
  BY DEF Look
<1> DEFINE config == decryptCRMConfigFields(row, key)
<1>3. key \in BOOLEAN  BY StoreAssumption
<1>4. /\ config \in Rows /\ config.id = row.id /\ config.value = row.value
      /\ config.sealed = IF key THEN {} ELSE row.sealed
  BY <1>1, <1>3, Decrypted
<1>5. /\ blind \subseteq blind' /\ blind' \subseteq Requests
      /\ kind[r] # "refresh" /\ ParsedColumn(kind[r]) \in config.sealed
         => r \in blind'
  <2>1. CASE key \/ kind[r] = "refresh"  BY <1>1, <1>2, <1>4, <2>1
  <2>2. CASE ~(key \/ kind[r] = "refresh")  BY <1>1, <1>2, <1>4, <2>2, Noted
  <2> QED  BY <2>1, <2>2
<1>6. copy'[r] = sanitizeCredentials(config)
      /\ \A q \in Requests \ {r} : copy'[q] = copy[q]
  BY <1>1, <1>2
<1> HIDE DEF config
<1>7. /\ copy'[r] \in Rows /\ copy'[r].id = row.id
      /\ copy'[r].sealed = config.sealed \ {"credentials"}
      /\ \A s \in Settings \ {"secret", "tokens"} :
            s \notin In("credentials") \/ "credentials" \notin config.sealed
            => copy'[r].value[s] = row.value[s]
  BY <1>4, <1>6, SanitizedTyped
<1>8. copy' \in [Requests -> Rows]  BY <1>1, <1>2, <1>6, <1>7
<1>9. at[r] = "look" /\ UNCHANGED <<row, nextId, provider, kind, overtaken>>
      /\ First[kind[r]] = "look"
  BY DEF Look, Inv, RequestInv, Statements
<1>10. CASE \E status \in {200, 400, 404, 500} : Reply(r, status)
  BY <1>1, <1>5, <1>6, <1>8, <1>9, <1>10, EndInv
<1>11. CASE row # NoRow /\ Proceed(r, AfterLook(kind[r]))
  <2>1. AfterLook(kind[r]) = IF kind[r] \in Channels \cup {"refresh"}
                             THEN "read" ELSE "remove"
    BY <1>1, StepTable
  <2>2. AfterLook(kind[r]) \in Steps  BY <2>1 DEF Steps
  <2>3. at'[r] = AfterLook(kind[r])  BY <1>1, <1>11, <2>2, Proceeded
  <2>4. row.id # 0  BY <1>11 DEF Inv, RowIdentified
  <2>5. CASE kind[r] \in Channels
    <3>1. kind[r] \in Late /\ ParsedColumn(kind[r]) = "channels" /\ kind[r] # "save"
      BY <2>5 DEF Channels, Late, ParsedColumn
    <3>0. kind[r] # "refresh"  BY <2>5 DEF Channels
    <3>2. ASSUME NEW c \in In("channels")
          PROVE  Parsed(copy'[r], "channels").value[c] = row.value[c] \/ r \in blind'
      <4>1. c \in Settings \ {"secret", "tokens"} /\ c \notin In("credentials")
        BY Table
      <4>2. CASE "channels" \in config.sealed  BY <1>5, <3>0, <3>1, <4>2
      <4>3. CASE "channels" \notin config.sealed
        <5>1. "channels" \notin copy'[r].sealed  BY <1>7, <4>3
        <5>2. Parsed(copy'[r], "channels").value[c] = copy'[r].value[c]
          BY <1>7, <4>1, <5>1, ParsedTyped
        <5> QED  BY <1>7, <4>1, <5>2
      <4> QED  BY <4>2, <4>3
    <3>3. RequestInv(r)'
      BY <1>7, <1>9, <2>1, <2>3, <2>4, <2>5, <3>1, <3>2
      DEF RequestInv, Statements, HasCopy, Holds, Current
    <3> QED  BY <1>1, <1>5, <1>6, <1>8, <1>9, <1>11, <2>2, <3>3, GoOnInv
  <2>7. CASE kind[r] = "refresh"
    <3>1. RequestInv(r)'
      BY <1>9, <2>1, <2>3, <2>7
      DEF RequestInv, Statements, HasCopy, Holds, Current, Channels
    <3> QED  BY <1>1, <1>5, <1>6, <1>8, <1>9, <1>11, <2>2, <3>1, GoOnInv
  <2>6. CASE kind[r] \notin Channels \cup {"refresh"}
    <3>1. kind[r] \in {"setActive", "mockRefresh", "callback", "mockAuth", "delete"}
      BY <1>1, <1>9, <2>6, StoreAssumption DEF First, Channels
    <3>2. kind[r] \notin Late /\ ParsedColumn(kind[r]) = "credentials"
          /\ {"secret", "tokens"} \subseteq Changes(kind[r])
      BY <1>9, <3>1 DEF Late, ParsedColumn, Changes, AfterLook
    <3>3. ASSUME NEW c \in Settings
          PROVE  Kept(r, c)'
      BY <1>5, <1>7, <1>9, <3>1, <3>2 DEF Kept
    <3>4. RequestInv(r)'
      BY <1>7, <1>9, <2>1, <2>3, <2>4, <2>6, <3>1, <3>2, <3>3
      DEF RequestInv, Statements, HasCopy, Holds, Current
    <3> QED  BY <1>1, <1>5, <1>6, <1>8, <1>9, <1>11, <2>2, <3>4, GoOnInv
  <2> QED  BY <2>5, <2>6, <2>7
<1> QED
  <2>1. Missing(kind[r]) \in {404, 500}  BY <1>1, StepTable
  <2> QED  BY <1>10, <1>11, <2>1 DEF Look

LEMMA ReadInv ==
    ASSUME Inv, NEW r \in Requests, Read(r)
    PROVE  Inv'
<1>1. TypeOK /\ row \in Rows /\ blind \subseteq Requests /\ kind[r] \in Kinds
      /\ copy \in [Requests -> Rows] /\ copy[r] \in Rows /\ overtaken \subseteq Requests
  BY DEF Inv, TypeOK
<1> DEFINE config(key) == decryptCRMConfigFields(row, key)
           merged == Parsed(copy[r], "channels").value
           mixed(key) == [s \in Settings |->
                            IF s \in In("channels") THEN merged[s]
                            ELSE Parsed(config(key), "channels").value[s]]
           taken(key) == IF kind[r] \in Channels
                         THEN [Parsed(config(key), "channels") EXCEPT !.value = mixed(key)]
                         ELSE IF kind[r] \in {"setField", "setLead"}
                         THEN Parsed(config(key), "options")
                         ELSE config(key)
<1>2. PICK key \in KeyStates :
        /\ copy' = [copy EXCEPT ![r] = taken(key)]
        /\ IF key \/ kind[r] \in Channels THEN UNCHANGED blind ELSE NoteBlind(r)
        /\ IF Found(r, config(key))
           THEN Proceed(r, AfterRead(kind[r]))
           ELSE Reply(r, 500)
  BY DEF Read, Channels
<1>3. key \in BOOLEAN  BY StoreAssumption
<1>4. /\ config(key) \in Rows /\ config(key).id = row.id
      /\ config(key).value = row.value
      /\ config(key).sealed = IF key THEN {} ELSE row.sealed
  BY <1>1, <1>3, Decrypted
<1>5. /\ blind \subseteq blind' /\ blind' \subseteq Requests
      /\ kind[r] \notin Channels /\ ParsedColumn(kind[r]) \in config(key).sealed
         => r \in blind'
  <2>1. CASE key \/ kind[r] \in Channels  BY <1>1, <1>2, <1>4, <2>1
  <2>2. CASE ~(key \/ kind[r] \in Channels)  BY <1>1, <1>2, <1>4, <2>2, Noted
  <2> QED  BY <2>1, <2>2
<1>6. copy'[r] = taken(key) /\ \A q \in Requests \ {r} : copy'[q] = copy[q]
  BY <1>1, <1>2
<1>7. at[r] = "read" /\ UNCHANGED <<row, nextId, provider, kind>>
      /\ overtaken \ {r} \subseteq overtaken' /\ overtaken' \subseteq Requests
      /\ (kind[r] # "refresh" => overtaken' = overtaken)
      /\ kind[r] \in {"setField", "setLead", "refresh", "use"} \cup Channels
  BY <1>1 DEF Read, Inv, RequestInv, Statements
<1>10. Found(r, config(key)) => row # NoRow  BY DEF Found
<1>8. CASE kind[r] \in Channels
  <2>1. /\ Parsed(config(key), "channels") \in Rows
        /\ Parsed(config(key), "channels").id = row.id
        /\ \A s \in Settings \ In("channels") :
              Parsed(config(key), "channels").value[s] = row.value[s]
    BY <1>4, ParsedTyped
  <2>2. merged \in [Settings -> Values]
    BY <1>1, ParsedTyped, RowTyped
  <2>3. mixed(key) \in [Settings -> Values]
    BY <2>1, <2>2, RowTyped
  <2>4. copy'[r] = [Parsed(config(key), "channels") EXCEPT !.value = mixed(key)]
    BY <1>6, <1>8
  <2> HIDE DEF config
  <2>5. copy'[r] \in Rows /\ copy'[r].id = row.id /\ copy'[r].value = mixed(key)
    <3> HIDE DEF mixed
    <3> QED  BY <2>1, <2>3, <2>4 DEF Rows
  <2>6. r \notin overtaken
        => \A s \in In("channels") : merged[s] = row.value[s] \/ r \in blind
    BY <1>7, <1>8 DEF Inv, RequestInv, Current
  <2>7. \A s \in Settings :
          copy'[r].value[s] = IF s \in In("channels") THEN merged[s] ELSE row.value[s]
    BY <2>1, <2>5
  <2>8. AfterRead(kind[r]) = "write"  BY <1>8 DEF AfterRead, Channels
  <2>9. CASE Reply(r, 500)
    <3>1. copy' \in [Requests -> Rows]  BY <1>1, <1>2, <1>6, <2>5
    <3> QED  BY <1>5, <1>6, <1>7, <2>9, <3>1, EndInv
  <2>10. CASE row # NoRow /\ Proceed(r, "write")
    <3>1. copy' \in [Requests -> Rows]  BY <1>1, <1>2, <1>6, <2>5
    <3>2. at'[r] = "write"  BY <1>1, <2>10, Proceeded DEF Steps
    <3>3. row.id # 0  BY <2>10 DEF Inv, RowIdentified
    <3>4. ParsedColumn(kind[r]) = "channels" /\ kind[r] \notin {"save", "callback", "mockAuth", "delete", "use"}
      BY <1>8 DEF Channels, ParsedColumn
    <3>7. overtaken' = overtaken  BY <1>7, <1>8 DEF Channels
    <3>5. r \notin overtaken => \A s \in Settings : Kept(r, s)'
      BY <1>5, <1>7, <2>6, <2>7, <3>4 DEF Kept
    <3>6. RequestInv(r)'
      BY <1>7, <2>5, <3>2, <3>3, <3>4, <3>5, <3>7
      DEF RequestInv, Statements, HasCopy, Holds, Current
    <3> QED  BY <1>5, <1>6, <1>7, <2>10, <3>1, <3>6, GoOnInv DEF Steps
  <2> QED  BY <1>2, <1>10, <2>8, <2>9, <2>10
<1>9. CASE kind[r] \notin Channels
  <2>1. /\ copy'[r] \in Rows /\ copy'[r].id = row.id
        /\ \A s \in Settings : \/ copy'[r].value[s] = row.value[s]
                              \/ /\ kind[r] \in {"setField", "setLead"}
                                 /\ s \in In("options")
                                 /\ "options" \in config(key).sealed
    <3>1. CASE kind[r] \in {"setField", "setLead"}
      <4>1. copy'[r] = Parsed(config(key), "options")  BY <1>6, <1>9, <3>1
      <4> QED  BY <1>4, <3>1, <4>1, ParsedTyped
    <3>2. CASE kind[r] \notin {"setField", "setLead"}
      <4>1. copy'[r] = config(key)  BY <1>6, <1>9, <3>2
      <4> QED  BY <1>4, <4>1
    <3> QED  BY <3>1, <3>2
  <2>2. copy' \in [Requests -> Rows]  BY <1>1, <1>2, <1>6, <2>1
  <2>3. kind[r] \in {"setField", "setLead", "use"} => ParsedColumn(kind[r]) = "options"
    BY DEF ParsedColumn
  <2>4. CASE Reply(r, 500)
    BY <1>5, <1>6, <1>7, <2>2, <2>4, EndInv
  <2>5. CASE row # NoRow /\ Proceed(r, AfterRead(kind[r]))
    <3>1. AfterRead(kind[r]) \in {"provide", "write"}
          /\ (AfterRead(kind[r]) = "provide" <=> kind[r] = "use")
      BY DEF AfterRead
    <3>2. at'[r] = AfterRead(kind[r])  BY <1>1, <2>5, <3>1, Proceeded DEF Steps
    <3>3. row.id # 0  BY <2>5 DEF Inv, RowIdentified
    <3>4. \A s \in Settings : Kept(r, s)'
      BY <1>5, <1>7, <1>9, <2>1, <2>3 DEF Kept
    <3>5. kind[r] = "use" => copy'[r].value["field"] = row.value["field"]
                             /\ ("options" \in copy'[r].sealed => r \in blind')
      <4> SUFFICES ASSUME kind[r] = "use"
                   PROVE  /\ copy'[r].value["field"] = row.value["field"]
                          /\ "options" \in copy'[r].sealed => r \in blind'
        OBVIOUS
      <4>1. copy'[r] = config(key)  BY <1>6, <1>9
      <4> QED  BY <1>4, <1>5, <1>9, <2>3, <4>1
    <3>6. kind[r] \in {"setField", "setLead", "refresh", "use"} /\ kind' = kind
      BY <1>7, <1>9
    <3>7. Statements(r)' /\ HasCopy(r)'
      BY <2>1, <3>1, <3>2, <3>3, <3>6 DEF Statements, HasCopy
    <3>8. Current(r)'
      BY <1>7, <2>1, <3>1, <3>2, <3>4, <3>5, <3>6 DEF Holds, Current
    <3> QED
      BY <1>5, <1>6, <1>7, <2>2, <2>5, <3>1, <3>7, <3>8, GoOnInv DEF RequestInv, Steps
  <2> QED  BY <1>2, <1>10, <2>4, <2>5
<1> QED  BY <1>8, <1>9

LEMMA EnsureValidInv ==
    ASSUME Inv, NEW r \in Requests, EnsureValid(r)
    PROVE  Inv'
<1>1. TypeOK /\ at[r] = "check" /\ kind[r] = "use"
      /\ UNCHANGED <<row, nextId, kind, copy, overtaken, blind>>
  BY DEF EnsureValid, Inv, RequestInv, Statements
<1>2. CASE Reply(r, 500) /\ provider' \in {provider, NoProvider}
  BY <1>1, <1>2, EndInv DEF TypeOK
<1>3. CASE Proceed(r, "read") /\ provider' \in {provider, NoProvider}
  <2>1. at'[r] = "read"  BY <1>1, <1>3, Proceeded DEF Steps
  <2>2. RequestInv(r)'
    BY <1>1, <2>1 DEF RequestInv, Statements, HasCopy, Holds, Current, Channels
  <2> QED  BY <1>1, <1>3, <2>2, GoOnInv DEF TypeOK, Steps
<1> QED  BY <1>2, <1>3 DEF EnsureValid

LEMMA RefuseInv ==
    ASSUME Inv, NEW r \in Requests, Refuse(r)
    PROVE  Inv'
<1>1. PICK status \in {400, 500} : Reply(r, status)
  BY DEF Refuse
<1>2. ~(kind[r] \in Late /\ at[r] = "remove")
  BY DEF Refuse, Late, First
<1> QED  BY <1>1, <1>2, EndInv DEF Refuse, Inv, TypeOK

LEMMA StatementFailsInv ==
    ASSUME Inv, NEW r \in Requests, StatementFails(r)
    PROVE  Inv'
<1>1. PICK status \in {404, 500} : Reply(r, status)
  BY StepTable DEF StatementFails, Inv, TypeOK
<1> QED  BY <1>1, EndInv DEF StatementFails, Inv, TypeOK

LEMMA RemoveInv ==
    ASSUME Inv, NEW r \in Requests, Remove(r)
    PROVE  Inv'
<1>1. TypeOK /\ kind[r] \in Kinds  BY DEF Inv, TypeOK
<1>2. AfterRemove(kind[r]) \in {"done", "upsert", "erase", "write"}
  BY <1>1, StepTable
<1>3. /\ at' \in [Requests -> Steps]
      /\ answer' \in [Requests -> {0, 200, 400, 404, 500}]
      /\ at'[r] = AfterRemove(kind[r])
      /\ \A q \in Requests \ {r} : at'[q] = at[q]
  BY <1>1, <1>2, Proceeded DEF Remove, Steps
<1>4. at[r] = "remove" /\ provider' = NoProvider
      /\ UNCHANGED <<row, nextId, kind, copy, overtaken, blind>>
  BY DEF Remove
<1>5. TypeOK'  BY <1>1, <1>3, <1>4 DEF TypeOK, NoProvider, Values, Causes
<1>6. RowIdentified'  BY <1>4 DEF Inv, RowIdentified, NoRow
<1>7. SourceHasCause'  BY <1>4 DEF SourceHasCause, NoProvider
<1>8. RequestInv(r)'
  <2>1. CASE AfterRemove(kind[r]) = "done"  BY <1>3, <2>1, EndedKeeps
  <2>2. CASE AfterRemove(kind[r]) # "done"
    <3>1. RequestInv(r) /\ kind[r] \notin Late
      BY <2>2 DEF Inv, AfterRemove, Late
    <3>2. kind[r] \notin {"use", "refresh"}
      BY <1>4, <3>1 DEF RequestInv, Statements
    <3>3. Statements(r)'
      BY <1>2, <1>3, <1>4, <3>1, <3>2 DEF Statements, AfterRemove, Late
    <3>4. HasCopy(r)' /\ (r \notin overtaken' => Current(r)')
      BY <1>2, <1>3, <1>4, <3>1 DEF RequestInv, HasCopy, Holds, Current, Kept
    <3> QED  BY <3>3, <3>4 DEF RequestInv
  <2> QED  BY <2>1, <2>2
<1>9. ASSUME NEW q \in Requests \ {r}  PROVE RequestInv(q)'
  BY <1>3, <1>4, OthersKeep DEF Inv
<1> QED  BY <1>5, <1>6, <1>7, <1>8, <1>9 DEF Inv

LEMMA PanicInv ==
    ASSUME Inv, NEW r \in Requests, Panic(r)
    PROVE  Inv'
<1>1. TypeOK /\ at \in [Requests -> Steps]  BY DEF Inv, TypeOK
<1>2. /\ provider' = NoProvider
      /\ UNCHANGED <<row, nextId, kind, copy, answer, overtaken, blind>>
      /\ at' = [q \in Requests |-> IF at[q] = First[kind[q]] THEN at[q] ELSE "done"]
  BY DEF Panic
<1>3. at' \in [Requests -> Steps]  BY <1>1, <1>2 DEF Steps
<1>4. TypeOK'  BY <1>1, <1>2, <1>3 DEF TypeOK, NoProvider, Values, Causes
<1>5. RowIdentified'  BY <1>2 DEF Inv, RowIdentified, NoRow
<1>6. SourceHasCause'  BY <1>2 DEF SourceHasCause, NoProvider
<1>7. ASSUME NEW q \in Requests  PROVE RequestInv(q)'
  <2>1. at'[q] \in {at[q], "done"}  BY <1>2
  <2>2. CASE at'[q] = "done"  BY <2>2, EndedKeeps
  <2>3. CASE at'[q] = at[q]  BY <1>2, <2>3, OthersKeep DEF Inv
  <2> QED  BY <2>1, <2>2, <2>3
<1> QED  BY <1>4, <1>5, <1>6, <1>7 DEF Inv

LEMMA ProvideInv ==
    ASSUME Inv, NEW r \in Requests, Provide(r)
    PROVE  Inv'
<1>1. TypeOK /\ copy[r] \in Rows /\ RequestInv(r)  BY DEF Inv, TypeOK
<1>2. at[r] = "provide" /\ UNCHANGED <<row, nextId, kind, copy, overtaken, blind>>
  BY DEF Provide
<1>3. CASE Reply(r, 500) /\ UNCHANGED provider
  BY <1>1, <1>2, <1>3, EndInv DEF TypeOK
<1>4. CASE Proceed(r, "done")
           /\ (\/ UNCHANGED provider
               \/ provider' = [field |-> Parsed(copy[r], "options").value["field"],
                               cause |-> IF r \in overtaken THEN "insertedLate"
                                         ELSE IF r \in blind THEN "blind" ELSE "none"])
  <2>1. /\ at' \in [Requests -> Steps]
        /\ answer' \in [Requests -> {0, 200, 400, 404, 500}]
        /\ at'[r] = "done"
        /\ \A q \in Requests \ {r} : at'[q] = at[q]
    BY <1>1, <1>4, Proceeded DEF Steps
  <2>2. /\ Parsed(copy[r], "options").value \in [Settings -> Values]
        /\ "options" \notin copy[r].sealed
           => Parsed(copy[r], "options").value["field"] = copy[r].value["field"]
        /\ "field" \in Settings
    BY <1>1, Table, ParsedTyped, RowTyped
  <2>3. provider' \in [field : Values, cause : Causes]
    BY <1>1, <1>4, <2>2 DEF TypeOK, Causes
  <2>4. TypeOK'  BY <1>1, <1>2, <2>1, <2>3 DEF TypeOK
  <2>5. RowIdentified'  BY <1>2 DEF Inv, RowIdentified, NoRow
  <2>6. SourceHasCause'
    <3>1. CASE UNCHANGED provider
      BY <1>2, <2>1, <3>1, SourceKept DEF Inv
    <3>2. CASE ~UNCHANGED provider /\ provider'.cause = "none"
      <4>1. r \notin overtaken /\ r \notin blind
            /\ provider'.field = Parsed(copy[r], "options").value["field"]
        BY <1>4, <3>2
      <4>2. copy[r].value["field"] = row.value["field"] /\ "options" \notin copy[r].sealed
        BY <1>1, <1>2, <4>1 DEF RequestInv, Current
      <4> QED  BY <1>2, <2>2, <4>1, <4>2 DEF SourceHasCause
    <3> QED  BY <3>1, <3>2 DEF SourceHasCause
  <2>7. RequestInv(r)'  BY <2>1, EndedKeeps
  <2>8. ASSUME NEW q \in Requests \ {r}  PROVE RequestInv(q)'
    BY <1>2, <2>1, OthersKeep DEF Inv
  <2> QED  BY <2>4, <2>5, <2>6, <2>7, <2>8 DEF Inv
<1> QED  BY <1>3, <1>4 DEF Provide

-----------------------------------------------------------------------------
(* The commits.                                                            *)

(* Whatever the new row is, all others are overtaken, and the provider has *)
(* an excuse.                                                              *)
LEMMA CommitInv ==
    ASSUME Inv, NEW r \in Requests, at[r] \in {"write", "upsert", "erase"},
           NEW confirmed \in BOOLEAN, NEW next \in {"done", "remove"},
           next = "remove" <=> kind[r] \in Late,
           NoteCommit(r, confirmed), Outcome(r, confirmed, next),
           UNCHANGED <<kind, copy, blind>>,
           row' \in Rows, row' = NoRow \/ row'.id # 0, nextId' \in Nat \ {0}
    PROVE  Inv'
<1>1. TypeOK /\ provider \in [field : Values, cause : Causes]
  BY DEF Inv, TypeOK
<1>2. /\ at' \in [Requests -> Steps]
      /\ answer' \in [Requests -> {0, 200, 400, 404, 500}]
      /\ at'[r] = IF confirmed THEN next ELSE "done"
      /\ \A q \in Requests \ {r} : at'[q] = at[q]
  <2>1. CASE confirmed  BY <1>1, <2>1, Proceeded DEF Outcome, Steps
  <2>2. CASE ~confirmed  BY <1>1, <2>2, Replied DEF Outcome
  <2> QED  BY <2>1, <2>2
<1>3. overtaken' \subseteq Requests
      /\ \A q \in Requests \ {r} :
            at[q] # "done" /\ copy[q] # NoRow => q \in overtaken'
  BY <1>1 DEF NoteCommit, TypeOK
<1>4. overtaken \subseteq overtaken'  BY DEF NoteCommit
<1>5. \/ /\ UNCHANGED provider
         /\ provider.cause # "none" \/ row'.value["field"] = row.value["field"]
      \/ provider' = [provider EXCEPT !.cause = "notRemoved"]
      \/ provider' = [provider EXCEPT !.cause = "unconfirmed"]
      \/ UNCHANGED provider /\ kind[r] \in Late /\ confirmed
  BY DEF NoteCommit
<1>6. provider' \in [field : Values, cause : Causes]
  BY <1>1, <1>5 DEF Causes
<1>7. TypeOK'  BY <1>1, <1>2, <1>3, <1>6 DEF TypeOK
<1>8. RowIdentified'  BY DEF RowIdentified, NoRow
<1>9. SourceHasCause'
  <2>1. CASE provider' = [provider EXCEPT !.cause = "notRemoved"]
             \/ provider' = [provider EXCEPT !.cause = "unconfirmed"]
    BY <1>1, <2>1 DEF SourceHasCause
  <2>2. CASE kind[r] \in Late /\ confirmed
    BY <1>2, <2>2 DEF SourceHasCause
  <2>3. CASE /\ UNCHANGED provider
             /\ provider.cause # "none" \/ row'.value["field"] = row.value["field"]
    BY <1>2, <2>3 DEF Inv, SourceHasCause
  <2> QED  BY <1>5, <2>1, <2>2, <2>3
<1>10. RequestInv(r)'
  <2>1. CASE at'[r] = "done"  BY <2>1, EndedKeeps
  <2>2. CASE at'[r] = "remove" /\ kind[r] \in Late
    BY <2>2 DEF RequestInv, Statements, HasCopy, Holds, Current, Late
  <2> QED  BY <1>2, <2>1, <2>2
<1>11. ASSUME NEW q \in Requests \ {r}  PROVE RequestInv(q)'
  <2>1. at'[q] = at[q] /\ RequestInv(q)  BY <1>2 DEF Inv
  <2>2. CASE at[q] = "done"  BY <2>1, <2>2, EndedKeeps
  <2>3. CASE q \in overtaken'  BY <1>3, <2>1, <2>3, CommitOvertakes
  <2>4. CASE at[q] # "done" /\ copy[q] = NoRow
    BY <1>4, <2>1, <2>4
    DEF RequestInv, Statements, HasCopy, Holds, Current, NoRow
  <2> QED  BY <1>3, <2>2, <2>3, <2>4
<1> QED  BY <1>7, <1>8, <1>9, <1>10, <1>11 DEF Inv

(* What a handler writes: its own settings, and whatever it holds of the   *)
(* others.                                                                 *)
LEMMA Written ==
    ASSUME TypeOK, NEW r \in Requests, NEW key \in KeyStates,
           NEW new, new = encryptCRMConfigFields(Made(copy[r], r), key)
    PROVE  /\ new \in Rows /\ new.id = copy[r].id
           /\ \A s \in Settings :
                 new.value[s] = IF s \in Requested[kind[r]] THEN r ELSE copy[r].value[s]
<1>1. copy[r] \in Rows /\ key \in BOOLEAN  BY StoreAssumption DEF TypeOK
<1>2. /\ Made(copy[r], r) \in Rows /\ Made(copy[r], r).id = copy[r].id
      /\ \A s \in Settings : Made(copy[r], r).value[s]
            = IF s \in Requested[kind[r]] THEN r ELSE copy[r].value[s]
  BY <1>1, MadeTyped
<1>3. /\ new \in Rows /\ new.id = copy[r].id
      /\ new.value = Made(copy[r], r).value
  <2>1. /\ encryptCRMConfigFields(Made(copy[r], r), key) \in Rows
        /\ encryptCRMConfigFields(Made(copy[r], r), key).id = Made(copy[r], r).id
        /\ encryptCRMConfigFields(Made(copy[r], r), key).value = Made(copy[r], r).value
    BY <1>1, <1>2, Encrypted
  <2> QED  BY <1>2, <2>1
<1> QED  BY <1>1, <1>2, <1>3

(* A write that does not find its row has been overtaken.                  *)
LEMMA WriteFacts ==
    ASSUME Inv, NEW r \in Requests, Write(r)
    PROVE  \E key \in KeyStates, confirmed \in Confirmations :
              /\ Outcome(r, confirmed, AfterWrite(kind[r]))
              /\ \/ /\ row' = encryptCRMConfigFields(Made(copy[r], r), key)
                    /\ row.id = copy[r].id /\ copy[r].id # 0
                    /\ NoteCommit(r, confirmed)
                 \/ /\ UNCHANGED <<row, provider, overtaken>>
                    /\ r \in overtaken
<1>1. Holds(r)  BY DEF Write, Holds, Inv, RequestInv, Statements
<1>2. copy[r].id # 0 /\ (r \notin overtaken => copy[r].id = row.id)
  BY <1>1 DEF Inv, RequestInv, HasCopy, Current
<1> QED  BY <1>2 DEF Write

LEMMA WriteInv ==
    ASSUME Inv, NEW r \in Requests, Write(r)
    PROVE  Inv'
<1>1. TypeOK /\ kind[r] \in Kinds  BY DEF Inv, TypeOK
<1>2. AfterWrite(kind[r]) \in {"done", "remove"}
      /\ (AfterWrite(kind[r]) = "remove" <=> kind[r] \in Late)
  BY DEF AfterWrite
<1>3. PICK key \in KeyStates, confirmed \in Confirmations :
        /\ Outcome(r, confirmed, AfterWrite(kind[r]))
        /\ \/ /\ row' = encryptCRMConfigFields(Made(copy[r], r), key)
              /\ row.id = copy[r].id /\ copy[r].id # 0
              /\ NoteCommit(r, confirmed)
           \/ /\ UNCHANGED <<row, provider, overtaken>>
              /\ r \in overtaken
  BY WriteFacts
<1>4. confirmed \in BOOLEAN  BY DEF Confirmations
<1>5. at[r] = "write" /\ UNCHANGED <<nextId, kind, copy, blind>>  BY DEF Write
<1>6. CASE /\ row' = encryptCRMConfigFields(Made(copy[r], r), key)
           /\ copy[r].id # 0
           /\ NoteCommit(r, confirmed)
  <2>1. row' \in Rows /\ row'.id # 0  BY <1>1, <1>6, Written
  <2>2. nextId' \in Nat \ {0}  BY <1>1, <1>5 DEF TypeOK
  <2> QED  BY <1>2, <1>3, <1>4, <1>5, <1>6, <2>1, <2>2, CommitInv
<1>7. CASE UNCHANGED <<row, provider, overtaken>> /\ r \in overtaken
  <2>1. CASE ~confirmed
    BY <1>1, <1>3, <1>5, <1>7, <2>1, EndInv DEF Outcome, TypeOK
  <2>2. CASE confirmed
    <3>1. Proceed(r, AfterWrite(kind[r]))  BY <1>3, <2>2 DEF Outcome
    <3>2. at'[r] = AfterWrite(kind[r])  BY <1>1, <1>2, <3>1, Proceeded DEF Steps
    <3>3. RequestInv(r)'
      BY <1>2, <1>5, <1>7, <3>2
      DEF RequestInv, Statements, HasCopy, Holds, Late
    <3> QED  BY <1>1, <1>2, <1>5, <1>7, <3>1, <3>3, GoOnInv DEF TypeOK, Steps
  <2> QED  BY <1>4, <2>1, <2>2
<1> QED  BY <1>3, <1>6, <1>7

(* What a request has to write: its settings, and what it holds of the     *)
(* others, except in SaveCRMConfig.                                        *)
LEMMA SentTyped ==
    ASSUME TypeOK, NEW r \in Requests, NEW sent \in Sent(r)
    PROVE  /\ sent \in Rows
           /\ \A s \in Requested[kind[r]] \cap Settings : sent.value[s] = r
           /\ kind[r] # "save" => sent = Made(copy[r], r)
<1> DEFINE made == Made(copy[r], r)
           more == [made.value EXCEPT !["tokens"] = r]
<1>1. /\ made \in Rows /\ made.value \in [Settings -> Values]
      /\ \A s \in Requested[kind[r]] \cap Settings : made.value[s] = r
  BY MadeTyped, RowTyped DEF TypeOK
<1>2. \/ sent = made
      \/ kind[r] = "save" /\ sent = [made EXCEPT !.value = more]
  BY DEF Sent
<1> HIDE DEF made
<1>3. /\ more \in [Settings -> Values]
      /\ \A s \in Requested[kind[r]] \cap Settings : more[s] = r
  BY <1>1 DEF Values
<1> HIDE DEF more
<1>4. CASE sent = made  BY <1>1, <1>4 DEF made
<1>5. CASE kind[r] = "save" /\ sent = [made EXCEPT !.value = more]
  BY <1>1, <1>3, <1>5 DEF Rows
<1> QED  BY <1>2, <1>4, <1>5

(* What an upsert writes.                                                  *)
LEMMA UpsertFacts ==
    ASSUME Inv, NEW r \in Requests, Upsert(r)
    PROVE  /\ row' \in Rows /\ row'.id # 0
           /\ nextId' \in Nat \ {0}
           /\ \A s \in Requested[kind[r]] \cap Settings : row'.value[s] = r
           /\ kind[r] # "save"
              => \A s \in Settings \ Requested[kind[r]] :
                    row'.value[s] = copy[r].value[s]
<1>1. TypeOK /\ nextId \in Nat \ {0} /\ row.id \in Nat /\ (row = NoRow \/ row.id # 0)
      /\ copy[r] \in Rows
  BY RowTyped DEF Inv, TypeOK, RowIdentified
<1>2. PICK key \in KeyStates, sent \in Sent(r) :
        row' = [encryptCRMConfigFields(sent, key)
                  EXCEPT !.id = IF row = NoRow THEN nextId ELSE row.id]
  BY DEF Upsert
<1> DEFINE new == encryptCRMConfigFields(sent, key)
           id  == IF row = NoRow THEN nextId ELSE row.id
<1>3. id \in Nat \ {0}  BY <1>1
<1>4. sent \in Rows /\ key \in BOOLEAN  BY <1>1, SentTyped, StoreAssumption
<1>5. new \in Rows /\ new.value = sent.value  BY <1>4, Encrypted
<1>6. row' = [new EXCEPT !.id = id]  BY <1>2
<1>7. nextId' \in Nat \ {0}  BY <1>1 DEF Upsert
<1> HIDE DEF new, id
<1>8. row' \in Rows /\ row'.id = id /\ row'.value = sent.value
  BY <1>3, <1>5, <1>6 DEF Rows
<1>9. \A s \in Settings \ Requested[kind[r]] :
        Made(copy[r], r).value[s] = copy[r].value[s]
  BY <1>1, MadeTyped
<1> QED  BY <1>1, <1>3, <1>7, <1>8, <1>9, SentTyped

LEMMA UpsertInv ==
    ASSUME Inv, NEW r \in Requests, Upsert(r)
    PROVE  Inv'
<1>1. PICK confirmed \in Confirmations :
        NoteCommit(r, confirmed) /\ Outcome(r, confirmed, "done")
  BY DEF Upsert
<1>2. confirmed \in BOOLEAN  BY DEF Confirmations
<1>3. at[r] = "upsert" /\ UNCHANGED <<kind, copy, blind>> /\ kind[r] \notin Late
  BY DEF Upsert, Inv, RequestInv, Statements, Late
<1>4. row' \in Rows /\ row'.id # 0 /\ nextId' \in Nat \ {0}
  BY UpsertFacts
<1> QED  BY <1>1, <1>2, <1>3, <1>4, CommitInv

LEMMA EraseInv ==
    ASSUME Inv, NEW r \in Requests, Erase(r)
    PROVE  Inv'
<1>1. PICK confirmed \in Confirmations :
        /\ Outcome(r, confirmed, "done")
        /\ \/ row' = NoRow /\ NoteCommit(r, confirmed)
           \/ UNCHANGED <<row, provider, overtaken>>
  BY DEF Erase
<1>2. at[r] = "erase" /\ UNCHANGED <<nextId, kind, copy, blind>> /\ kind[r] \notin Late
  BY DEF Erase, Inv, RequestInv, Statements, Late
<1>3. TypeOK /\ confirmed \in BOOLEAN  BY DEF Inv, Confirmations
<1>4. CASE row' = NoRow /\ NoteCommit(r, confirmed)
  <2>1. row' \in Rows  BY <1>4, NoRowTyped
  <2>3. nextId' \in Nat \ {0}  BY <1>2, <1>3 DEF TypeOK
  <2> QED  BY <1>1, <1>2, <1>3, <1>4, <2>1, <2>3, CommitInv
<1>5. CASE UNCHANGED <<row, provider, overtaken>>
  <2>1. CASE ~confirmed
    BY <1>1, <1>2, <1>3, <1>5, <2>1, EndInv DEF Outcome, TypeOK
  <2>2. CASE confirmed
    <3>1. Proceed(r, "done")  BY <1>1, <2>2 DEF Outcome
    <3>2. RequestInv(r)'
      BY <1>3, <3>1, Proceeded, EndedKeeps DEF Steps
    <3> QED  BY <1>2, <1>3, <1>5, <3>1, <3>2, GoOnInv DEF TypeOK, Steps
  <2> QED  BY <1>3, <2>1, <2>2
<1> QED  BY <1>1, <1>4, <1>5

-----------------------------------------------------------------------------
(* The invariant holds throughout.                                         *)

LEMMA InitInv == Init => Inv
<1> SUFFICES ASSUME Init  PROVE Inv
  OBVIOUS
<1>1. row \in Rows /\ RowIdentified
  <2>1. CASE row = NoRow  BY <2>1, NoRowTyped DEF RowIdentified
  <2>2. CASE row # NoRow
    <3>1. PICK key \in KeyStates :
            row = [id |-> 1, value |-> [s \in Settings |-> Old],
                   sealed |-> IF key THEN Protected ELSE {}]
      BY <2>2 DEF Init
    <3> DEFINE old    == [s \in Settings |-> Old]
               closed == IF key THEN Protected ELSE {}
    <3>2. old \in [Settings -> Values]  BY DEF Values
    <3>3. closed \in SUBSET Protected  OBVIOUS
    <3>4. row = [id |-> 1, value |-> old, sealed |-> closed]  BY <3>1
    <3> HIDE DEF old, closed
    <3> QED  BY <3>2, <3>3, <3>4 DEF Rows, RowIdentified
  <2> QED  BY <2>1, <2>2
<1>2. provider \in [field : Values, cause : Causes] /\ SourceHasCause
  <2>1. CASE provider = NoProvider
    BY <2>1 DEF NoProvider, Values, Causes, SourceHasCause
  <2>2. CASE provider # NoProvider
    <3>1. row # NoRow /\ provider = [field |-> Old, cause |-> "none"]
      BY <2>2 DEF Init
    <3>2. row.value["field"] = Old  BY <3>1, Table DEF Init
    <3> QED  BY <3>1, <3>2 DEF Values, Causes, SourceHasCause
  <2> QED  BY <2>1, <2>2
<1>3. at \in [Requests -> Steps]
      /\ \A r \in Requests : at[r] = First[kind[r]] /\ kind[r] \in Kinds
  BY StepTable DEF Init, Steps
<1>4. TypeOK  BY <1>1, <1>2, <1>3, NoRowTyped DEF Init, TypeOK
<1>5. ASSUME NEW r \in Requests  PROVE RequestInv(r)
  <2>1. at[r] \in {"look", "check", "read", "remove"}  BY <1>3, StepTable
  <2>2. Statements(r) /\ (at[r] = "remove" => kind[r] = "save")
        /\ (at[r] = "read" => kind[r] \notin Channels)
    BY <1>3, <2>1, StoreAssumption DEF Statements, First, Channels
  <2> QED  BY <2>1, <2>2 DEF RequestInv, HasCopy, Current, Holds
<1> QED  BY <1>1, <1>2, <1>4, <1>5 DEF Inv

LEMMA NextInv == Inv /\ [Next]_vars => Inv'
<1> SUFFICES ASSUME Inv, [Next]_vars  PROVE Inv'
  OBVIOUS
<1>1. ASSUME NEW r \in Requests, Step(r)  PROVE Inv'
  BY <1>1, RefuseInv, LookInv, ReadInv, StatementFailsInv, WriteInv, UpsertInv, EraseInv,
     EnsureValidInv, RemoveInv, PanicInv, ProvideInv DEF Step
<1>2. CASE UNCHANGED vars
  <2>1. TypeOK' /\ RowIdentified' /\ SourceHasCause'
    BY <1>2 DEF vars, Inv, TypeOK, RowIdentified, SourceHasCause, NoRow
  <2>2. \A r \in Requests : RequestInv(r)'
    BY <1>2, OthersKeep DEF vars, Inv
  <2> QED  BY <2>1, <2>2 DEF Inv
<1> QED  BY <1>1, <1>2 DEF Next

LEMMA InvHolds == Spec => []Inv
BY InitInv, NextInv, PTL DEF Spec

-----------------------------------------------------------------------------
(* The theorems.                                                           *)

(* Row, provider, copies and answers keep their types.                     *)
THEOREM TypeCorrect == Spec => []TypeOK
<1>1. Inv => TypeOK  BY DEF Inv
<1> QED  BY <1>1, InvHolds, PTL

(* While every access to the row has the master key, a column that holds   *)
(* anything is encrypted, whatever fails and in whatever order the         *)
(* handlers come.  Without that assumption it is not so: a write without   *)
(* the key stores plain text.                                              *)
AllSealed == Filled(row.value) \subseteq row.sealed

THEOREM Sealed ==
    ASSUME KeyStates = {TRUE}
    PROVE  Spec => []AllSealed
<1>1. Init => AllSealed
  <2> SUFFICES ASSUME Init  PROVE AllSealed
    OBVIOUS
  <2>1. CASE row = NoRow
    BY <2>1 DEF AllSealed, Filled, NoRow, In
  <2>2. CASE row # NoRow
    <3>1. row.sealed = Protected  BY <2>2 DEF Init
    <3> QED  BY <3>1 DEF AllSealed, Filled
  <2> QED  BY <2>1, <2>2
<1>2. Inv /\ AllSealed /\ [Next]_vars => AllSealed'
  <2> SUFFICES ASSUME Inv, AllSealed, [Next]_vars  PROVE AllSealed'
    OBVIOUS
  <2>1. CASE UNCHANGED row  BY <2>1 DEF AllSealed
  <2>2. ASSUME NEW r \in Requests, Write(r) \/ Upsert(r)  PROVE AllSealed'
    <3>1. TypeOK /\ copy[r] \in Rows  BY DEF Inv, TypeOK
    <3>2. CASE ~UNCHANGED row
      <4>1. PICK sent \in Sent(r) :
              \E id : row' = [encryptCRMConfigFields(sent, TRUE) EXCEPT !.id = id]
        <5>1. CASE Write(r)
          <6>1. row' = encryptCRMConfigFields(Made(copy[r], r), TRUE)
            BY <3>2, <5>1 DEF Write
          <6>2. encryptCRMConfigFields(Made(copy[r], r), TRUE) \in Rows
            BY <3>1, MadeTyped, Encrypted
          <6>3. row' = [encryptCRMConfigFields(Made(copy[r], r), TRUE)
                          EXCEPT !.id = row'.id]
            BY <6>1, <6>2 DEF Rows
          <6>4. Made(copy[r], r) \in Sent(r)  BY DEF Sent
          <6> QED  BY <6>3, <6>4
        <5>2. CASE Upsert(r)  BY <5>2 DEF Upsert
        <5> QED  BY <2>2, <5>1, <5>2
      <4> DEFINE new == encryptCRMConfigFields(sent, TRUE)
      <4>2. new \in Rows /\ Filled(new.value) \subseteq new.sealed
        BY <3>1, SentTyped, Encrypted
      <4>3. PICK id : row' = [new EXCEPT !.id = id]  BY <4>1
      <4> HIDE DEF new
      <4>4. row'.value = new.value /\ row'.sealed = new.sealed
        BY <4>2, <4>3 DEF Rows
      <4> QED  BY <4>2, <4>4 DEF AllSealed
    <3> QED  BY <2>1, <3>2
  <2>3. ASSUME NEW r \in Requests, Erase(r), row' = NoRow  PROVE AllSealed'
    BY <2>3 DEF AllSealed, Filled, NoRow, In
  <2>4. ASSUME NEW r \in Requests, Step(r)  PROVE AllSealed'
    BY <2>1, <2>2, <2>3, <2>4
    DEF Step, Refuse, Look, EnsureValid, Read, StatementFails, Erase, Remove,
        Panic, Provide
  <2> QED  BY <2>1, <2>4 DEF Next, vars
<1> QED  BY <1>1, <1>2, InvHolds, PTL DEF Spec

(* A cached provider that knows another source field than the row has one  *)
(* of the excuses of StaleSourceHasCause.                                  *)
THEOREM StaleSource == Spec => []StaleSourceHasCause
<1>1. Inv => StaleSourceHasCause
  BY DEF Inv, SourceHasCause, StaleSourceHasCause
<1> QED  BY <1>1, InvHolds, PTL

(* Only the step of a request itself changes where it is, or the end of    *)
(* the process.                                                            *)
LEMMA OwnStep ==
    ASSUME Inv, [Next]_vars, NEW r \in Requests,
           at[r] \in {"write", "upsert"}, at'[r] # at[r]
    PROVE  \/ StatementFails(r)
           \/ Write(r)
           \/ Upsert(r)
           \/ \E q \in Requests : Panic(q)
<1>1. at \in [Requests -> Steps] /\ kind[r] \in Kinds  BY DEF Inv, TypeOK
<1>2. PICK q \in Requests : Step(q)  BY DEF Next, vars
<1> SUFFICES ASSUME ~Panic(q)  PROVE StatementFails(r) \/ Write(r) \/ Upsert(r)
  OBVIOUS
<1>3. q = r
  <2> SUFFICES ASSUME q # r  PROVE at'[r] = at[r]
    OBVIOUS
  <2>1. \A step : Proceed(q, step) \/ Reply(q, step) => at'[r] = at[r]
    BY <1>1 DEF Proceed, Reply
  <2>2. CASE Refuse(q) \/ StatementFails(q)  BY <2>1, <2>2 DEF Refuse, StatementFails
  <2>3. CASE Look(q) \/ EnsureValid(q) \/ Read(q)
    BY <2>1, <2>3 DEF Look, EnsureValid, Read
  <2>4. CASE Write(q) \/ Upsert(q) \/ Erase(q)
    BY <2>1, <2>4 DEF Write, Upsert, Erase, Outcome
  <2>5. CASE Remove(q) \/ Provide(q)  BY <2>1, <2>5 DEF Remove, Provide
  <2> QED  BY <1>2, <2>2, <2>3, <2>4, <2>5 DEF Step
<1>4. ~Refuse(r)
  <2>1. First[kind[r]] \in {"look", "check", "read", "remove"}  BY <1>1, StepTable
  <2> QED  BY <2>1 DEF Refuse
<1> QED
  BY <1>2, <1>3, <1>4 DEF Step, Look, EnsureValid, Read, Erase, Remove, Provide

(* The settings a write changes and is not about have one of the two       *)
(* causes of LossHasCause.                                                 *)
LEMMA StepLoss ==
    ASSUME Inv, [Next]_vars, NEW r \in Requests, NEW s \in Settings,
           at[r] \in {"write", "upsert"}, at'[r] # at[r],
           row'.value[s] # row.value[s], s \notin Changes(kind[r]), r \notin overtaken
    PROVE  r \in blind /\ s \in In(ParsedColumn(kind[r]))
<1>1. TypeOK  BY DEF Inv
<1>2. s \notin Requested[kind[r]] /\ kind[r] # "save"
  <2>1. s \notin Requested[kind[r]]  BY DEF Changes
  <2>2. CASE kind[r] = "save"  BY <2>2 DEF Changes, First
  <2> QED  BY <2>1, <2>2
<1>3. row'.value[s] = copy[r].value[s]
  <2>1. CASE StatementFails(r)  BY <2>1 DEF StatementFails
  <2>2. CASE Write(r)
    <3>1. PICK key \in KeyStates : row' = encryptCRMConfigFields(Made(copy[r], r), key)
      BY <2>2, WriteFacts
    <3> QED  BY <1>1, <1>2, <3>1, Written
  <2>3. CASE Upsert(r)  BY <1>2, <2>3, UpsertFacts
  <2>4. CASE \E q \in Requests : Panic(q)  BY <2>4 DEF Panic
  <2> QED  BY <2>1, <2>2, <2>3, <2>4, OwnStep
<1>4. Kept(r, s)  BY <1>2 DEF Inv, RequestInv, Current, Holds
<1> QED  BY <1>3, <1>4 DEF Kept

(* Only a request that has ended has been answered.                        *)
Unanswered == \A r \in Requests : at[r] # "done" => answer[r] = 0

LEMMA AnsweredAtEnd == Spec => []Unanswered
<1>1. Init => Unanswered  BY DEF Init, Unanswered
<1>2. Inv /\ Unanswered /\ [Next]_vars => Unanswered'
  <2> SUFFICES ASSUME Inv, Unanswered, [Next]_vars  PROVE Unanswered'
    OBVIOUS
  <2>1. at \in [Requests -> Steps] /\ answer \in [Requests -> {0, 200, 400, 404, 500}]
    BY DEF Inv, TypeOK
  <2>2. ASSUME NEW r \in Requests,
               at[r] # "done",
               (\E status : Reply(r, status)) \/ (\E step : Proceed(r, step))
        PROVE  Unanswered'
    <3>1. /\ at'[r] = "done" \/ answer' = answer
          /\ \A q \in Requests \ {r} : at'[q] = at[q] /\ answer'[q] = answer[q]
      BY <2>1, <2>2 DEF Reply, Proceed
    <3> QED  BY <2>2, <3>1 DEF Unanswered
  <2>3. ASSUME NEW r \in Requests, Panic(r)  PROVE Unanswered'
    BY <2>1, <2>3 DEF Unanswered, Panic
  <2>4. ASSUME NEW r \in Requests, Step(r)  PROVE Unanswered'
    <3>1. CASE Panic(r)  BY <2>3, <3>1
    <3>2. CASE ~Panic(r)
      <4>1. First[kind[r]] # "done"  BY StepTable DEF Inv, TypeOK
      <4>2. at[r] # "done"
        BY <2>4, <3>2, <4>1 DEF Step, Refuse, Look, EnsureValid, Read,
           StatementFails, Write, Upsert, Erase, Remove, Provide
      <4>3. (\E status : Reply(r, status)) \/ (\E step : Proceed(r, step))
        BY <2>4, <3>2 DEF Step, Refuse, Look, EnsureValid, Read,
           StatementFails, Write, Upsert, Erase, Outcome, Remove, Provide
      <4> QED  BY <2>2, <4>2, <4>3
    <3> QED  BY <3>1, <3>2
  <2>5. CASE UNCHANGED vars  BY <2>5 DEF Unanswered, vars
  <2> QED  BY <2>4, <2>5 DEF Next
<1> QED  BY <1>1, <1>2, InvHolds, PTL DEF Spec

(* What a successful update is about is in the row, or it was overtaken.   *)
LEMMA StepAcknowledged ==
    ASSUME Inv, Unanswered, [Next]_vars, NEW r \in Requests, NEW s \in Requested[kind[r]],
           at[r] \in {"write", "upsert"}, at'[r] # at[r],
           answer'[r] = 200 \/ at'[r] = "remove", r \notin overtaken
    PROVE  row'.value[s] = r
<1>1. TypeOK /\ kind[r] \in Kinds /\ s \in Settings  BY StepTable DEF Inv, TypeOK
<1>2. CASE StatementFails(r)
  <2>1. Reply(r, 500)  BY <1>2 DEF StatementFails
  <2> QED  BY <1>1, <2>1, Replied
<1>3. CASE Write(r)
  <2>1. PICK key \in KeyStates : row' = encryptCRMConfigFields(Made(copy[r], r), key)
    BY <1>3, WriteFacts
  <2> QED  BY <1>1, <2>1, Written
<1>4. CASE Upsert(r)  BY <1>1, <1>4, UpsertFacts
<1>5. ASSUME NEW q \in Requests, Panic(q)  PROVE FALSE
  <2>1. at'[r] \in {at[r], "done"} /\ answer' = answer  BY <1>5 DEF Panic
  <2>2. answer[r] # 200  BY <1>1 DEF Unanswered
  <2> QED  BY <2>1, <2>2
<1> QED  BY <1>2, <1>3, <1>4, <1>5, OwnStep

(* A write loses a setting of somebody else only because it was overtaken  *)
(* or could not decrypt the column it was to change.                       *)
THEOREM LossExplained == Spec => LossHasCause
<1>1. Inv /\ [Next]_vars
      => [\A r \in Requests, s \in Settings :
            /\ at[r] \in {"write", "upsert"} /\ at'[r] # at[r]
            /\ row'.value[s] # row.value[s]
            => \/ s \in Changes(kind[r])
               \/ r \in overtaken
               \/ r \in blind /\ s \in In(ParsedColumn(kind[r]))]_vars
  BY StepLoss
<1> QED  BY <1>1, InvHolds, PTL DEF Spec, LossHasCause

(* An update answered with success, or followed by the removal of the      *)
(* provider, is in the row or was overtaken.                               *)
THEOREM AcknowledgedHolds == Spec => AcknowledgedStored
<1>1. Inv /\ Unanswered /\ [Next]_vars
      => [\A r \in Requests :
            /\ at[r] \in {"write", "upsert"} /\ at'[r] # at[r]
            /\ answer'[r] = 200 \/ at'[r] = "remove"
            => \/ r \in overtaken
               \/ \A s \in Requested[kind[r]] : row'.value[s] = r]_vars
  BY StepAcknowledged
<1> QED  BY <1>1, InvHolds, AnsweredAtEnd, PTL DEF Spec, AcknowledgedStored

=============================================================================
