---------------------------- MODULE LeadFanoutProofs ----------------------------
(***************************************************************************)
(* Proofs about LeadFanout and the ProviderRegistry in it, for any sets of *)
(* requests and configurations and any mappings.                           *)
(***************************************************************************)
EXTENDS LeadFanout, SequenceTheorems, TLAPS

(* What the registry's own actions keep: a request that got its provider   *)
(* since the last removal has the cached one.                              *)
HoldsCurrent ==
    \A r \in Requests :
       LET h == holds[r]
       IN  IF h.config = Nobody THEN h.provider = 0
           ELSE /\ h.removed <= removals[h.config]
                /\ h.removed = removals[h.config]
                   => h.provider # 0 /\ instances[h.config] = h.provider

RegistryInv == RegistryTypeOK /\ HoldsCurrent /\ SharedProvider

RequestTypeOK ==
    /\ kind \in [Requests -> Kinds]
    /\ at \in [Requests -> Places]
    /\ todo \in [Requests -> Seq(Configs)]
    /\ skipped \in [Requests -> Nat]
    /\ lastError \in [Requests -> BOOLEAN]
    /\ successes \in [Requests -> Nat]
    /\ answer \in [Requests -> {0, 200, 201, 400, 500}]

(* A request that is under way has a configuration to deal with, and only  *)
(* one that has ended has an answer.                                       *)
Busy ==
    \A r \in Requests :
       /\ at[r] \notin {"start", "done"} => todo[r] # <<>>
       /\ at[r] # "done" => answer[r] = 0

NoLeadSucceeds == \A r \in Requests : kind[r] = "lead" => successes[r] = 0

RequestInv == RequestTypeOK /\ Busy /\ NoLeadSucceeds /\ CreatedMeansSkipped

(* Who initializes a provider holds the mutex, and nothing is cached yet.  *)
Initializing ==
    \A r \in Requests :
       at[r] = "initialize" => mu = r /\ instances[Target(r)] = 0

WorldTypeOK ==
    /\ config \in [Configs -> {"active", "inactive", "missing"}]
    /\ changes \in 0..MaxChanges

Inv == RegistryInv /\ RequestInv /\ Initializing /\ WorldTypeOK

-----------------------------------------------------------------------------
(* The registry.                                                           *)

(* The provider found is the cached one.                                   *)
LEMMA GetKeeps ==
    ASSUME RegistryInv, NEW r \in Requests, NEW c \in Configs, GetProvider(r, c)
    PROVE  RegistryInv'
<1>1. /\ holds' = [holds EXCEPT ![r] = Holding(c, instances[c], removals[c])]
      /\ instances' = instances /\ removals' = removals /\ mu' = mu /\ made' = made
      /\ instances[c] # 0
  BY DEF GetProvider
<1>2. /\ instances[c] \in Nat /\ removals[c] \in Nat
      /\ holds \in [Requests -> [config : Configs \cup {Nobody},
                                 provider : Nat, removed : Nat]]
  BY DEF RegistryInv, RegistryTypeOK
<1>3. Holding(c, instances[c], removals[c]) \in
         [config : Configs \cup {Nobody}, provider : Nat, removed : Nat]
  BY <1>2 DEF Holding
<1>4. RegistryTypeOK'
  BY <1>1, <1>2, <1>3 DEF RegistryInv, RegistryTypeOK
<1>5. /\ holds'[r].config = c /\ holds'[r].provider = instances[c]
      /\ holds'[r].removed = removals[c]
      /\ \A q \in Requests \ {r} : holds'[q] = holds[q]
  BY <1>1, <1>2 DEF Holding
<1>6. HoldsCurrent'
  BY <1>1, <1>2, <1>5, RegistryAssumption DEF RegistryInv, HoldsCurrent
<1>7. SharedProvider'
  BY <1>1, <1>2, <1>5, RegistryAssumption DEF RegistryInv, HoldsCurrent, SharedProvider
<1> QED  BY <1>4, <1>6, <1>7 DEF RegistryInv

(* The provider made is the only one since the last removal.               *)
LEMMA EndKeeps ==
    ASSUME RegistryInv, NEW r \in Requests, NEW c \in Configs, instances[c] = 0,
           EndInitialize(r, c)
    PROVE  RegistryInv'
<1>1. /\ holds' = [holds EXCEPT ![r] = Holding(c, made + 1, removals[c])]
      /\ instances' = [instances EXCEPT ![c] = made + 1]
      /\ removals' = removals /\ mu' = Nobody /\ made' = made + 1
  BY DEF EndInitialize
<1>2. /\ made \in Nat /\ removals[c] \in Nat /\ instances \in [Configs -> Nat]
      /\ holds \in [Requests -> [config : Configs \cup {Nobody},
                                 provider : Nat, removed : Nat]]
  BY DEF RegistryInv, RegistryTypeOK
<1>3. Holding(c, made + 1, removals[c]) \in
         [config : Configs \cup {Nobody}, provider : Nat, removed : Nat]
  BY <1>2 DEF Holding
<1>4. RegistryTypeOK'
  BY <1>1, <1>2, <1>3 DEF RegistryInv, RegistryTypeOK
<1>5. /\ holds'[r].config = c /\ holds'[r].provider = made + 1
      /\ holds'[r].removed = removals[c]
      /\ \A q \in Requests \ {r} : holds'[q] = holds[q]
      /\ instances'[c] = made + 1
      /\ \A d \in Configs \ {c} : instances'[d] = instances[d]
  BY <1>1, <1>2 DEF Holding
<1>6. \A q \in Requests : holds[q].config = c => holds[q].removed # removals[c]
  BY <1>2, RegistryAssumption DEF RegistryInv, HoldsCurrent
<1>7. HoldsCurrent'
  <2> SUFFICES ASSUME NEW q \in Requests
               PROVE  IF holds'[q].config = Nobody THEN holds'[q].provider = 0
                      ELSE /\ holds'[q].removed <= removals'[holds'[q].config]
                           /\ holds'[q].removed = removals'[holds'[q].config]
                              => /\ holds'[q].provider # 0
                                 /\ instances'[holds'[q].config] = holds'[q].provider
    BY DEF HoldsCurrent
  <2>1. CASE q = r
    BY <1>1, <1>2, <1>5, <2>1, RegistryAssumption
  <2>2. CASE q # r
    <3>1. holds'[q] = holds[q] /\ holds[q].config \in Configs \cup {Nobody}
      BY <1>2, <1>5, <2>2
    <3>2. IF holds[q].config = Nobody THEN holds[q].provider = 0
          ELSE /\ holds[q].removed <= removals[holds[q].config]
               /\ holds[q].removed = removals[holds[q].config]
                  => /\ holds[q].provider # 0
                     /\ instances[holds[q].config] = holds[q].provider
      BY DEF RegistryInv, HoldsCurrent
    <3> QED  BY <1>1, <1>5, <1>6, <3>1, <3>2
  <2> QED  BY <2>1, <2>2
<1>8. SharedProvider'
  BY <1>1, <1>2, <1>5, <1>6 DEF RegistryInv, SharedProvider
<1> QED  BY <1>4, <1>7, <1>8 DEF RegistryInv

(* After a removal nobody has a current provider.                          *)
LEMMA RemoveKeeps ==
    ASSUME RegistryInv, NEW c \in Configs, RemoveProvider(c)
    PROVE  RegistryInv'
<1>1. /\ holds' = holds /\ made' = made /\ mu' = mu
      /\ instances' = [instances EXCEPT ![c] = 0]
      /\ removals' = [removals EXCEPT ![c] = @ + 1]
  BY DEF RemoveProvider
<1>2. /\ removals \in [Configs -> Nat] /\ instances \in [Configs -> Nat]
      /\ holds \in [Requests -> [config : Configs \cup {Nobody},
                                 provider : Nat, removed : Nat]]
  BY DEF RegistryInv, RegistryTypeOK
<1>3. RegistryTypeOK'
  BY <1>1, <1>2 DEF RegistryInv, RegistryTypeOK
<1>4. HoldsCurrent'
  <2> SUFFICES ASSUME NEW q \in Requests
               PROVE  IF holds[q].config = Nobody THEN holds[q].provider = 0
                      ELSE /\ holds[q].removed <= removals'[holds[q].config]
                           /\ holds[q].removed = removals'[holds[q].config]
                              => /\ holds[q].provider # 0
                                 /\ instances'[holds[q].config] = holds[q].provider
    BY <1>1 DEF HoldsCurrent
  <2>1. /\ holds[q].config \in Configs \cup {Nobody}
        /\ holds[q].removed \in Nat
    BY <1>2
  <2>2. IF holds[q].config = Nobody THEN holds[q].provider = 0
        ELSE /\ holds[q].removed <= removals[holds[q].config]
             /\ holds[q].removed = removals[holds[q].config]
                => /\ holds[q].provider # 0
                   /\ instances[holds[q].config] = holds[q].provider
    BY DEF RegistryInv, HoldsCurrent
  <2>3. CASE holds[q].config = c
    BY <1>1, <1>2, <2>1, <2>2, <2>3, RegistryAssumption
  <2>4. CASE holds[q].config # c
    BY <1>1, <1>2, <2>1, <2>2, <2>4
  <2> QED  BY <2>3, <2>4
<1>5. SharedProvider'
  BY <1>1 DEF RegistryInv, SharedProvider
<1> QED  BY <1>3, <1>4, <1>5 DEF RegistryInv

(* Nothing but the holder of the mutex changes.                            *)
LEMMA MutexKeeps ==
    ASSUME RegistryInv, mu' \in Requests \cup {Nobody},
           UNCHANGED <<instances, made, removals, holds>>
    PROVE  RegistryInv'
BY DEF RegistryInv, RegistryTypeOK, HoldsCurrent, SharedProvider

-----------------------------------------------------------------------------
(* The requests.                                                           *)

(* A step moves one request only.                                          *)
Alone(r) ==
    /\ kind' = kind
    /\ at'[r] \in Places /\ todo'[r] \in Seq(Configs)
    /\ \A q \in Requests \ {r} : at'[q] = at[q] /\ todo'[q] = todo[q]

(* An answer other than 201 ends a request.                                *)
LEMMA ReplyKeeps ==
    ASSUME RequestInv, NEW r \in Requests, NEW status \in {200, 400, 500},
           Reply(r, status)
    PROVE  RequestInv' /\ Alone(r) /\ at'[r] = "done"
<1> USE DEF RequestInv, RequestTypeOK
<1>1. /\ at' = [at EXCEPT ![r] = "done"]
      /\ answer' = [answer EXCEPT ![r] = status]
      /\ kind' = kind /\ todo' = todo /\ skipped' = skipped
      /\ lastError' = lastError /\ successes' = successes
  BY DEF Reply, Go
<1>2. RequestTypeOK'
  BY <1>1 DEF Places
<1>3. Busy'
  BY <1>1 DEF Busy
<1>4. NoLeadSucceeds'
  BY <1>1 DEF NoLeadSucceeds
<1>5. CreatedMeansSkipped'
  <2> SUFFICES ASSUME NEW q \in Requests, kind[q] = "lead", answer'[q] = 201
               PROVE  skipped[q] > 0 /\ ~lastError[q] /\ successes[q] = 0
    BY <1>1 DEF CreatedMeansSkipped
  <2>1. answer[q] = 201
    BY <1>1
  <2> QED  BY <2>1 DEF CreatedMeansSkipped
<1> QED  BY <1>1, <1>2, <1>3, <1>4, <1>5 DEF Alone, Places

(* A request goes on to another place.                                     *)
LEMMA ProceedKeeps ==
    ASSUME RequestInv, NEW r \in Requests, at[r] \notin {"start", "done"},
           NEW place \in Places \ {"start", "done"}, Proceed(r, place)
    PROVE  RequestInv' /\ Alone(r) /\ at'[r] = place /\ todo' = todo
<1> USE DEF RequestInv, RequestTypeOK
<1>1. /\ at' = [at EXCEPT ![r] = place]
      /\ answer' = answer
      /\ kind' = kind /\ todo' = todo /\ skipped' = skipped
      /\ lastError' = lastError /\ successes' = successes
  BY DEF Proceed, Go
<1>2. RequestTypeOK'
  BY <1>1
<1>3. Busy'
  BY <1>1 DEF Busy
<1>4. NoLeadSucceeds' /\ CreatedMeansSkipped'
  BY <1>1 DEF NoLeadSucceeds, CreatedMeansSkipped
<1> QED  BY <1>1, <1>2, <1>3, <1>4 DEF Alone

(* The next mapping of a lead: one has failed or has been skipped.         *)
LEMMA NextMappingKeeps ==
    ASSUME RequestInv, NEW r \in Requests, at[r] \notin {"start", "done"},
           kind[r] = "lead", NEW failed \in BOOLEAN, NEW skip \in {0, 1},
           failed \/ skip = 1, NextMapping(r, failed, 0, skip)
    PROVE  RequestInv' /\ Alone(r) /\ at'[r] \in {"config", "done"}
<1> USE DEF RequestInv, RequestTypeOK
<1>1. todo[r] \in Seq(Configs) /\ todo[r] # <<>> /\ answer[r] = 0
  BY DEF Busy
<1>2. /\ todo' = [todo EXCEPT ![r] = Tail(@)]
      /\ skipped' = [skipped EXCEPT ![r] = @ + skip]
      /\ lastError' = [lastError EXCEPT ![r] = @ \/ failed]
      /\ successes' = [successes EXCEPT ![r] = @ + 0]
      /\ at' = [at EXCEPT ![r] = IF Len(todo[r]) = 1 THEN "done" ELSE "config"]
      /\ answer' = IF Len(todo[r]) = 1
                   THEN [answer EXCEPT ![r] = Verdict(lastError'[r], successes'[r])]
                   ELSE answer
      /\ kind' = kind
  BY DEF NextMapping, Go
<1>3. /\ Tail(todo[r]) \in Seq(Configs)
      /\ Len(todo[r]) # 1 => Tail(todo[r]) # <<>>
  <2>1. /\ Tail(todo[r]) \in Seq(Configs)
        /\ Len(Tail(todo[r])) = Len(todo[r]) - 1
    BY <1>1, HeadTailProperties
  <2>2. Len(todo[r]) \in Nat \ {0} /\ Len(<<>>) = 0
    BY <1>1, EmptySeq, Zenon
  <2>3. Len(todo[r]) # 1 => Len(todo[r]) - 1 # 0
    BY <2>2
  <2> QED  BY <2>1, <2>2, <2>3, Zenon
<1>4. /\ todo' \in [Requests -> Seq(Configs)] /\ todo'[r] = Tail(todo[r])
      /\ \A q \in Requests \ {r} : todo'[q] = todo[q]
  BY <1>2, <1>3
<1>5. /\ successes' \in [Requests -> Nat] /\ successes'[r] = 0
      /\ \A q \in Requests \ {r} : successes'[q] = successes[q]
  BY <1>2 DEF NoLeadSucceeds
<1>6. /\ skipped' \in [Requests -> Nat] /\ skipped'[r] = skipped[r] + skip
      /\ \A q \in Requests \ {r} : skipped'[q] = skipped[q]
  BY <1>2
<1>7. /\ lastError' \in [Requests -> BOOLEAN]
      /\ failed => lastError'[r]
      /\ \A q \in Requests \ {r} : lastError'[q] = lastError[q]
  <2>1. PICK b \in BOOLEAN : b = (lastError[r] \/ failed)
    BY Zenon
  <2>2. lastError' = [lastError EXCEPT ![r] = b] /\ (failed => b)
    BY <1>2, <2>1, Zenon
  <2> QED  BY <2>2
<1>8. /\ at' \in [Requests -> Places]
      /\ at'[r] = IF Len(todo[r]) = 1 THEN "done" ELSE "config"
      /\ \A q \in Requests \ {r} : at'[q] = at[q]
  BY <1>2 DEF Places
<1>9. /\ answer' \in [Requests -> {0, 200, 201, 400, 500}]
      /\ \A q \in Requests \ {r} : answer'[q] = answer[q]
      /\ Len(todo[r]) # 1 => answer'[r] = 0
      /\ answer'[r] = 201 => ~lastError'[r]
  <2>1. CASE Len(todo[r]) = 1
    BY <1>2, <1>5, <2>1 DEF Verdict
  <2>2. CASE Len(todo[r]) # 1
    BY <1>1, <1>2, <2>2
  <2> QED  BY <2>1, <2>2
<1>10. RequestTypeOK'
  BY <1>2, <1>4, <1>5, <1>6, <1>7, <1>8, <1>9
<1>11. Busy'
  <2> SUFFICES ASSUME NEW q \in Requests
               PROVE  /\ at'[q] \notin {"start", "done"} => todo'[q] # <<>>
                      /\ at'[q] # "done" => answer'[q] = 0
    BY DEF Busy
  <2>1. CASE q = r
    BY <1>3, <1>4, <1>8, <1>9, <2>1
  <2>2. CASE q # r
    BY <1>4, <1>8, <1>9, <2>2 DEF Busy
  <2> QED  BY <2>1, <2>2
<1>12. NoLeadSucceeds'
  BY <1>2, <1>5 DEF NoLeadSucceeds
<1>13. CreatedMeansSkipped'
  <2> SUFFICES ASSUME NEW q \in Requests, kind[q] = "lead", answer'[q] = 201
               PROVE  skipped'[q] > 0 /\ ~lastError'[q] /\ successes'[q] = 0
    BY <1>2 DEF CreatedMeansSkipped
  <2>1. CASE q # r
    <3>1. answer[q] = 201
      BY <1>9, <2>1
    <3> QED  BY <1>5, <1>6, <1>7, <2>1, <3>1 DEF CreatedMeansSkipped
  <2>2. CASE q = r
    <3>1. ~lastError'[r]
      BY <1>9, <2>2
    <3>2. ~failed
      BY <1>7, <3>1, Zenon
    <3>3. skip = 1
      BY <3>2
    <3>4. skipped[r] \in Nat
      OBVIOUS
    <3> QED  BY <1>5, <1>6, <2>2, <3>1, <3>3, <3>4
  <2> QED  BY <2>1, <2>2
<1> QED  BY <1>2, <1>4, <1>8, <1>10, <1>11, <1>12, <1>13 DEF Alone

(* A failure ends a request, or is counted by a lead.                      *)
LEMMA FailKeeps ==
    ASSUME RequestInv, NEW r \in Requests, at[r] \notin {"start", "done"}, Fail(r)
    PROVE  RequestInv' /\ Alone(r) /\ at'[r] \in {"config", "done"}
<1>1. CASE kind[r] = "lead"
  BY <1>1, NextMappingKeeps DEF Fail
<1>2. CASE kind[r] # "lead"
  BY <1>2, ReplyKeeps DEF Fail
<1> QED  BY <1>1, <1>2

(* A step that leaves the registry alone does not begin to initialize.     *)
LEMMA QuietStep ==
    ASSUME Inv, NEW r \in Requests, Alone(r), at'[r] # "initialize",
           UNCHANGED <<registry, config, changes>>
    PROVE  RegistryInv' /\ Initializing' /\ WorldTypeOK'
<1>1. RegistryInv'
  <2>1. mu \in Requests \cup {Nobody}
    BY DEF Inv, RegistryInv, RegistryTypeOK
  <2> QED  BY <2>1, MutexKeeps DEF Inv, registry
<1>2. Initializing'
  BY DEF Inv, Initializing, Alone, Target, registry
<1>3. WorldTypeOK'
  BY DEF Inv, WorldTypeOK
<1> QED  BY <1>1, <1>2, <1>3

(* A step of a request while nobody else has the mutex: then nobody else   *)
(* initializes.                                                            *)
LEMMA MutexStep ==
    ASSUME Inv, NEW r \in Requests, Alone(r), at'[r] # "initialize",
           mu \in {Nobody, r}
    PROVE  Initializing'
<1> SUFFICES ASSUME NEW q \in Requests, at'[q] = "initialize" PROVE FALSE
  BY DEF Initializing
<1>1. q # r /\ at[q] = "initialize"
  BY DEF Alone
<1>2. mu = q
  BY <1>1 DEF Inv, Initializing
<1> QED  BY <1>1, <1>2, RegistryAssumption

(* A request under way has a configuration.                                *)
LEMMA TargetTyped ==
    ASSUME RequestInv, NEW r \in Requests, at[r] \notin {"start", "done"}
    PROVE  Target(r) \in Configs
<1>1. todo[r] \in Seq(Configs) /\ todo[r] # <<>>
  BY DEF RequestInv, RequestTypeOK, Busy
<1> QED  BY <1>1, HeadTailProperties DEF Target

(* A lead has got its mappings.                                            *)
LEMMA MappingsKeep ==
    ASSUME RequestInv, NEW r \in Requests, at[r] = "start",
           NEW list \in Mappings \ {<<>>},
           todo' = [todo EXCEPT ![r] = list], Go(r, "config"),
           UNCHANGED <<kind, skipped, lastError, successes, answer>>
    PROVE  RequestInv' /\ Alone(r) /\ at'[r] = "config"
<1> USE DEF RequestInv, RequestTypeOK
<1>1. list \in Seq(Configs) /\ at' = [at EXCEPT ![r] = "config"]
  BY FanoutAssumption DEF Go
<1>2. RequestTypeOK' /\ Alone(r) /\ at'[r] = "config"
  BY <1>1 DEF Alone, Places
<1>3. Busy'
  BY <1>1 DEF Busy
<1> QED  BY <1>2, <1>3 DEF NoLeadSucceeds, CreatedMeansSkipped

-----------------------------------------------------------------------------
(* The invariant.                                                          *)

(* The initial states satisfy it.                                          *)
LEMMA InitInv == Init => Inv
<1> SUFFICES ASSUME Init PROVE Inv
  OBVIOUS
<1>1. RegistryInv
  BY RegistryAssumption
  DEF Init, RegistryInit, RegistryInv, RegistryTypeOK, HoldsCurrent,
      SharedProvider, NoProvider, Holding
<1>2. todo \in [Requests -> Seq(Configs)] /\ \A r \in Requests :
         todo[r] = <<>> <=> kind[r] = "lead"
  <2>1. <<>> \in Seq(Configs) /\ \A c \in Configs : <<c>> \in Seq(Configs)
    OBVIOUS
  <2>2. {<<>>} \cup {<<c>> : c \in Configs} \subseteq Seq(Configs)
    BY <2>1, Zenon
  <2> QED  BY <2>2 DEF Init
<1>3. at \in [Requests -> Places] /\ \A r \in Requests :
         /\ at[r] \in {"start", "config", "write"}
         /\ at[r] = "start" <=> kind[r] = "lead"
  BY DEF Init, Places
<1>4. RequestInv
  BY <1>2, <1>3
  DEF Init, RequestInv, RequestTypeOK, Busy, NoLeadSucceeds, CreatedMeansSkipped
<1>5. Initializing
  BY <1>3 DEF Initializing
<1>6. WorldTypeOK
  BY FanoutAssumption DEF Init, WorldTypeOK
<1> QED  BY <1>1, <1>4, <1>5, <1>6 DEF Inv

(* A step of a request keeps it.                                           *)
LEMMA StepInv ==
    ASSUME Inv, NEW r \in Requests, Step(r)
    PROVE  Inv'
<1>0. /\ RequestInv /\ RegistryInv /\ WorldTypeOK
      /\ mu \in Requests \cup {Nobody}
  BY DEF Inv, RegistryInv, RegistryTypeOK
<1>1. SUFFICES RequestInv' /\ RegistryInv' /\ Initializing' /\ WorldTypeOK'
  BY DEF Inv
<1>2. CASE GetMappings(r)
  <2>1. RequestInv' /\ Alone(r) /\ at'[r] \in {"config", "done"}
    BY <1>0, <1>2, ReplyKeeps, MappingsKeep DEF GetMappings
  <2> QED  BY <1>2, <2>1, QuietStep DEF GetMappings
<1>3. CASE GetConfig(r)
  <2>1. CASE Fail(r)
    BY <1>0, <1>3, <2>1, FailKeeps, QuietStep DEF GetConfig
  <2>2. CASE kind[r] = "lead" /\ NextMapping(r, FALSE, 0, 1)
    BY <1>0, <1>3, <2>2, NextMappingKeeps, QuietStep DEF GetConfig
  <2>3. CASE Proceed(r, "token")
    <3>1. RequestInv' /\ Alone(r) /\ at'[r] = "token"
      BY <1>0, <1>3, <2>3, ProceedKeeps DEF GetConfig, Places
    <3> QED  BY <1>3, <3>1, QuietStep DEF GetConfig
  <2> QED  BY <1>3, <2>1, <2>2, <2>3 DEF GetConfig
<1>4. CASE CheckToken(r)
  <2>1. RequestInv' /\ Alone(r) /\ at'[r] \in {"config", "done", "reread", "expiring"}
    BY <1>0, <1>4, FailKeeps, ProceedKeeps DEF CheckToken, Places
  <2> QED  BY <1>4, <2>1, QuietStep DEF CheckToken
<1>5. CASE Invalidate(r)
  <2>1. RequestInv' /\ Alone(r) /\ at'[r] \in {"reread", "refresh"}
    BY <1>0, <1>5, ProceedKeeps DEF Invalidate, Places
  <2>2. mu = Nobody /\ RegistryInv'
    BY <1>0, <1>5, TargetTyped, RemoveKeeps DEF Invalidate, RemoveProvider
  <2> QED  BY <1>0, <1>5, <2>1, <2>2, MutexStep DEF Invalidate, WorldTypeOK
<1>6. CASE Refresh(r)
  <2>1. RequestInv' /\ Alone(r) /\ at'[r] \in {"config", "done", "reread"}
    BY <1>0, <1>6, FailKeeps, ProceedKeeps DEF Refresh, Places
  <2> QED  BY <1>6, <2>1, QuietStep DEF Refresh
<1>7. CASE Reread(r)
  <2>1. RequestInv' /\ Alone(r) /\ at'[r] \in {"config", "done", "provide"}
    BY <1>0, <1>7, FailKeeps, ProceedKeeps DEF Reread, Places
  <2> QED  BY <1>7, <2>1, QuietStep DEF Reread
<1>8. CASE Provide(r)
  <2>0. at[r] = "provide" /\ Target(r) \in Configs /\ WorldTypeOK'
    BY <1>0, <1>8, TargetTyped DEF Provide, WorldTypeOK
  <2>1. CASE GetProvider(r, Target(r)) /\ Proceed(r, "call")
    <3>1. RequestInv' /\ Alone(r) /\ at'[r] = "call"
      BY <1>0, <2>0, <2>1, ProceedKeeps DEF Places
    <3>2. mu = Nobody /\ RegistryInv'
      BY <1>0, <2>0, <2>1, GetKeeps DEF GetProvider
    <3> QED  BY <2>0, <3>1, <3>2, MutexStep
  <2>2. CASE BeginInitialize(r, Target(r)) /\ Proceed(r, "initialize")
    <3>1. RequestInv' /\ Alone(r) /\ at'[r] = "initialize" /\ todo' = todo
      BY <1>0, <2>0, <2>2, ProceedKeeps DEF Places
    <3>2. /\ mu = Nobody /\ mu' = r /\ instances[Target(r)] = 0
          /\ instances' = instances /\ RegistryInv'
      BY <1>0, <2>2, MutexKeeps DEF BeginInitialize
    <3>3. Initializing'
      <4> SUFFICES ASSUME NEW q \in Requests, at'[q] = "initialize"
                   PROVE  mu' = q /\ instances'[Head(todo'[q])] = 0
        BY DEF Initializing, Target
      <4>1. q = r
        <5>1. ASSUME q # r PROVE mu = q
          BY <3>1, <5>1 DEF Alone, Inv, Initializing
        <5> QED  BY <3>2, <5>1, RegistryAssumption
      <4> QED  BY <3>1, <3>2, <4>1 DEF Target
    <3> QED  BY <2>0, <3>1, <3>2, <3>3
  <2> QED  BY <1>8, <2>1, <2>2 DEF Provide
<1>9. CASE Initialized(r)
  <2>0. /\ at[r] = "initialize" /\ Target(r) \in Configs /\ WorldTypeOK'
        /\ mu = r /\ instances[Target(r)] = 0
    BY <1>0, <1>9, TargetTyped DEF Initialized, WorldTypeOK, Inv, Initializing
  <2>1. CASE InitializeFails(r) /\ Fail(r)
    <3>1. RequestInv' /\ Alone(r) /\ at'[r] \in {"config", "done"}
      BY <1>0, <2>0, <2>1, FailKeeps
    <3>2. RegistryInv'
      BY <1>0, <2>1, MutexKeeps DEF InitializeFails
    <3> QED  BY <2>0, <3>1, <3>2, MutexStep
  <2>2. CASE EndInitialize(r, Target(r)) /\ Proceed(r, "call")
    <3>1. RequestInv' /\ Alone(r) /\ at'[r] = "call"
      BY <1>0, <2>0, <2>2, ProceedKeeps DEF Places
    <3>2. RegistryInv'
      BY <1>0, <2>0, <2>2, EndKeeps
    <3> QED  BY <2>0, <3>1, <3>2, MutexStep
  <2> QED  BY <1>9, <2>1, <2>2 DEF Initialized
<1>10. CASE Call(r)
  <2>1. RequestInv' /\ Alone(r) /\ at'[r] \in {"config", "done"}
    BY <1>0, <1>10, FailKeeps, ReplyKeeps DEF Call
  <2> QED  BY <1>10, <2>1, QuietStep DEF Call
<1>11. CASE Write(r)
  <2>1. RequestInv' /\ Alone(r) /\ at'[r] \in {"config", "done", "remove"}
    BY <1>0, <1>11, FailKeeps, ProceedKeeps DEF Write, Places
  <2> QED  BY <1>11, <2>1, QuietStep DEF Write
<1>12. CASE Remove(r)
  <2>1. RequestInv' /\ Alone(r) /\ at'[r] = "done"
    BY <1>0, <1>12, ReplyKeeps DEF Remove
  <2>2. mu = Nobody /\ RegistryInv'
    BY <1>0, <1>12, TargetTyped, RemoveKeeps DEF Remove, RemoveProvider
  <2> QED  BY <1>0, <1>12, <2>1, <2>2, MutexStep DEF Remove, WorldTypeOK
<1> QED
  BY <1>2, <1>3, <1>4, <1>5, <1>6, <1>7, <1>8, <1>9, <1>10, <1>11, <1>12 DEF Step

(* So does every step.                                                     *)
LEMMA NextInv == Inv /\ [Next]_vars => Inv'
<1> SUFFICES ASSUME Inv, [Next]_vars PROVE Inv'
  OBVIOUS
<1>1. ASSUME NEW r \in Requests, Step(r) PROVE Inv'
  BY <1>1, StepInv
<1>2. ASSUME UNCHANGED <<registry, request>>, WorldTypeOK' PROVE Inv'
  BY <1>2
  DEF Inv, RegistryInv, RegistryTypeOK, HoldsCurrent, SharedProvider, RequestInv,
      RequestTypeOK, Busy, NoLeadSucceeds, CreatedMeansSkipped, Initializing, Target,
      registry, request
<1>3. ASSUME NEW c \in Configs, ChangeConfig(c) PROVE Inv'
  <2>1. WorldTypeOK'
    BY <1>3, FanoutAssumption DEF Inv, WorldTypeOK, ChangeConfig
  <2> QED  BY <1>2, <1>3, <2>1 DEF ChangeConfig
<1>4. CASE UNCHANGED vars
  BY <1>2, <1>4 DEF vars, Inv, WorldTypeOK
<1> QED  BY <1>1, <1>3, <1>4 DEF Next

LEMMA Invariance == Spec => []Inv
BY InitInv, NextInv, PTL DEF Spec

-----------------------------------------------------------------------------
(* Every variable keeps its type.                                          *)
THEOREM TypeCorrect == Spec => []TypeOK
<1>1. Inv => TypeOK
  BY DEF Inv, RegistryInv, RequestInv, RequestTypeOK, WorldTypeOK, TypeOK
<1> QED  BY <1>1, Invariance, PTL

(* Between two removals all requests of a user get the same provider of    *)
(* the registry, whatever fails, dials or is removed meanwhile.            *)
THEOREM OneProvider == Spec => []SharedProvider
<1>1. Inv => SharedProvider
  BY DEF Inv, RegistryInv
<1> QED  BY <1>1, Invariance, PTL

(* A lead is answered 201 only if every mapping of it was skipped, for any *)
(* number of mappings: none fails silently.                                *)
THEOREM CreatedOnlyIfSkipped == Spec => []CreatedMeansSkipped
<1>1. Inv => CreatedMeansSkipped
  BY DEF Inv, RequestInv
<1> QED  BY <1>1, Invariance, PTL
-----------------------------------------------------------------------------
(* Nobody waits for somebody who waits.                                    *)

(* The mutex is held by the request that initializes a provider, and by no *)
(* other.                                                                  *)
HeldToInitialize == \A r \in Requests : mu = r <=> at[r] = "initialize"

(* The steps of one request are its own: no other request is moved.  None  *)
(* leads back to the start.                                                *)
LEMMA StepAlone ==
    ASSUME RequestInv, NEW r \in Requests, Step(r)
    PROVE  Alone(r) /\ at'[r] # "start"
<1>1. CASE GetMappings(r)
  BY <1>1, ReplyKeeps, MappingsKeep DEF GetMappings
<1>2. CASE at[r] \notin {"start", "done"} /\ Fail(r)
  BY <1>2, FailKeeps
<1>3. CASE at[r] \notin {"start", "done"} /\ Reply(r, 200)
  BY <1>3, ReplyKeeps
<1>4. CASE /\ at[r] \notin {"start", "done"}
           /\ \E place \in Places \ {"start", "done"} : Proceed(r, place)
  BY <1>4, ProceedKeeps
<1>5. CASE GetConfig(r)
  <2>1. at[r] \notin {"start", "done"}
    BY <1>5 DEF GetConfig
  <2>2. CASE kind[r] = "lead" /\ NextMapping(r, FALSE, 0, 1)
    BY <2>1, <2>2, NextMappingKeeps
  <2>3. CASE Fail(r) \/ Proceed(r, "token")
    BY <2>1, <2>3, <1>2, <1>4 DEF Places
  <2> QED  BY <1>5, <2>2, <2>3 DEF GetConfig
<1> QED
  BY <1>1, <1>2, <1>3, <1>4, <1>5
  DEF Step, CheckToken, Invalidate, Refresh, Reread, Provide, Initialized, Call,
      Write, Remove, Places

(* What a step does to the mutex: it takes it to initialize, gives it back *)
(* when that has ended, and leaves it alone otherwise.                     *)
LEMMA StepMutex ==
    ASSUME RequestInv, NEW r \in Requests, Step(r)
    PROVE  \/ mu = Nobody /\ mu' = r /\ at'[r] = "initialize"
           \/ mu = r /\ mu' = Nobody /\ at'[r] # "initialize"
           \/ mu' = mu /\ at[r] # "initialize" /\ at'[r] # "initialize"
<1> USE DEF Places
<1>1. CASE GetMappings(r)
  BY <1>1, ReplyKeeps, MappingsKeep DEF GetMappings, registry
<1>2. CASE GetConfig(r)
  <2>1. CASE Fail(r) \/ Proceed(r, "token")
    BY <1>2, <2>1, FailKeeps, ProceedKeeps DEF GetConfig, registry
  <2>2. CASE kind[r] = "lead" /\ NextMapping(r, FALSE, 0, 1)
    BY <1>2, <2>2, NextMappingKeeps DEF GetConfig, registry
  <2> QED  BY <1>2, <2>1, <2>2 DEF GetConfig
<1>3. CASE CheckToken(r)
  BY <1>3, FailKeeps, ProceedKeeps DEF CheckToken, registry
<1>4. CASE Invalidate(r)
  BY <1>4, ProceedKeeps DEF Invalidate, RemoveProvider
<1>5. CASE Refresh(r)
  BY <1>5, FailKeeps, ProceedKeeps DEF Refresh, registry
<1>6. CASE Reread(r)
  BY <1>6, FailKeeps, ProceedKeeps DEF Reread, registry
<1>7. CASE Provide(r)
  BY <1>7, ProceedKeeps DEF Provide, GetProvider, BeginInitialize
<1>8. CASE Initialized(r)
  BY <1>8, FailKeeps, ProceedKeeps DEF Initialized, InitializeFails, EndInitialize
<1>9. CASE Call(r)
  BY <1>9, FailKeeps, ReplyKeeps DEF Call, registry
<1>10. CASE Write(r)
  BY <1>10, FailKeeps, ProceedKeeps DEF Write, registry
<1>11. CASE Remove(r)
  BY <1>11, ReplyKeeps DEF Remove, RemoveProvider
<1> QED
  BY <1>1, <1>2, <1>3, <1>4, <1>5, <1>6, <1>7, <1>8, <1>9, <1>10, <1>11 DEF Step

(* Whoever holds the mutex of the registry initializes a provider, which   *)
(* always ends and gives the mutex back: no request waits for one that     *)
(* waits itself, for whatever users, accounts and removals.                *)
THEOREM MutexComesBack == Spec => []HeldToInitialize
<1>1. Init => HeldToInitialize
  <2> SUFFICES ASSUME Init, NEW r \in Requests
               PROVE  mu # r /\ at[r] # "initialize"
    BY DEF HeldToInitialize
  <2>1. at[r] # "initialize"  BY DEF Init
  <2>2. mu = Nobody  BY DEF Init, RegistryInit
  <2> QED  BY <2>1, <2>2, RegistryAssumption
<1>2. RequestInv /\ HeldToInitialize /\ [Next]_vars => HeldToInitialize'
  <2> SUFFICES ASSUME RequestInv, HeldToInitialize, [Next]_vars
               PROVE  HeldToInitialize'
    OBVIOUS
  <2>1. ASSUME NEW r \in Requests, Step(r)  PROVE HeldToInitialize'
    <3>1. \A q \in Requests \ {r} : at'[q] = at[q]
      BY <2>1, StepAlone DEF Alone
    <3>2. mu' = mu \/ mu = r \/ mu = Nobody
      BY <2>1, StepMutex
    <3> QED
      BY <2>1, <3>1, <3>2, StepMutex, RegistryAssumption DEF HeldToInitialize
  <2>2. CASE (\E c \in Configs : ChangeConfig(c)) \/ UNCHANGED vars
    BY <2>2 DEF ChangeConfig, vars, registry, request, HeldToInitialize
  <2> QED  BY <2>1, <2>2 DEF Next
<1>3. Inv => RequestInv  BY DEF Inv
<1> QED  BY <1>1, <1>2, <1>3, Invariance, PTL DEF Spec

-----------------------------------------------------------------------------
(* How long a request can take.                                            *)

(* How many steps a place is from the end of its mapping.                  *)
StepsFrom(place) ==
    CASE place = "config"     -> 8
      [] place = "token"      -> 7
      [] place = "expiring"   -> 6
      [] place = "refresh"    -> 5
      [] place = "reread"     -> 4
      [] place = "provide"    -> 3
      [] place = "initialize" -> 2
      [] place = "call"       -> 1
      [] place = "write"      -> 2
      [] place = "remove"     -> 1

(* What a request has still to do, once a lead has its mappings.           *)
Left(r) ==
    IF at[r] \in {"start", "done"} THEN 0
    ELSE 8 * (Len(todo[r]) - 1) + StepsFrom(at[r])

LEMMA StepsBounded ==
    ASSUME NEW place \in Places \ {"start", "done"}
    PROVE  StepsFrom(place) \in 1 .. 8
BY DEF Places, StepsFrom

LEMMA LeftPositive ==
    ASSUME RequestInv, NEW r \in Requests, at[r] \notin {"start", "done"}
    PROVE  /\ Len(todo[r]) \in Nat \ {0}
           /\ StepsFrom(at[r]) \in 1 .. 8
           /\ Left(r) = 8 * (Len(todo[r]) - 1) + StepsFrom(at[r])
           /\ Left(r) \in Nat \ {0}
<1>1. todo[r] \in Seq(Configs) /\ todo[r] # <<>> /\ at[r] \in Places
  BY DEF RequestInv, RequestTypeOK, Busy
<1>2. Len(todo[r]) \in Nat \ {0}
  BY <1>1, EmptySeq, Zenon
<1>3. StepsFrom(at[r]) \in 1 .. 8
  BY <1>1, StepsBounded
<1>4. Left(r) = 8 * (Len(todo[r]) - 1) + StepsFrom(at[r])
  BY DEF Left
<1>5. \A l \in Nat \ {0}, k \in 1 .. 8 : 8 * (l - 1) + k \in Nat \ {0}
  OBVIOUS
<1> QED  BY <1>2, <1>3, <1>4, <1>5, Zenon

(* A request that ends has nothing left.                                   *)
LEMMA ReplyLess ==
    ASSUME RequestInv, NEW r \in Requests, at[r] \notin {"start", "done"},
           at'[r] = "done"
    PROVE  Left(r)' < Left(r)
<1>1. Left(r)' = 0  BY DEF Left
<1>2. Left(r) \in Nat \ {0}  BY LeftPositive
<1>3. \A n \in Nat \ {0} : 0 < n  OBVIOUS
<1> QED  BY <1>1, <1>2, <1>3, Zenon

(* One that proceeds comes nearer to the end of its mapping ...            *)
LEMMA ProceedLess ==
    ASSUME RequestInv, NEW r \in Requests, at[r] \notin {"start", "done"},
           NEW place \in Places \ {"start", "done"}, Proceed(r, place),
           StepsFrom(place) < StepsFrom(at[r])
    PROVE  Left(r)' < Left(r)
<1>1. at'[r] = place /\ todo' = todo
  BY ProceedKeeps
<1>2. Left(r)' = 8 * (Len(todo[r]) - 1) + StepsFrom(place)
  BY <1>1 DEF Left
<1>3. /\ Len(todo[r]) \in Nat \ {0} /\ StepsFrom(at[r]) \in 1 .. 8
      /\ Left(r) = 8 * (Len(todo[r]) - 1) + StepsFrom(at[r])
      /\ StepsFrom(place) \in 1 .. 8
  BY LeftPositive, StepsBounded
<1>4. \A l \in Nat \ {0}, k, m \in 1 .. 8 :
         k < m => 8 * (l - 1) + k < 8 * (l - 1) + m
  OBVIOUS
<1> QED  BY <1>2, <1>3, <1>4, Zenon

(* ... and the next mapping of a lead is one less.                         *)
LEMMA NextMappingLess ==
    ASSUME RequestInv, NEW r \in Requests, at[r] \notin {"start", "done"},
           NEW failed, NEW n, NEW skip, NextMapping(r, failed, n, skip)
    PROVE  Left(r)' < Left(r)
<1>1. CASE Len(todo[r]) = 1
  <2>1. at'[r] = "done"
    BY <1>1 DEF NextMapping, Go, RequestInv, RequestTypeOK
  <2> QED  BY <2>1, ReplyLess
<1>2. CASE Len(todo[r]) # 1
  <2>1. at'[r] = "config" /\ todo'[r] = Tail(todo[r])
    BY <1>2 DEF NextMapping, Go, RequestInv, RequestTypeOK
  <2>2. Len(Tail(todo[r])) = Len(todo[r]) - 1
    <3>1. todo[r] \in Seq(Configs) /\ todo[r] # <<>>
      BY DEF RequestInv, RequestTypeOK, Busy
    <3> QED  BY <3>1, HeadTailProperties
  <2>3. Left(r)' = 8 * ((Len(todo[r]) - 1) - 1) + 8
    BY <2>1, <2>2 DEF Left, StepsFrom
  <2>4. /\ Len(todo[r]) \in Nat \ {0} /\ StepsFrom(at[r]) \in 1 .. 8
        /\ Left(r) = 8 * (Len(todo[r]) - 1) + StepsFrom(at[r])
    BY LeftPositive
  <2>5. \A l \in Nat \ {0}, k \in 1 .. 8 :
           8 * ((l - 1) - 1) + 8 < 8 * (l - 1) + k
    OBVIOUS
  <2> QED  BY <2>3, <2>4, <2>5, Zenon
<1> QED  BY <1>1, <1>2

LEMMA FailLess ==
    ASSUME RequestInv, NEW r \in Requests, at[r] \notin {"start", "done"}, Fail(r)
    PROVE  Left(r)' < Left(r)
<1>1. CASE kind[r] = "lead"
  BY <1>1, NextMappingLess DEF Fail
<1>2. CASE kind[r] # "lead"
  BY <1>2, ReplyKeeps, ReplyLess DEF Fail
<1> QED  BY <1>1, <1>2

(* A step of a request brings it nearer to its end.                        *)
LEMMA StepLess ==
    ASSUME RequestInv, NEW r \in Requests, Step(r), at[r] # "start"
    PROVE  Left(r)' < Left(r)
<1> USE DEF Places
<1>1. ASSUME NEW place \in Places \ {"start", "done"}, Proceed(r, place),
             at[r] \notin {"start", "done"}, StepsFrom(place) < StepsFrom(at[r])
      PROVE  Left(r)' < Left(r)
  BY <1>1, ProceedLess
<1>2. CASE GetConfig(r)
  <2>1. at[r] = "config"  BY <1>2 DEF GetConfig
  <2>2. CASE Fail(r)  BY <2>1, <2>2, FailLess
  <2>3. CASE NextMapping(r, FALSE, 0, 1)  BY <2>1, <2>3, NextMappingLess
  <2>4. CASE Proceed(r, "token")  BY <2>1, <2>4, <1>1 DEF StepsFrom
  <2> QED  BY <1>2, <2>2, <2>3, <2>4 DEF GetConfig
<1>3. CASE CheckToken(r)
  <2>1. at[r] = "token"  BY <1>3 DEF CheckToken
  <2>2. CASE Fail(r)  BY <2>1, <2>2, FailLess
  <2>3. CASE Proceed(r, "reread")  BY <2>1, <2>3, <1>1 DEF StepsFrom
  <2>4. CASE Proceed(r, "expiring")  BY <2>1, <2>4, <1>1 DEF StepsFrom
  <2> QED  BY <1>3, <2>2, <2>3, <2>4 DEF CheckToken
<1>4. CASE Invalidate(r)
  <2>1. at[r] = "expiring"  BY <1>4 DEF Invalidate
  <2>2. CASE Proceed(r, "reread")  BY <2>1, <2>2, <1>1 DEF StepsFrom
  <2>3. CASE Proceed(r, "refresh")  BY <2>1, <2>3, <1>1 DEF StepsFrom
  <2> QED  BY <1>4, <2>2, <2>3 DEF Invalidate
<1>5. CASE Refresh(r)
  <2>1. at[r] = "refresh"  BY <1>5 DEF Refresh
  <2>2. CASE Fail(r)  BY <2>1, <2>2, FailLess
  <2>3. CASE Proceed(r, "reread")  BY <2>1, <2>3, <1>1 DEF StepsFrom
  <2> QED  BY <1>5, <2>2, <2>3 DEF Refresh
<1>6. CASE Reread(r)
  <2>1. at[r] = "reread"  BY <1>6 DEF Reread
  <2>2. CASE Fail(r)  BY <2>1, <2>2, FailLess
  <2>3. CASE Proceed(r, "provide")  BY <2>1, <2>3, <1>1 DEF StepsFrom
  <2> QED  BY <1>6, <2>2, <2>3 DEF Reread
<1>7. CASE Provide(r)
  <2>1. at[r] = "provide"  BY <1>7 DEF Provide
  <2>2. CASE Proceed(r, "call")  BY <2>1, <2>2, <1>1 DEF StepsFrom
  <2>3. CASE Proceed(r, "initialize")  BY <2>1, <2>3, <1>1 DEF StepsFrom
  <2> QED  BY <1>7, <2>2, <2>3 DEF Provide
<1>8. CASE Initialized(r)
  <2>1. at[r] = "initialize"  BY <1>8 DEF Initialized
  <2>2. CASE Fail(r)  BY <2>1, <2>2, FailLess
  <2>3. CASE Proceed(r, "call")  BY <2>1, <2>3, <1>1 DEF StepsFrom
  <2> QED  BY <1>8, <2>2, <2>3 DEF Initialized
<1>9. CASE Call(r)
  <2>1. at[r] = "call"  BY <1>9 DEF Call
  <2>2. CASE Fail(r)  BY <2>1, <2>2, FailLess
  <2>3. CASE Reply(r, 200)  BY <2>1, <2>3, ReplyKeeps, ReplyLess
  <2> QED  BY <1>9, <2>2, <2>3 DEF Call
<1>10. CASE Write(r)
  <2>1. at[r] = "write"  BY <1>10 DEF Write
  <2>2. CASE Fail(r)  BY <2>1, <2>2, FailLess
  <2>3. CASE Proceed(r, "remove")  BY <2>1, <2>3, <1>1 DEF StepsFrom
  <2> QED  BY <1>10, <2>2, <2>3 DEF Write
<1>11. CASE Remove(r)
  BY <1>11, ReplyKeeps, ReplyLess DEF Remove
<1>12. ~GetMappings(r)  BY DEF GetMappings
<1> QED
  BY <1>2, <1>3, <1>4, <1>5, <1>6, <1>7, <1>8, <1>9, <1>10, <1>11, <1>12 DEF Step

(* A lead with n mappings takes at most 1 + 8 * n steps, any other request *)
(* at most 8: each of its steps brings a request nearer to its end, and    *)
(* nobody else's step, removal or change takes it back.                    *)
THEOREM RequestsWindDown ==
    /\ Spec => [](\A r \in Requests :
                    at[r] \notin {"start", "done"} => Left(r) \in Nat \ {0})
    /\ Spec => [][\A r \in Requests :
                    /\ Step(r) => /\ at'[r] # "start"
                                  /\ at[r] = "start" \/ Left(r)' < Left(r)
                    /\ ~Step(r) => at'[r] = at[r] /\ Left(r)' = Left(r)]_vars
<1>1. RequestInv => \A r \in Requests :
         at[r] \notin {"start", "done"} => Left(r) \in Nat \ {0}
  BY LeftPositive
<1>2. RequestInv /\ [Next]_vars
      => [\A r \in Requests :
             /\ Step(r) => /\ at'[r] # "start"
                           /\ at[r] = "start" \/ Left(r)' < Left(r)
             /\ ~Step(r) => at'[r] = at[r] /\ Left(r)' = Left(r)]_vars
  <2> SUFFICES ASSUME RequestInv, Next, NEW r \in Requests
               PROVE  /\ Step(r) => /\ at'[r] # "start"
                                    /\ at[r] = "start" \/ Left(r)' < Left(r)
                      /\ ~Step(r) => at'[r] = at[r] /\ Left(r)' = Left(r)
    OBVIOUS
  <2>1. ASSUME Step(r)  PROVE at'[r] # "start"
    BY <2>1, StepAlone
  <2>2. ASSUME Step(r), at[r] # "start"  PROVE Left(r)' < Left(r)
    BY <2>2, StepLess
  <2>3. ASSUME ~Step(r)  PROVE at'[r] = at[r] /\ Left(r)' = Left(r)
    <3>1. at'[r] = at[r] /\ todo'[r] = todo[r]
      <4>1. CASE \E q \in Requests : Step(q)
        <5>1. PICK q \in Requests : Step(q)  BY <4>1
        <5>2. q # r  BY <2>3, <5>1
        <5> QED  BY <5>1, <5>2, StepAlone DEF Alone
      <4>2. CASE \E c \in Configs : ChangeConfig(c)
        BY <4>2 DEF ChangeConfig, request
      <4> QED  BY <4>1, <4>2 DEF Next
    <3> QED  BY <3>1 DEF Left
  <2> QED  BY <2>1, <2>2, <2>3
<1>3. Inv => RequestInv  BY DEF Inv
<1> QED  BY <1>1, <1>2, <1>3, Invariance, PTL DEF Spec
=============================================================================
