------------------------- MODULE TokenLifecycleProofs -------------------------
(* What TokenLifecycle guarantees for every set of requests, every bound   *)
(* and every choice of thresholds, proved.                                 *)
EXTENDS TokenLifecycle, TLAPS

USE ConstantsAssumption DEF AllKinds, AllFaults

-----------------------------------------------------------------------------
(* The types of the values the actions write.                              *)

LEMMA BaseTypes ==
    /\ 0 \in Pairs
    /\ NoRow \in Row
    /\ NoProvider \in Provider
    /\ IdleRequest \in Request
  BY DEF Pairs, NoRow, Row, NoProvider, Provider, IdleRequest, Request, Steps

LEMMA RowTypes ==
    ASSUME NEW c \in Row
    PROVE  /\ Sanitize(c) \in Row
           /\ NewProvider(c) \in Provider
           /\ \A p \in Pairs : [c EXCEPT !.pair = p] \in Row
           /\ \A f \in Nat : [c EXCEPT !.field = f] \in Row
<1>1. Sanitize(c) \in Row
  BY BaseTypes DEF Sanitize, Row
<1>2. NewProvider(c) \in Provider
  BY DEF NewProvider, Row, Provider
<1>3. \A p \in Pairs : [c EXCEPT !.pair = p] \in Row
  BY DEF Row
<1>4. \A f \in Nat : [c EXCEPT !.field = f] \in Row
  BY DEF Row
<1>5. QED
  BY <1>1, <1>2, <1>3, <1>4

(* An action that finishes a request, or moves it on, keeps all requests   *)
(* well typed.                                                             *)
LEMMA FinishType ==
    ASSUME TypeOK, NEW r \in Requests, Finish(r)
    PROVE  req' \in [Requests -> Request]
  BY BaseTypes DEF TypeOK, Finish

LEMMA ContinueType ==
    ASSUME TypeOK, NEW r \in Requests, NEW step \in Steps, Continue(r, step)
    PROVE  req' \in [Requests -> Request]
  BY DEF TypeOK, Continue, Request

LEMMA MoveType ==
    ASSUME TypeOK, NEW r \in Requests, NEW step \in Steps,
           NEW c \in Row,
           req' = [req EXCEPT ![r].pc = step, ![r].config = c]
    PROVE  req' \in [Requests -> Request]
  BY DEF TypeOK, Request

LEMMA HoldType ==
    ASSUME TypeOK, NEW r \in Requests, NEW step \in Steps,
           NEW p \in Pairs,
           req' = [req EXCEPT ![r].pc = step, ![r].held = p]
    PROVE  req' \in [Requests -> Request]
  BY DEF TypeOK, Request

LEMMA ClientType ==
    ASSUME TypeOK, NEW r \in Requests, NEW step \in Steps,
           NEW c \in Provider,
           req' = [req EXCEPT ![r].pc = step, ![r].client = c]
    PROVE  req' \in [Requests -> Request]
  BY DEF TypeOK, Request

LEMMA IssueType ==
    ASSUME TypeOK, Issue
    PROVE  /\ issued' \in Pairs
           /\ issued' = issued + 1
           /\ issued' \in 1 .. MaxPairs
           /\ expiry' \in [1 .. MaxPairs -> Nat]
  BY DEF TypeOK, Issue, Pairs

LEMMA LosingType ==
    ASSUME TypeOK, NEW r \in Requests
    PROVE  Losing(r) \in SUBSET (1 .. MaxPairs)
<1>1. req[r].held \in Pairs
  BY DEF TypeOK, Request
<1>2. {req[r].held} \ {0} \subseteq 1 .. MaxPairs
  BY <1>1 DEF Pairs
<1>3. QED
  BY <1>2 DEF Losing, TypeOK

LEMMA GiveUpType ==
    ASSUME TypeOK, NEW r \in Requests, GiveUp(r)
    PROVE  /\ req' \in [Requests -> Request]
           /\ lost' \in SUBSET (1 .. MaxPairs)
  BY FinishType, LosingType DEF GiveUp

LEMMA UpsertType ==
    ASSUME TypeOK, NEW c \in Row, UpsertRow(c)
    PROVE  row' \in Row
<1> DEFINE id == IF row.exists THEN row.id ELSE row.id + 1
<1>1. id \in Nat
  BY DEF TypeOK, Row
<1>2. row' = [c EXCEPT !.exists = TRUE, !.id = id]
  BY DEF UpsertRow
<1> HIDE DEF id
<1>3. QED
  BY <1>1, <1>2 DEF Row

-----------------------------------------------------------------------------
(* Type correctness.                                                       *)

LEMMA InitType == Init => TypeOK
<1> SUFFICES ASSUME Init PROVE TypeOK
  OBVIOUS
<1>1. 1 \in Pairs
  BY DEF Pairs
<1>2. row \in Row /\ row.pair \in Pairs
  <2>1. CASE row = NoRow
    BY <2>1, BaseTypes DEF NoRow
  <2>2. CASE row # NoRow
    <3>1. row = [exists |-> TRUE, id |-> 1, pair |-> 1, secret |-> TRUE,
                 field |-> 0]
      BY <2>2 DEF Init
    <3>2. QED
      BY <1>1, <3>1 DEF Row
  <2>3. QED
    BY <2>1, <2>2
<1>3. issued \in Pairs /\ expiry \in [1 .. MaxPairs -> Nat]
  BY <1>2 DEF Init, Pairs
<1>4. QED
  BY <1>2, <1>3, BaseTypes DEF Init, TypeOK

LEMMA StepType ==
    ASSUME TypeOK, NEW r \in Requests, Step(r)
    PROVE  TypeOK'
<1> USE DEF TypeOK
<1>0. /\ req[r] \in Request
      /\ req[r].config \in Row
      /\ req[r].held \in Pairs
      /\ row.pair \in Pairs
  BY DEF Request, Row
<1>1. CASE Load(r)
  <2>1. CASE row.exists
    <3>1. ReadFor(req[r].kind) \in Row /\ StepAfterLoad(req[r].kind) \in Steps
      BY RowTypes DEF ReadFor, StepAfterLoad, Steps
    <3>2. req' \in [Requests -> Request]
      BY <1>1, <2>1, <3>1, MoveType DEF Load
    <3>3. QED
      BY <1>1, <2>1, <3>2 DEF Load
  <2>2. CASE ~row.exists
    BY <1>1, <2>2, GiveUpType DEF Load
  <2>3. QED
    BY <2>1, <2>2
<1>2. CASE EnsureValidToken(r)
  <2>1. req' \in [Requests -> Request]
    <3>1. CASE Finish(r)
      BY <3>1, FinishType
    <3>2. CASE \E step \in {"refresh_load", "reload"} : Continue(r, step)
      BY <3>2, ContinueType DEF Steps
    <3>3. QED
      BY <1>2, <3>1, <3>2 DEF EnsureValidToken
  <2>2. cached' \in Provider
    BY <1>2, BaseTypes DEF EnsureValidToken
  <2>3. QED
    BY <1>2, <2>1, <2>2 DEF EnsureValidToken
<1>3. CASE RefreshLoad(r)
  <2>1. req' \in [Requests -> Request]
    BY <1>3, FinishType, MoveType DEF RefreshLoad, Steps
  <2>2. QED
    BY <1>3, <2>1 DEF RefreshLoad
<1>4. CASE RefreshAnswered(r)
  <2>1. Issue /\ req' = [req EXCEPT ![r].pc = "refresh_save", ![r].held = issued']
    BY <1>4, IssueType DEF RefreshAnswered
  <2>2. req' \in [Requests -> Request]
    BY <2>1, IssueType, HoldType DEF Steps
  <2>3. QED
    BY <1>4, <2>1, <2>2, IssueType DEF RefreshAnswered
<1>5. CASE RefreshAnswerLost(r)
  BY <1>5, FinishType, IssueType DEF RefreshAnswerLost
<1>6. CASE RefreshRefused(r)
  BY <1>6, FinishType DEF RefreshRefused
<1>7. CASE RefreshSave(r)
  <2>1. row' \in Row
    BY <1>0, <1>7, RowTypes DEF RefreshSave, UpdateRow
  <2>2. req' \in [Requests -> Request]
    BY <1>7, FinishType, HoldType, BaseTypes DEF RefreshSave, Steps
  <2>3. lost' \in SUBSET (1 .. MaxPairs)
    BY <1>7, LosingType DEF RefreshSave
  <2>4. QED
    BY <1>7, <2>1, <2>2, <2>3 DEF RefreshSave
<1>8. CASE Reload(r)
  <2>1. req' \in [Requests -> Request]
    BY <1>8, FinishType, MoveType DEF Reload, Steps
  <2>2. QED
    BY <1>8, <2>1 DEF Reload
<1>9. CASE GetOrCreateProvider(r)
  <2>1. NewProvider(req[r].config) \in Provider
    BY <1>0, RowTypes
  <2>2. req' \in [Requests -> Request]
    BY <1>9, <2>1, FinishType, ClientType DEF GetOrCreateProvider, Steps
  <2>3. cached' \in Provider
    BY <1>9, <2>1 DEF GetOrCreateProvider
  <2>4. QED
    BY <1>9, <2>2, <2>3 DEF GetOrCreateProvider
<1>10. CASE Call(r)
  BY <1>10, FinishType DEF Call
<1>11. CASE ExchangeCode(r)
  <2>1. CASE Issue
    <3>1. req' = [req EXCEPT ![r].pc = "load", ![r].held = issued']
          \/ Finish(r)
      BY <1>11, <2>1, IssueType DEF ExchangeCode
    <3>2. req' \in [Requests -> Request]
      BY <2>1, <3>1, IssueType, HoldType, FinishType DEF Steps
    <3>3. QED
      BY <1>11, <2>1, <3>2, IssueType DEF ExchangeCode
  <2>2. CASE ~Issue
    BY <1>11, <2>2, FinishType DEF ExchangeCode
  <2>3. QED
    BY <2>1, <2>2
<1>12. CASE Invalidate(r)
  <2>1. req' \in [Requests -> Request]
    BY <1>12, FinishType, ContinueType DEF Invalidate, Steps
  <2>2. QED
    BY <1>12, <2>1, BaseTypes DEF Invalidate
<1>13. CASE WriteSettings(r)
  <2>1. row' \in Row
    <3>1. req[r].config.field \in Nat
      BY <1>0 DEF Row
    <3>2. QED
      BY <1>0, <1>13, <3>1, RowTypes DEF WriteSettings, UpdateRow
  <2>2. req' \in [Requests -> Request]
    BY <1>13, FinishType, ContinueType DEF WriteSettings, Steps
  <2>3. QED
    BY <1>13, <2>1, <2>2 DEF WriteSettings
<1>14. CASE WriteActive(r)
  BY <1>0, <1>14, FinishType DEF WriteActive, UpdateRow
<1>15. CASE WriteSave(r)
  <2> DEFINE new == [NoRow EXCEPT !.secret = TRUE]
  <2>1. new \in Row
    BY BaseTypes DEF NoRow, Row
  <2>2. issued' \in Pairs /\ expiry' \in [1 .. MaxPairs -> Nat]
    BY <1>15, IssueType DEF WriteSave
  <2>3. row' \in Row
    <3>2. CASE UpsertRow(new)
      BY <2>1, <3>2, UpsertType
    <3>3. CASE Issue /\ UpsertRow([new EXCEPT !.pair = issued + 1])
      <4>1. [new EXCEPT !.pair = issued + 1] \in Row
        BY <2>1, <3>3, IssueType, RowTypes
      <4>2. QED
        BY <3>3, <4>1, UpsertType
    <3>4. QED
      BY <1>15, <3>2, <3>3 DEF WriteSave
  <2>4. QED
    BY <1>15, <2>2, <2>3, FinishType DEF WriteSave
<1>16. CASE WriteCallback(r)
  <2>1. row' \in Row
    <3>1. [req[r].config EXCEPT !.pair = req[r].held] \in Row
      BY <1>0, RowTypes
    <3>2. QED
      BY <1>16, <3>1, UpsertType DEF WriteCallback
  <2>2. QED
    BY <1>16, <2>1, FinishType DEF WriteCallback
<1>17. CASE DeleteRow(r)
  <2>1. row' \in Row
    BY <1>17, BaseTypes DEF DeleteRow, Row, NoRow
  <2>2. QED
    BY <1>17, <2>1, FinishType DEF DeleteRow
<1>18. QED
  BY <1>1, <1>2, <1>3, <1>4, <1>5, <1>6, <1>7, <1>8, <1>9, <1>10, <1>11,
     <1>12, <1>13, <1>14, <1>15, <1>16, <1>17 DEF Step

LEMMA StartType ==
    ASSUME TypeOK, NEW r \in Requests, NEW kind \in Kinds, Start(r, kind)
    PROVE  TypeOK'
<1>1. FirstStep(kind) \in Steps /\ kind \in AllKinds
  BY DEF FirstStep, Steps
<1>2. req' \in [Requests -> Request]
  BY <1>1 DEF Start, TypeOK, Request
<1>3. QED
  BY <1>2 DEF Start, TypeOK

LEMMA RestartType ==
    ASSUME TypeOK, Restart
    PROVE  TypeOK'
<1>1. {req[r].held : r \in Requests} \ {0} \subseteq 1 .. MaxPairs
  BY DEF TypeOK, Request, Pairs
<1>2. QED
  BY <1>1, BaseTypes DEF Restart, TypeOK

LEMMA TickType ==
    ASSUME TypeOK, Tick
    PROVE  TypeOK'
<1>1. ASSUME NEW r \in Requests
      PROVE  [req[r] EXCEPT !.age = @ + 1] \in Request /\ req[r] \in Request
  <2>1. req[r] \in Request
    BY DEF TypeOK
  <2>2. req[r].age + 1 \in Nat
    BY <2>1 DEF Request
  <2>3. [req[r] EXCEPT !.age = req[r].age + 1] \in Request
    BY <2>1, <2>2 DEF Request
  <2>4. QED
    BY <2>1, <2>3
<1>2. req' \in [Requests -> Request]
  <2> DEFINE later(r) == IF At(r, "idle") THEN req[r]
                         ELSE [req[r] EXCEPT !.age = @ + 1]
  <2>1. \A r \in Requests : later(r) \in Request
    BY <1>1
  <2>2. req' = [r \in Requests |-> later(r)]
    BY DEF Tick
  <2> HIDE DEF later
  <2>3. QED
    BY <2>1, <2>2
<1>3. clock' \in Nat
  BY DEF Tick, TypeOK
<1>4. QED
  BY <1>2, <1>3 DEF Tick, TypeOK

LEMMA NextType == TypeOK /\ [Next]_vars => TypeOK'
<1>1. ASSUME TypeOK, UNCHANGED vars PROVE TypeOK'
  BY <1>1 DEF vars, TypeOK
<1>2. ASSUME TypeOK, NEW r \in Requests, DatabaseFails(r) PROVE TypeOK'
  BY <1>2, GiveUpType DEF DatabaseFails, TypeOK
<1>3. QED
  BY <1>1, <1>2, StartType, StepType, RestartType, TickType DEF Next

(* Every variable keeps its type, whatever the kinds of request and the    *)
(* failures (the whole of TokenLifecycle).                                 *)
THEOREM TypeCorrect == Spec => []TypeOK
  BY InitType, NextType, PTL DEF Spec
-----------------------------------------------------------------------------
(* The refresh chain.  Only a request at refresh_save holds a pair, that   *)
(* pair is the last one issued, and while it is held nobody else can spend *)
(* it: neither the row nor any configuration read from it has the live     *)
(* refresh token.                                                          *)

Shape(r) ==
    /\ req[r].pc # "exchange"
    /\ req[r].pc = "idle" \/ req[r].kind \in RefreshKinds
    /\ req[r].pc \in {"invalidate", "write"} => req[r].kind = "delete"
    /\ req[r].pc = "refresh_save" <=> req[r].held # 0
    /\ req[r].pc \in {"refresh_post", "refresh_save"} => req[r].config.exists

PairBounds ==
    /\ row.pair <= issued
    /\ \A r \in Requests : /\ req[r].held \in {0, issued}
                           /\ req[r].config.pair <= issued

SoleHolder ==
    \A r \in Requests : req[r].held # 0 =>
        /\ row.pair # issued
        /\ \A s \in Requests : /\ req[s].config.pair # issued
                               /\ req[s].held # 0 => s = r

RefreshInv ==
    /\ TypeOK
    /\ \A r \in Requests : Shape(r)
    /\ PairBounds
    /\ SoleHolder
    /\ RefreshChain

LEMMA InitRefresh == Init => RefreshInv
<1> SUFFICES ASSUME Init PROVE RefreshInv
  OBVIOUS
<1>1. TypeOK
  BY InitType
<1>2. /\ row.pair = issued
      /\ issued \in Nat
  BY <1>1 DEF Init, TypeOK, Pairs
<1>3. \A r \in Requests : /\ req[r].pc = "idle"
                          /\ req[r].held = 0
                          /\ req[r].config.pair = 0
  BY DEF Init, IdleRequest, NoRow
<1>4. \A r \in Requests : Shape(r)
  BY <1>3 DEF Shape
<1>5. PairBounds
  BY <1>2, <1>3 DEF PairBounds
<1>6. SoleHolder
  BY <1>3 DEF SoleHolder
<1>7. QED
  BY <1>1, <1>2, <1>4, <1>5, <1>6 DEF RefreshInv, RefreshChain

(* A step that neither issues, stores nor forgets a pair, and lets a       *)
(* request know no pair but the one in the row.                            *)
Quiet ==
    /\ UNCHANGED <<row, issued, lost>>
    /\ \A s \in Requests :
         /\ req'[s].held = req[s].held
         /\ req'[s].config.pair \in {0, row.pair, req[s].config.pair}

LEMMA QuietStep ==
    ASSUME RefreshInv, TypeOK', Quiet, \A s \in Requests : Shape(s)'
    PROVE  RefreshInv'
<1>1. issued \in Nat /\ issued' = issued /\ row' = row
  BY DEF Quiet, RefreshInv, TypeOK, Pairs
<1>2. row.pair \in Nat /\ \A r \in Requests : req[r].config.pair \in Nat
  <2>1. Pairs \subseteq Nat
    BY DEF Pairs
  <2>2. row \in Row /\ \A r \in Requests : req[r].config \in Row
    BY DEF RefreshInv, TypeOK, Request
  <2>3. QED
    BY <2>1, <2>2 DEF Row
<1>3. PairBounds'
  <2>1. row'.pair <= issued'
    BY <1>1 DEF RefreshInv, PairBounds
  <2>2. ASSUME NEW r \in Requests
        PROVE  req'[r].held \in {0, issued'} /\ req'[r].config.pair <= issued'
    <3>1. req'[r].held = req[r].held
      BY DEF Quiet
    <3>2. req'[r].config.pair \in {0, row.pair, req[r].config.pair}
      BY DEF Quiet
    <3>3. /\ req[r].held \in {0, issued}
          /\ req[r].config.pair <= issued
          /\ row.pair <= issued
      BY DEF RefreshInv, PairBounds
    <3>4. req'[r].config.pair <= issued
      BY <1>1, <1>2, <3>2, <3>3
    <3>5. QED
      BY <1>1, <3>1, <3>3, <3>4
  <2>3. QED
    BY <2>1, <2>2 DEF PairBounds
<1>4. SoleHolder'
  <2> SUFFICES ASSUME NEW r \in Requests, req'[r].held # 0
               PROVE  /\ row'.pair # issued'
                      /\ \A s \in Requests :
                           /\ req'[s].config.pair # issued'
                           /\ req'[s].held # 0 => s = r
    BY DEF SoleHolder
  <2>1. req[r].held # 0
    BY DEF Quiet
  <2>2. issued # 0
    BY <2>1 DEF RefreshInv, PairBounds
  <2>3. QED
    BY <1>1, <2>1, <2>2 DEF Quiet, RefreshInv, SoleHolder
<1>5. RefreshChain'
  BY <1>1 DEF Quiet, RefreshInv, RefreshChain
<1>6. QED
  BY <1>3, <1>4, <1>5 DEF RefreshInv

(* The same for a step of one request, and the step is quiet.              *)
LEMMA QuietRequest ==
    ASSUME RefreshInv, TypeOK', NEW r \in Requests,
           UNCHANGED <<row, issued, lost>>,
           \A s \in Requests : s # r => req'[s] = req[s],
           req'[r].held = req[r].held,
           req'[r].config.pair \in {0, row.pair, req[r].config.pair},
           Shape(r)'
    PROVE  RefreshInv' /\ Quiet
<1>1. Quiet
  BY DEF Quiet
<1>2. \A s \in Requests : Shape(s)'
  BY DEF RefreshInv, Shape
<1>3. QED
  BY <1>1, <1>2, QuietStep

(* The types of what the actions below use.                                *)
LEMMA Numbers ==
    ASSUME TypeOK
    PROVE  /\ issued \in Nat /\ row.pair \in Nat /\ row \in Row
           /\ \A r \in Requests : /\ req[r] \in Request
                                  /\ req[r].config \in Row
                                  /\ req[r].config.pair \in Nat
                                  /\ req[r].held \in Nat
<1>1. Pairs \subseteq Nat
  BY DEF Pairs
<1>2. issued \in Pairs /\ row \in Row /\ \A r \in Requests : req[r] \in Request
  BY DEF TypeOK
<1>3. row.pair \in Pairs
  BY <1>2 DEF Row
<1>4. \A r \in Requests : req[r].config \in Row /\ req[r].held \in Pairs
  BY <1>2 DEF Request
<1>5. \A r \in Requests : req[r].config.pair \in Pairs
  BY <1>4 DEF Row
<1>6. QED
  BY <1>1, <1>2, <1>3, <1>4, <1>5

(* A request that holds nothing ends.                                      *)
LEMMA QuietFinish ==
    ASSUME RefreshInv, TypeOK', NEW r \in Requests,
           UNCHANGED <<row, issued, lost>>, req[r].held = 0, Finish(r)
    PROVE  RefreshInv' /\ Quiet
<1>1. /\ \A s \in Requests : s # r => req'[s] = req[s]
      /\ req'[r] = IdleRequest
  BY DEF Finish, RefreshInv, TypeOK
<1>2. Shape(r)'
  BY <1>1 DEF Shape, IdleRequest
<1>3. req'[r].held = 0 /\ req'[r].config.pair = 0
  BY <1>1 DEF IdleRequest, NoRow
<1>4. QED
  BY <1>1, <1>2, <1>3, QuietRequest

(* A request moves on and knows what it knew.                              *)
LEMMA QuietContinue ==
    ASSUME RefreshInv, TypeOK', NEW r \in Requests, NEW step \in Steps,
           UNCHANGED <<row, issued, lost>>, Continue(r, step),
           req[r].pc # "idle",
           req[r].pc \notin {"refresh_post", "refresh_save"},
           step \notin {"idle", "exchange", "refresh_post", "refresh_save"},
           step \in {"invalidate", "write"} => req[r].kind = "delete"
    PROVE  RefreshInv' /\ Quiet
<1>1. /\ \A s \in Requests : s # r => req'[s] = req[s]
      /\ req'[r] = [req[r] EXCEPT !.pc = step]
  BY DEF Continue, RefreshInv, TypeOK
<1>2. req[r] \in Request
  BY Numbers DEF RefreshInv
<1>3. /\ req'[r].pc = step
      /\ req'[r].kind = req[r].kind
      /\ req'[r].held = req[r].held
      /\ req'[r].config = req[r].config
  BY <1>1, <1>2 DEF Request
<1>4. Shape(r)'
  BY <1>3 DEF Shape, RefreshInv
<1>5. QED
  BY <1>1, <1>3, <1>4, QuietRequest

(* A request moves on with a configuration it has just read.               *)
LEMMA QuietRead ==
    ASSUME RefreshInv, TypeOK', NEW r \in Requests, NEW step \in Steps,
           NEW config \in Row,
           UNCHANGED <<row, issued, lost>>,
           req' = [req EXCEPT ![r].pc = step, ![r].config = config],
           config.pair \in {0, row.pair}, config.exists,
           req[r].pc # "idle",
           req[r].pc # "refresh_save",
           step \notin {"idle", "exchange", "refresh_save"},
           step \in {"invalidate", "write"} => req[r].kind = "delete"
    PROVE  RefreshInv' /\ Quiet
<1> DEFINE new == [req[r] EXCEPT !.pc = step, !.config = config]
<1>0. req \in [Requests -> Request] /\ req[r] \in Request
  BY DEF RefreshInv, TypeOK
<1>1. /\ new.pc = step
      /\ new.kind = req[r].kind
      /\ new.held = req[r].held
      /\ new.config = config
  BY <1>0 DEF Request
<1>2. req' = [req EXCEPT ![r] = new]
  BY <1>0 DEF Request
<1> HIDE DEF new
<1>3. /\ \A s \in Requests : s # r => req'[s] = req[s]
      /\ req'[r].pc = step
      /\ req'[r].kind = req[r].kind
      /\ req'[r].held = req[r].held
      /\ req'[r].config = config
  BY <1>0, <1>1, <1>2
<1>4. Shape(r)'
  <2>1. Shape(r) /\ req[r].held = 0 /\ req[r].kind \in RefreshKinds
    BY DEF RefreshInv, Shape
  <2>2. req'[r].config.exists
    BY <1>3
  <2>3. QED
    BY <1>3, <2>1, <2>2 DEF Shape
<1>5. QED
  BY <1>3, <1>4, QuietRequest

(* The actions that leave the chain alone.                                 *)
LEMMA QuietActions ==
    ASSUME RefreshInv, TypeOK', NEW r \in Requests,
           \/ Load(r)
           \/ EnsureValidToken(r)
           \/ RefreshLoad(r)
           \/ RefreshRefused(r)
           \/ Reload(r)
           \/ GetOrCreateProvider(r)
           \/ Call(r)
           \/ Invalidate(r)
    PROVE  RefreshInv' /\ Quiet
<1>0. /\ req \in [Requests -> Request] /\ req[r] \in Request
      /\ row \in Row
      /\ Shape(r)
  BY DEF RefreshInv, TypeOK
<1>1. CASE Load(r)
  <2>1. req[r].kind \in RefreshKinds /\ req[r].held = 0
    BY <1>0, <1>1 DEF Load, At, Shape
  <2>2. CASE ~row.exists
    <3>1. lost' = lost /\ Finish(r)
      BY <1>1, <2>1, <2>2 DEF Load, GiveUp, Losing
    <3>2. QED
      BY <1>1, <2>1, <3>1, QuietFinish DEF Load
  <2>3. CASE row.exists
    <3>1. /\ ReadFor(req[r].kind) \in Row
          /\ ReadFor(req[r].kind).pair \in {0, row.pair}
          /\ ReadFor(req[r].kind).exists
      <4>1. /\ Sanitize(row) \in Row
            /\ Sanitize(row).pair = 0
            /\ Sanitize(row).exists = row.exists
        BY <1>0, RowTypes DEF Sanitize, Row
      <4>2. QED
        BY <1>0, <2>3, <4>1 DEF ReadFor
    <3>2. /\ StepAfterLoad(req[r].kind) \in {"check", "refresh_load", "invalidate"}
          /\ StepAfterLoad(req[r].kind) = "invalidate" => req[r].kind = "delete"
      BY <2>1 DEF StepAfterLoad, RefreshKinds
    <3>3. StepAfterLoad(req[r].kind) \in Steps
      BY <3>2 DEF Steps
    <3>4. /\ req' = [req EXCEPT ![r].pc = StepAfterLoad(req[r].kind),
                               ![r].config = ReadFor(req[r].kind)]
          /\ UNCHANGED <<row, issued, lost>>
          /\ req[r].pc = "load"
      BY <1>1, <2>3 DEF Load, At
    <3>5. StepAfterLoad(req[r].kind)
            \notin {"idle", "exchange", "refresh_save", "write"}
      BY <3>2
    <3>6. QED
      BY <3>1, <3>2, <3>3, <3>4, <3>5, QuietRead
  <2>4. QED
    BY <2>2, <2>3
<1>2. CASE EnsureValidToken(r)
  <2>1. req[r].held = 0
    BY <1>0, <1>2 DEF EnsureValidToken, At, Shape
  <2>2. CASE Finish(r)
    BY <1>2, <2>1, <2>2, QuietFinish DEF EnsureValidToken
  <2>3. ASSUME NEW step \in {"refresh_load", "reload"}, Continue(r, step)
        PROVE  RefreshInv' /\ Quiet
    <3>1. step \in Steps
      BY DEF Steps
    <3>2. QED
      BY <1>2, <2>3, <3>1, QuietContinue DEF EnsureValidToken, At
  <2>4. QED
    BY <1>2, <2>2, <2>3 DEF EnsureValidToken
<1>3. CASE RefreshLoad(r)
  <2>1. req[r].held = 0
    BY <1>0, <1>3 DEF RefreshLoad, At, Shape
  <2>2. CASE Finish(r)
    BY <1>3, <2>1, <2>2, QuietFinish DEF RefreshLoad
  <2>3. CASE /\ InTable(req[r].config)
             /\ req' = [req EXCEPT ![r].pc = "refresh_post", ![r].config = row]
    <3>1. "refresh_post" \in Steps
      BY DEF Steps
    <3>2. QED
      BY <1>0, <1>3, <2>3, <3>1, QuietRead DEF RefreshLoad, At, InTable
  <2>4. QED
    BY <1>3, <2>2, <2>3 DEF RefreshLoad
<1>4. CASE RefreshRefused(r)
  BY <1>0, <1>4, QuietFinish DEF RefreshRefused, At, Shape
<1>5. CASE Reload(r)
  <2>1. req[r].held = 0
    BY <1>0, <1>5 DEF Reload, At, Shape
  <2>2. CASE Finish(r)
    BY <1>5, <2>1, <2>2, QuietFinish DEF Reload
  <2>3. CASE /\ row.exists
             /\ req' = [req EXCEPT ![r].pc = "provider", ![r].config = row]
    <3>1. "provider" \in Steps
      BY DEF Steps
    <3>2. QED
      BY <1>0, <1>5, <2>3, <3>1, QuietRead DEF Reload, At
  <2>4. QED
    BY <1>5, <2>2, <2>3 DEF Reload
<1>6. CASE GetOrCreateProvider(r)
  <2>1. req[r].held = 0 /\ req[r].kind \in RefreshKinds
    BY <1>0, <1>6 DEF GetOrCreateProvider, At, Shape
  <2>2. CASE Finish(r)
    BY <1>6, <2>1, <2>2, QuietFinish DEF GetOrCreateProvider
  <2>3. ASSUME NEW client,
               req' = [req EXCEPT ![r].pc = "call", ![r].client = client]
        PROVE  RefreshInv' /\ Quiet
    <3> DEFINE new == [req[r] EXCEPT !.pc = "call", !.client = client]
    <3>1. /\ new.pc = "call"
          /\ new.kind = req[r].kind
          /\ new.held = req[r].held
          /\ new.config = req[r].config
      BY <1>0 DEF Request
    <3>2. req' = [req EXCEPT ![r] = new]
      BY <1>0, <2>3 DEF Request
    <3> HIDE DEF new
    <3>3. /\ \A s \in Requests : s # r => req'[s] = req[s]
          /\ req'[r].pc = "call"
          /\ req'[r].kind = req[r].kind
          /\ req'[r].held = req[r].held
          /\ req'[r].config = req[r].config
      BY <1>0, <3>1, <3>2
    <3>4. Shape(r)'
      BY <2>1, <3>3 DEF Shape
    <3>5. QED
      BY <1>6, <3>3, <3>4, QuietRequest DEF GetOrCreateProvider
  <2>4. QED
    BY <1>6, <2>2, <2>3 DEF GetOrCreateProvider
<1>7. CASE Call(r)
  BY <1>0, <1>7, QuietFinish DEF Call, At, Shape
<1>8. CASE Invalidate(r)
  <2>1. req[r].held = 0 /\ req[r].kind = "delete"
    BY <1>0, <1>8 DEF Invalidate, At, Shape
  <2>2. Continue(r, "write")
    BY <1>8, <2>1 DEF Invalidate
  <2>3. "write" \in Steps
    BY DEF Steps
  <2>4. QED
    BY <1>8, <2>1, <2>2, <2>3, QuietContinue DEF Invalidate, At
<1>9. QED
  BY <1>1, <1>2, <1>3, <1>4, <1>5, <1>6, <1>7, <1>8

LEMMA QuietStart ==
    ASSUME RefreshInv, TypeOK', NEW r \in Requests, NEW kind \in RefreshKinds,
           Start(r, kind)
    PROVE  RefreshInv' /\ Quiet
<1> DEFINE new == [req[r] EXCEPT !.pc = "load", !.kind = kind]
<1>0. req \in [Requests -> Request] /\ req[r] \in Request /\ Shape(r)
  BY DEF RefreshInv, TypeOK
<1>1. /\ new.pc = "load"
      /\ new.kind = kind
      /\ new.held = req[r].held
      /\ new.config = req[r].config
  BY <1>0 DEF Request
<1>2. FirstStep(kind) = "load"
  BY DEF FirstStep, RefreshKinds
<1>3. req' = [req EXCEPT ![r] = new]
  BY <1>0, <1>2 DEF Start, Request
<1> HIDE DEF new
<1>4. /\ \A s \in Requests : s # r => req'[s] = req[s]
      /\ req'[r].pc = "load"
      /\ req'[r].kind = kind
      /\ req'[r].held = req[r].held
      /\ req'[r].config = req[r].config
  BY <1>0, <1>1, <1>3
<1>5. req[r].held = 0
  BY <1>0 DEF Start, At, Shape
<1>6. Shape(r)'
  BY <1>4, <1>5 DEF Shape
<1>7. QED
  BY <1>4, <1>6, QuietRequest DEF Start

LEMMA QuietTick ==
    ASSUME RefreshInv, TypeOK', Tick
    PROVE  RefreshInv' /\ Quiet
<1>1. ASSUME NEW s \in Requests
      PROVE  /\ req'[s].pc = req[s].pc
             /\ req'[s].kind = req[s].kind
             /\ req'[s].held = req[s].held
             /\ req'[s].config = req[s].config
  <2> DEFINE later == [req[s] EXCEPT !.age = @ + 1]
  <2>1. req[s] \in Request
    BY DEF RefreshInv, TypeOK
  <2>2. /\ later.pc = req[s].pc
        /\ later.kind = req[s].kind
        /\ later.held = req[s].held
        /\ later.config = req[s].config
    BY <2>1 DEF Request
  <2>3. req'[s] = IF At(s, "idle") THEN req[s] ELSE later
    BY DEF Tick
  <2> HIDE DEF later
  <2>4. QED
    BY <2>2, <2>3
<1>2. Quiet
  BY <1>1 DEF Quiet, Tick
<1>3. \A s \in Requests : Shape(s)'
  BY <1>1 DEF RefreshInv, Shape
<1>4. QED
  BY <1>2, <1>3, QuietStep

(* The actions that spend, store or forget a pair.                         *)

(* While a pair is held no request can spend the live refresh token.       *)
LEMMA NobodyHolds ==
    ASSUME RefreshInv, NEW r \in Requests, req[r].config.pair = issued
    PROVE  \A s \in Requests : req[s].held = 0
  BY DEF RefreshInv, SoleHolder

LEMMA AnsweredChain ==
    ASSUME RefreshInv, TypeOK', NEW r \in Requests, RefreshAnswered(r)
    PROVE  RefreshInv'
<1> DEFINE new == [req[r] EXCEPT !.pc = "refresh_save", !.held = issued + 1]
<1>0. /\ req \in [Requests -> Request] /\ req[r] \in Request /\ Shape(r)
      /\ issued \in Nat /\ issued' = issued + 1 /\ row' = row
  BY Numbers DEF RefreshInv, TypeOK, RefreshAnswered, Issue
<1>1. /\ new.pc = "refresh_save"
      /\ new.kind = req[r].kind
      /\ new.held = issued + 1
      /\ new.config = req[r].config
  BY <1>0 DEF Request
<1>2. req' = [req EXCEPT ![r] = new]
  BY <1>0 DEF RefreshAnswered, Request
<1> HIDE DEF new
<1>3. /\ \A s \in Requests : s # r => req'[s] = req[s]
      /\ req'[r].pc = "refresh_save"
      /\ req'[r].kind = req[r].kind
      /\ req'[r].held = issued + 1
      /\ req'[r].config = req[r].config
  BY <1>0, <1>1, <1>2
<1>4. \A s \in Requests : req[s].held = 0
  BY NobodyHolds DEF RefreshAnswered
<1>5. \A s \in Requests : Shape(s)'
  <2>1. Shape(r)'
    BY <1>0, <1>3 DEF Shape, RefreshAnswered, At
  <2>2. QED
    BY <1>3, <2>1 DEF RefreshInv, Shape
<1>6. /\ row.pair \in Nat /\ row.pair <= issued
      /\ \A s \in Requests : /\ req[s].config.pair \in Nat
                             /\ req[s].config.pair <= issued
  BY Numbers DEF RefreshInv, PairBounds
<1>7. \A s \in Requests : /\ req'[s].config.pair = req[s].config.pair
                         /\ req'[s].held = IF s = r THEN issued + 1 ELSE 0
  BY <1>3, <1>4
<1>8. PairBounds'
  BY <1>0, <1>6, <1>7 DEF PairBounds
<1>9. SoleHolder'
  BY <1>0, <1>6, <1>7 DEF SoleHolder
<1>10. RefreshChain'
  BY <1>0, <1>3 DEF RefreshChain
<1>11. QED
  BY <1>5, <1>8, <1>9, <1>10 DEF RefreshInv

LEMMA AnswerLostChain ==
    ASSUME RefreshInv, TypeOK', NEW r \in Requests, RefreshAnswerLost(r)
    PROVE  RefreshInv'
<1>0. /\ req \in [Requests -> Request]
      /\ issued \in Nat /\ issued' = issued + 1 /\ row' = row
      /\ lost' = lost \cup {issued + 1}
  BY Numbers DEF RefreshInv, TypeOK, RefreshAnswerLost, Issue
<1>1. /\ \A s \in Requests : s # r => req'[s] = req[s]
      /\ req'[r] = IdleRequest
  BY <1>0 DEF RefreshAnswerLost, Finish
<1>2. \A s \in Requests : req[s].held = 0
  BY NobodyHolds DEF RefreshAnswerLost
<1>3. \A s \in Requests : Shape(s)'
  <2>1. Shape(r)'
    BY <1>1 DEF Shape, IdleRequest
  <2>2. QED
    BY <1>1, <2>1 DEF RefreshInv, Shape
<1>4. \A s \in Requests : req'[s].held = 0
  BY <1>1, <1>2 DEF IdleRequest
<1>5. /\ row.pair \in Nat /\ row.pair <= issued
      /\ \A s \in Requests : /\ req[s].config.pair \in Nat
                             /\ req[s].config.pair <= issued
  BY Numbers DEF RefreshInv, PairBounds
<1>6. \A s \in Requests : req'[s].config.pair \in {0, req[s].config.pair}
  BY <1>1 DEF IdleRequest, NoRow
<1>7. PairBounds'
  BY <1>0, <1>4, <1>5, <1>6 DEF PairBounds
<1>8. SoleHolder'
  BY <1>4 DEF SoleHolder
<1>9. RefreshChain'
  BY <1>0 DEF RefreshChain
<1>10. QED
  BY <1>3, <1>7, <1>8, <1>9 DEF RefreshInv

LEMMA SaveChain ==
    ASSUME RefreshInv, TypeOK', NEW r \in Requests, RefreshSave(r)
    PROVE  RefreshInv'
<1> DEFINE moved == [req[r] EXCEPT !.pc = "reload", !.held = 0]
<1>0. /\ req \in [Requests -> Request] /\ req[r] \in Request /\ Shape(r)
      /\ req[r].config \in Row
      /\ issued \in Nat /\ issued' = issued
      /\ req[r].pc = "refresh_save"
  BY Numbers DEF RefreshInv, TypeOK, RefreshSave, At
<1>1. /\ req[r].held # 0 /\ req[r].held = issued
      /\ req[r].config.exists /\ req[r].kind \in RefreshKinds
  BY <1>0 DEF Shape, RefreshInv, PairBounds
<1>2. /\ moved.pc = "reload"
      /\ moved.kind = req[r].kind
      /\ moved.held = 0
      /\ moved.config = req[r].config
  BY <1>0 DEF Request
<1>3. req' = [req EXCEPT ![r] = moved] \/ req' = [req EXCEPT ![r] = IdleRequest]
  BY <1>0 DEF RefreshSave, Finish, Request
<1> HIDE DEF moved
<1>4. /\ \A s \in Requests : s # r => req'[s] = req[s]
      /\ req'[r] = moved \/ req'[r] = IdleRequest
  BY <1>0, <1>3
<1>5. /\ req'[r].held = 0
      /\ req'[r].config.pair \in {0, req[r].config.pair}
      /\ Shape(r)'
  BY <1>1, <1>2, <1>4 DEF IdleRequest, NoRow, Shape
<1>6. \A s \in Requests : Shape(s)'
  BY <1>4, <1>5 DEF RefreshInv, Shape
<1>7. \A s \in Requests : req'[s].held = 0
  BY <1>1, <1>4, <1>5 DEF RefreshInv, SoleHolder
<1>8. row' = (IF InTable(req[r].config)
             THEN [req[r].config EXCEPT !.pair = issued] ELSE row)
  BY <1>0, <1>1 DEF RefreshSave, UpdateRow, InTable
<1>9. CASE InTable(req[r].config)
  <2>1. row'.pair = issued
    BY <1>0, <1>8, <1>9 DEF Row
  <2>2. PairBounds'
    <3>1. \A s \in Requests : /\ req[s].config.pair \in Nat
                             /\ req[s].config.pair <= issued
      BY Numbers DEF RefreshInv, PairBounds
    <3>2. \A s \in Requests : req'[s].config.pair \in {0, req[s].config.pair}
      BY <1>4, <1>5
    <3>3. QED
      BY <1>0, <1>7, <2>1, <3>1, <3>2 DEF PairBounds
  <2>3. QED
    BY <1>0, <1>6, <1>7, <2>1, <2>2 DEF RefreshInv, SoleHolder, RefreshChain
<1>10. CASE ~InTable(req[r].config)
  <2>1. row' = row
    BY <1>8, <1>10
  <2>2. issued \in lost'
    BY <1>1, <1>10 DEF RefreshSave, Losing
  <2>3. PairBounds'
    <3>1. /\ row.pair <= issued
          /\ \A s \in Requests : /\ req[s].config.pair \in Nat
                                 /\ req[s].config.pair <= issued
      BY Numbers DEF RefreshInv, PairBounds
    <3>2. \A s \in Requests : req'[s].config.pair \in {0, req[s].config.pair}
      BY <1>4, <1>5
    <3>3. QED
      BY <1>0, <1>7, <2>1, <3>1, <3>2 DEF PairBounds
  <2>4. QED
    BY <1>0, <1>6, <1>7, <2>2, <2>3 DEF RefreshInv, SoleHolder, RefreshChain
<1>11. QED
  BY <1>9, <1>10

LEMMA DeleteChain ==
    ASSUME RefreshInv, TypeOK', NEW r \in Requests, DeleteRow(r)
    PROVE  RefreshInv'
<1>0. /\ req \in [Requests -> Request] /\ row \in Row
      /\ issued \in Nat /\ issued' = issued /\ lost' = lost
      /\ req[r].held = 0
  BY Numbers DEF RefreshInv, TypeOK, DeleteRow, At, Shape
<1>1. /\ \A s \in Requests : s # r => req'[s] = req[s]
      /\ req'[r] = IdleRequest
  BY <1>0 DEF DeleteRow, Finish
<1>2. \A s \in Requests : Shape(s)'
  <2>1. Shape(r)'
    BY <1>1 DEF Shape, IdleRequest
  <2>2. QED
    BY <1>1, <2>1 DEF RefreshInv, Shape
<1>3. \A s \in Requests : /\ req'[s].held = req[s].held
                         /\ req'[s].config.pair \in {0, req[s].config.pair}
  BY <1>0, <1>1 DEF IdleRequest, NoRow
<1>4. /\ row'.pair \in {0, row.pair}
      /\ row' = row \/ ~row'.exists
  BY <1>0 DEF DeleteRow, NoRow
<1>5. PairBounds'
  <2>1. /\ row.pair \in Nat /\ row.pair <= issued
        /\ \A s \in Requests : /\ req[s].config.pair \in Nat
                               /\ req[s].config.pair <= issued
                               /\ req[s].held \in {0, issued}
    BY Numbers DEF RefreshInv, PairBounds
  <2>2. QED
    BY <1>0, <1>3, <1>4, <2>1 DEF PairBounds
<1>6. SoleHolder'
  <2>1. \A s \in Requests : req[s].held # 0 => issued # 0
    BY DEF RefreshInv, PairBounds
  <2>2. QED
    BY <1>0, <1>3, <1>4, <2>1 DEF RefreshInv, SoleHolder
<1>7. RefreshChain'
  BY <1>0, <1>3, <1>4 DEF RefreshInv, RefreshChain
<1>8. QED
  BY <1>2, <1>5, <1>6, <1>7 DEF RefreshInv

LEMMA DatabaseFailsChain ==
    ASSUME RefreshInv, TypeOK', NEW r \in Requests, DatabaseFails(r)
    PROVE  RefreshInv'
<1>0. /\ req \in [Requests -> Request]
      /\ issued \in Nat /\ issued' = issued /\ row' = row
      /\ lost' = Losing(r)
  BY Numbers DEF RefreshInv, TypeOK, DatabaseFails, GiveUp
<1>1. /\ \A s \in Requests : s # r => req'[s] = req[s]
      /\ req'[r] = IdleRequest
  BY <1>0 DEF DatabaseFails, GiveUp, Finish
<1>2. \A s \in Requests : Shape(s)'
  <2>1. Shape(r)'
    BY <1>1 DEF Shape, IdleRequest
  <2>2. QED
    BY <1>1, <2>1 DEF RefreshInv, Shape
<1>3. \A s \in Requests : /\ req'[s].held \in {0, req[s].held}
                         /\ req'[s].config.pair \in {0, req[s].config.pair}
  BY <1>0, <1>1 DEF IdleRequest, NoRow
<1>4. PairBounds'
  <2>1. /\ row.pair <= issued
        /\ \A s \in Requests : /\ req[s].config.pair \in Nat
                               /\ req[s].config.pair <= issued
                               /\ req[s].held \in {0, issued}
    BY Numbers DEF RefreshInv, PairBounds
  <2>2. QED
    BY <1>0, <1>3, <2>1 DEF PairBounds
<1>5. SoleHolder'
  <2>1. \A s \in Requests : req[s].held # 0 => issued # 0
    BY DEF RefreshInv, PairBounds
  <2>2. QED
    BY <1>0, <1>3, <2>1 DEF RefreshInv, SoleHolder
<1>6. RefreshChain'
  <2>1. CASE req[r].held = 0
    BY <1>0, <1>1, <2>1 DEF RefreshInv, RefreshChain, Losing, IdleRequest
  <2>2. CASE req[r].held # 0
    BY <1>0, <2>2 DEF RefreshInv, PairBounds, RefreshChain, Losing
  <2>3. QED
    BY <2>1, <2>2
<1>7. QED
  BY <1>2, <1>4, <1>5, <1>6 DEF RefreshInv

LEMMA RestartChain ==
    ASSUME RefreshInv, TypeOK', Restart
    PROVE  RefreshInv'
<1>0. /\ issued \in Nat /\ issued' = issued /\ row' = row
      /\ \A s \in Requests : req'[s] = IdleRequest
      /\ lost' = lost \cup ({req[s].held : s \in Requests} \ {0})
  BY Numbers DEF RefreshInv, TypeOK, Restart
<1>1. \A s \in Requests : Shape(s)' /\ req'[s].held = 0 /\ req'[s].config.pair = 0
  BY <1>0 DEF Shape, IdleRequest, NoRow
<1>2. PairBounds' /\ SoleHolder'
  BY <1>0, <1>1 DEF RefreshInv, PairBounds, SoleHolder
<1>3. RefreshChain'
  <2>1. CASE issued = 0
    <3>1. row.pair = 0
      BY <2>1, Numbers DEF RefreshInv, PairBounds
    <3>2. QED
      BY <1>0, <2>1, <3>1 DEF RefreshChain
  <2>2. CASE issued # 0
    BY <1>0, <2>2 DEF RefreshInv, RefreshChain
  <2>3. QED
    BY <2>1, <2>2
<1>4. QED
  BY <1>1, <1>2, <1>3 DEF RefreshInv

LEMMA NextChain ==
    ASSUME Kinds \subseteq RefreshKinds
    PROVE  RefreshInv /\ [Next]_vars => RefreshInv'
<1> SUFFICES ASSUME RefreshInv, [Next]_vars PROVE RefreshInv'
  OBVIOUS
<1>1. TypeOK'
  BY NextType DEF RefreshInv
<1>2. ASSUME NEW r \in Requests, NEW kind \in Kinds, Start(r, kind)
      PROVE  RefreshInv'
  BY <1>1, <1>2, QuietStart
<1>3. ASSUME NEW r \in Requests, Step(r) PROVE RefreshInv'
  <2>1. Shape(r)
    BY DEF RefreshInv
  <2>2. CASE RefreshAnswered(r)
    BY <1>1, <2>2, AnsweredChain
  <2>3. CASE RefreshAnswerLost(r)
    BY <1>1, <2>3, AnswerLostChain
  <2>4. CASE RefreshSave(r)
    BY <1>1, <2>4, SaveChain
  <2>5. CASE DeleteRow(r)
    BY <1>1, <2>5, DeleteChain
  <2>6. ~ExchangeCode(r)
    BY <2>1 DEF Shape, ExchangeCode, At
  <2>7. ~WriteSettings(r) /\ ~WriteActive(r) /\ ~WriteSave(r) /\ ~WriteCallback(r)
    BY <2>1 DEF Shape, WriteSettings, WriteActive, WriteSave, WriteCallback, At
  <2>8. QED
    BY <1>1, <1>3, <2>2, <2>3, <2>4, <2>5, <2>6, <2>7, QuietActions DEF Step
<1>4. ASSUME NEW r \in Requests, DatabaseFails(r) PROVE RefreshInv'
  BY <1>1, <1>4, DatabaseFailsChain
<1>5. ASSUME Restart PROVE RefreshInv'
  BY <1>1, <1>5, RestartChain
<1>6. ASSUME Tick PROVE RefreshInv'
  BY <1>1, <1>6, QuietTick
<1>7. ASSUME UNCHANGED vars PROVE RefreshInv'
  BY <1>7, <1>1 DEF vars, RefreshInv, Shape, PairBounds, SoleHolder, RefreshChain
<1>8. QED
  BY <1>2, <1>3, <1>4, <1>5, <1>6, <1>7 DEF Next

(* The live refresh token is in the row, in the hands of the request that  *)
(* has just received it, or lost by a named failure, for any number of     *)
(* requests that refresh, use and delete the configuration concurrently    *)
(* (ensureValidToken, RefreshAmoCRMToken, DeleteCRMConfigByType).          *)
THEOREM RefreshChainHolds ==
    ASSUME Kinds \subseteq RefreshKinds
    PROVE  Spec => []RefreshChain
<1>1. RefreshInv /\ [Next]_vars => RefreshInv'
  BY NextChain
<1>2. RefreshInv => RefreshChain
  BY DEF RefreshInv
<1>3. QED
  BY <1>1, <1>2, InitRefresh, PTL DEF Spec

(* The pair in a row that stays in the table only grows, for any number of *)
(* requests: the save of a slow refresh never undoes that of another one   *)
(* (RefreshAmoCRMToken, Repository.UpdateCRMConfig).                       *)
THEOREM PairsOnlyGrow ==
    ASSUME Kinds \subseteq RefreshKinds
    PROVE  Spec => PairsNeverGoBack
<1> DEFINE Growing == row.exists /\ row'.exists => row.pair <= row'.pair
<1>1. ASSUME RefreshInv, [Next]_vars PROVE [Growing]_row
  <2>1. ASSUME NEW r \in Requests, RefreshSave(r) PROVE [Growing]_row
    <3>1. /\ req[r].held = issued /\ row.pair <= issued
          /\ req[r].config \in Row
      BY <1>1, <2>1, Numbers
      DEF RefreshInv, RefreshSave, At, Shape, PairBounds
    <3>2. row' = row \/ row'.pair = issued
      BY <2>1, <3>1 DEF RefreshSave, UpdateRow, Row
    <3>3. QED
      BY <3>1, <3>2
  <2>2. ASSUME NEW r \in Requests, DeleteRow(r) PROVE [Growing]_row
    BY <2>2 DEF DeleteRow, NoRow
  <2>3. ASSUME NEW r \in Requests, Step(r) PROVE [Growing]_row
    <3>1. Shape(r)
      BY <1>1 DEF RefreshInv
    <3>2. ~WriteSettings(r) /\ ~WriteActive(r) /\ ~WriteSave(r) /\ ~WriteCallback(r)
      BY <3>1 DEF Shape, WriteSettings, WriteActive, WriteSave, WriteCallback, At
    <3>3. CASE \/ Load(r) \/ EnsureValidToken(r) \/ RefreshLoad(r)
               \/ RefreshAnswered(r) \/ RefreshAnswerLost(r)
               \/ RefreshRefused(r) \/ Reload(r) \/ GetOrCreateProvider(r)
               \/ Call(r) \/ ExchangeCode(r) \/ Invalidate(r)
      BY <3>3 DEF Load, EnsureValidToken, RefreshLoad, RefreshAnswered,
         RefreshAnswerLost, RefreshRefused, Reload, GetOrCreateProvider,
         Call, ExchangeCode, Invalidate
    <3>4. QED
      BY <2>1, <2>2, <2>3, <3>2, <3>3 DEF Step
  <2>4. QED
    BY <1>1, <2>3 DEF Next, vars, Start, DatabaseFails, Restart, Tick
<1>2. RefreshInv /\ [Next]_vars => RefreshInv'
  BY NextChain
<1>3. QED
  BY <1>1, <1>2, InitRefresh, PTL DEF Spec, PairsNeverGoBack

-----------------------------------------------------------------------------
(* How long a request can take.                                            *)

(* What a request has still to do, in steps.                               *)
StepsLeft(r) ==
    LET settings == req[r].kind = "settings"
    IN  CASE At(r, "idle")         -> 0
          [] At(r, "call")         -> 1
          [] At(r, "provider")     -> 2
          [] At(r, "reload")       -> 3
          [] At(r, "refresh_save") -> 4
          [] At(r, "refresh_post") -> 5
          [] At(r, "refresh_load") -> 6
          [] At(r, "check")        -> 7
          [] At(r, "load")         -> 8
          [] At(r, "exchange")     -> 9
          [] At(r, "write")        -> IF settings THEN 2 ELSE 1
          [] At(r, "invalidate")   -> IF settings THEN 1 ELSE 2

(* At most nine, and none exactly for an idle request.                     *)
Countdown(r) ==
    \/ At(r, "idle") /\ StepsLeft(r) = 0
    \/ ~At(r, "idle") /\ StepsLeft(r) \in 1 .. 9

LEMMA StepsLeftType ==
    ASSUME TypeOK, NEW r \in Requests
    PROVE  Countdown(r) /\ StepsLeft(r) \in 0 .. 9
<1> USE DEF At
<1>1. req[r].pc \in Steps
  BY DEF TypeOK, Request
<1>2. CASE req[r].pc = "idle"
  <2>1. StepsLeft(r) = 0
    BY <1>2 DEF StepsLeft
  <2>2. QED
    BY <1>2, <2>1 DEF Countdown
<1>3. CASE req[r].pc # "idle"
  <2>1. StepsLeft(r) \in {1, 2, 3, 4, 5, 6, 7, 8, 9}
    <3>1. CASE req[r].pc \in {"load", "check", "refresh_load", "refresh_post"}
      BY <3>1 DEF StepsLeft
    <3>2. CASE req[r].pc \in {"refresh_save", "reload", "provider", "call"}
      BY <3>2 DEF StepsLeft
    <3>3. CASE req[r].pc \in {"exchange", "write", "invalidate"}
      BY <3>3 DEF StepsLeft
    <3>4. QED
      BY <1>1, <1>3, <3>1, <3>2, <3>3 DEF Steps
  <2>2. QED
    BY <1>3, <2>1 DEF Countdown
<1>4. QED
  BY <1>2, <1>3

(* A request that finishes has nothing left to do.                         *)
LEMMA FinishLess ==
    ASSUME TypeOK, NEW r \in Requests, Finish(r), ~At(r, "idle")
    PROVE  StepsLeft(r)' < StepsLeft(r)
<1>1. StepsLeft(r)' = 0
  <2>1. req'[r].pc = "idle"
    BY DEF Finish, TypeOK, IdleRequest
  <2>2. QED
    BY <2>1 DEF StepsLeft, At
<1>2. StepsLeft(r) \in 1 .. 9
  BY StepsLeftType DEF Countdown
<1>3. QED
  BY <1>1, <1>2

(* One that goes on to a later step has less to do.                        *)
LEMMA StepLess ==
    ASSUME TypeOK, NEW r \in Requests, Step(r)
    PROVE  StepsLeft(r)' < StepsLeft(r)
<1> USE DEF At
<1>1. ASSUME ~At(r, "idle"), Finish(r)
      PROVE  StepsLeft(r)' < StepsLeft(r)
  BY <1>1, FinishLess
<1>2. ASSUME NEW step \in Steps, req'[r].pc = step, req'[r].kind = req[r].kind
      PROVE  StepsLeft(r)' =
               (CASE step = "idle"         -> 0
                  [] step = "call"         -> 1
                  [] step = "provider"     -> 2
                  [] step = "reload"       -> 3
                  [] step = "refresh_save" -> 4
                  [] step = "refresh_post" -> 5
                  [] step = "refresh_load" -> 6
                  [] step = "check"        -> 7
                  [] step = "load"         -> 8
                  [] step = "exchange"     -> 9
                  [] step = "write"        -> IF req[r].kind = "settings" THEN 2 ELSE 1
                  [] step = "invalidate"   -> IF req[r].kind = "settings" THEN 1 ELSE 2)
  BY <1>2 DEF Steps, StepsLeft
<1>3. CASE Load(r)
  <2>1. CASE row.exists
    <3>1. /\ At(r, "load")
          /\ req'[r].pc = StepAfterLoad(req[r].kind) /\ req'[r].kind = req[r].kind
      BY <1>3, <2>1 DEF Load, TypeOK, Request
    <3>2. StepsLeft(r) = 8
      BY <3>1 DEF StepsLeft
    <3>3. CASE req[r].kind = "operation"
      BY <1>2, <3>1, <3>2, <3>3 DEF StepAfterLoad, Steps
    <3>4. CASE req[r].kind = "refresh"
      BY <1>2, <3>1, <3>2, <3>4 DEF StepAfterLoad, Steps
    <3>5. CASE req[r].kind = "settings"
      BY <1>2, <3>1, <3>2, <3>5 DEF StepAfterLoad, Steps
    <3>6. CASE req[r].kind \notin {"operation", "refresh", "settings"}
      <4>1. req'[r].pc = "invalidate"
        BY <3>1, <3>6 DEF StepAfterLoad
      <4>2. StepsLeft(r)' = 2
        BY <1>2, <3>1, <3>6, <4>1 DEF Steps
      <4>3. QED
        BY <3>2, <4>2
    <3>7. QED
      BY <3>3, <3>4, <3>5, <3>6
  <2>2. CASE ~row.exists
    BY <1>1, <1>3, <2>2 DEF Load, GiveUp
  <2>3. QED
    BY <2>1, <2>2
<1>4. CASE EnsureValidToken(r)
  <2>1. CASE req[r].config.pair # 0
    <3>1. /\ At(r, "check")
          /\ req'[r].pc \in {"refresh_load", "reload"} /\ req'[r].kind = req[r].kind
      BY <1>4, <2>1 DEF EnsureValidToken, Continue, TypeOK, Request
    <3>2. StepsLeft(r) = 7
      BY <3>1 DEF StepsLeft
    <3>3. CASE req'[r].pc = "refresh_load"
      <4>1. StepsLeft(r)' = 6
        BY <1>2, <3>1, <3>3 DEF Steps
      <4>2. QED
        BY <3>2, <4>1
    <3>4. CASE req'[r].pc = "reload"
      <4>1. StepsLeft(r)' = 3
        BY <1>2, <3>1, <3>4 DEF Steps
      <4>2. QED
        BY <3>2, <4>1
    <3>5. QED
      BY <3>1, <3>3, <3>4
  <2>2. CASE req[r].config.pair = 0
    BY <1>1, <1>4, <2>2 DEF EnsureValidToken
  <2>3. QED
    BY <2>1, <2>2
<1>5. CASE RefreshLoad(r)
  <2>1. CASE Finish(r)
    BY <1>1, <1>5, <2>1 DEF RefreshLoad
  <2>2. CASE ~Finish(r)
    <3>1. /\ At(r, "refresh_load")
          /\ req'[r].pc = "refresh_post" /\ req'[r].kind = req[r].kind
      BY <1>5, <2>2 DEF RefreshLoad, TypeOK, Request
    <3>2. QED
      BY <1>2, <3>1 DEF StepsLeft, Steps
  <2>3. QED
    BY <2>1, <2>2
<1>6. CASE RefreshAnswered(r)
  <2>1. /\ At(r, "refresh_post")
        /\ req'[r].pc = "refresh_save" /\ req'[r].kind = req[r].kind
    BY <1>6 DEF RefreshAnswered, TypeOK, Request
  <2>2. QED
    BY <1>2, <2>1 DEF StepsLeft, Steps
<1>7. CASE RefreshAnswerLost(r) \/ RefreshRefused(r) \/ Call(r)
  BY <1>1, <1>7 DEF RefreshAnswerLost, RefreshRefused, Call
<1>8. CASE RefreshSave(r)
  <2>1. CASE Finish(r)
    BY <1>1, <1>8, <2>1 DEF RefreshSave
  <2>2. CASE ~Finish(r)
    <3>1. /\ At(r, "refresh_save")
          /\ req'[r].pc = "reload" /\ req'[r].kind = req[r].kind
      BY <1>8, <2>2 DEF RefreshSave, TypeOK, Request
    <3>2. QED
      BY <1>2, <3>1 DEF StepsLeft, Steps
  <2>3. QED
    BY <2>1, <2>2
<1>9. CASE Reload(r)
  <2>1. CASE row.exists
    <3>1. /\ At(r, "reload")
          /\ req'[r].pc = "provider" /\ req'[r].kind = req[r].kind
      BY <1>9, <2>1 DEF Reload, TypeOK, Request
    <3>2. QED
      BY <1>2, <3>1 DEF StepsLeft, Steps
  <2>2. CASE ~row.exists
    BY <1>1, <1>9, <2>2 DEF Reload
  <2>3. QED
    BY <2>1, <2>2
<1>10. CASE GetOrCreateProvider(r)
  <2>1. CASE Finish(r)
    BY <1>1, <1>10, <2>1 DEF GetOrCreateProvider
  <2>2. CASE ~Finish(r)
    <3>1. /\ At(r, "provider")
          /\ req'[r].pc = "call" /\ req'[r].kind = req[r].kind
      BY <1>10, <2>2 DEF GetOrCreateProvider, TypeOK, Request
    <3>2. QED
      BY <1>2, <3>1 DEF StepsLeft, Steps
  <2>3. QED
    BY <2>1, <2>2
<1>11. CASE ExchangeCode(r)
  <2>1. CASE Finish(r)
    BY <1>1, <1>11, <2>1 DEF ExchangeCode
  <2>2. CASE ~Finish(r)
    <3>1. /\ At(r, "exchange")
          /\ req'[r].pc = "load" /\ req'[r].kind = req[r].kind
      BY <1>11, <2>2 DEF ExchangeCode, TypeOK, Request
    <3>2. QED
      BY <1>2, <3>1 DEF StepsLeft, Steps
  <2>3. QED
    BY <2>1, <2>2
<1>12. CASE Invalidate(r)
  <2>1. CASE req[r].kind = "settings"
    BY <1>1, <1>12, <2>1 DEF Invalidate
  <2>2. CASE req[r].kind # "settings"
    <3>1. /\ At(r, "invalidate")
          /\ req'[r].pc = "write" /\ req'[r].kind = req[r].kind
      BY <1>12, <2>2 DEF Invalidate, Continue, TypeOK, Request
    <3>2. QED
      BY <1>2, <2>2, <3>1 DEF StepsLeft, Steps
  <2>3. QED
    BY <2>1, <2>2
<1>13. CASE WriteSettings(r)
  <2>1. CASE Finish(r)
    BY <1>1, <1>13, <2>1 DEF WriteSettings
  <2>2. CASE ~Finish(r)
    <3>1. /\ At(r, "write") /\ req[r].kind = "settings"
          /\ req'[r].pc = "invalidate" /\ req'[r].kind = req[r].kind
      BY <1>13, <2>2 DEF WriteSettings, Continue, TypeOK, Request
    <3>2. QED
      BY <1>2, <3>1 DEF StepsLeft, Steps
  <2>3. QED
    BY <2>1, <2>2
<1>14. CASE WriteActive(r) \/ WriteSave(r) \/ WriteCallback(r) \/ DeleteRow(r)
  BY <1>1, <1>14 DEF WriteActive, WriteSave, WriteCallback, DeleteRow
<1>15. QED
  BY <1>3, <1>4, <1>5, <1>6, <1>7, <1>8, <1>9, <1>10, <1>11, <1>12, <1>13, <1>14
     DEF Step

(* A step of one request leaves the others where they are.                 *)
LEMMA StepAlone ==
    ASSUME TypeOK, NEW r \in Requests, Step(r), NEW s \in Requests, s # r
    PROVE  req'[s] = req[s]
<1>1. CASE Load(r)
  BY <1>1 DEF Load, GiveUp, Finish, TypeOK
<1>2. CASE EnsureValidToken(r)
  BY <1>2 DEF EnsureValidToken, Finish, Continue, TypeOK
<1>3. CASE RefreshLoad(r) \/ RefreshAnswered(r) \/ RefreshAnswerLost(r)
           \/ RefreshRefused(r)
  BY <1>3 DEF RefreshLoad, RefreshAnswered, RefreshAnswerLost, RefreshRefused,
              Finish, TypeOK
<1>4. CASE RefreshSave(r) \/ Reload(r) \/ GetOrCreateProvider(r) \/ Call(r)
  BY <1>4 DEF RefreshSave, Reload, GetOrCreateProvider, Call, Finish, TypeOK
<1>5. CASE ExchangeCode(r) \/ Invalidate(r) \/ WriteSettings(r)
  BY <1>5 DEF ExchangeCode, Invalidate, WriteSettings, Finish, Continue, TypeOK
<1>6. CASE WriteActive(r) \/ WriteSave(r) \/ WriteCallback(r) \/ DeleteRow(r)
  BY <1>6 DEF WriteActive, WriteSave, WriteCallback, DeleteRow, Finish, TypeOK
<1>7. QED
  BY <1>1, <1>2, <1>3, <1>4, <1>5, <1>6 DEF Step

(* Whatever the kind of a request, it takes at most nine steps of its own: *)
(* none of the three reads of the row and none of the two ways to refresh  *)
(* leads back to an earlier step, and no other request, restart or tick    *)
(* puts it back (ensureValidTokenByType, RefreshAmoCRMToken,               *)
(* AmoCRMCallback, the settings handlers).                                 *)
THEOREM RequestsWindDown ==
    /\ Spec => [](\A r \in Requests : Countdown(r))
    /\ Spec => [][\A r \in Requests : ~At(r, "idle") =>
                     /\ StepsLeft(r)' <= StepsLeft(r)
                     /\ Step(r) => StepsLeft(r)' < StepsLeft(r)]_vars
<1>1. TypeOK => \A r \in Requests : Countdown(r)
  <2>1. ASSUME TypeOK, NEW r \in Requests
        PROVE  Countdown(r)
    BY <2>1, StepsLeftType
  <2>2. QED
    BY <2>1, Zenon
<1>2. TypeOK /\ [Next]_vars
      => [\A r \in Requests : ~At(r, "idle") =>
             /\ StepsLeft(r)' <= StepsLeft(r)
             /\ Step(r) => StepsLeft(r)' < StepsLeft(r)]_vars
  <2> SUFFICES ASSUME TypeOK, Next, NEW r \in Requests, ~At(r, "idle")
               PROVE  /\ StepsLeft(r)' <= StepsLeft(r)
                      /\ Step(r) => StepsLeft(r)' < StepsLeft(r)
    OBVIOUS
  <2>1. Step(r) => StepsLeft(r)' < StepsLeft(r)
    BY StepLess
  <2>2. StepsLeft(r) \in 0 .. 9
    BY StepsLeftType
  <2>3. ASSUME req'[r].pc = req[r].pc, req'[r].kind = req[r].kind
        PROVE  StepsLeft(r)' = StepsLeft(r)
    BY <2>3 DEF StepsLeft, At
  <2>4. ASSUME StepsLeft(r)' = StepsLeft(r)
        PROVE  StepsLeft(r)' <= StepsLeft(r)
    BY <2>2, <2>4
  <2>5. ASSUME req'[r] = IdleRequest
        PROVE  StepsLeft(r)' <= StepsLeft(r)
    <3>1. StepsLeft(r)' = 0
      BY <2>5 DEF StepsLeft, At, IdleRequest
    <3>2. QED
      BY <2>2, <3>1
  <2>6. ASSUME NEW s \in Requests, Step(s)
        PROVE  StepsLeft(r)' <= StepsLeft(r)
    <3>1. CASE s = r
      <4>1. StepsLeft(r)' < StepsLeft(r)
        BY <2>1, <2>6, <3>1
      <4>2. StepsLeft(r)' \in 0 .. 9
        <5>1. TypeOK'
          BY <2>6, StepType
        <5>2. req'[r].pc \in Steps
          BY <5>1 DEF TypeOK, Request
        <5>3. QED
          BY <5>2 DEF Steps, StepsLeft, At
      <4>3. QED
        BY <2>2, <4>1, <4>2
    <3>2. CASE s # r
      BY <2>3, <2>4, <2>6, <3>2, StepAlone
    <3>3. QED
      BY <3>1, <3>2
  <2>7. ASSUME NEW s \in Requests, NEW kind \in Kinds, Start(s, kind)
        PROVE  StepsLeft(r)' <= StepsLeft(r)
    <3>1. s # r
      BY <2>7 DEF Start
    <3>2. req'[r] = req[r]
      BY <2>7, <3>1 DEF Start, TypeOK
    <3>3. QED
      BY <2>3, <2>4, <3>2
  <2>8. ASSUME NEW s \in Requests, DatabaseFails(s)
        PROVE  StepsLeft(r)' <= StepsLeft(r)
    <3>1. req'[r] = req[r] \/ req'[r] = IdleRequest
      BY <2>8 DEF DatabaseFails, GiveUp, Finish, TypeOK
    <3>2. QED
      BY <2>3, <2>4, <2>5, <3>1
  <2>9. CASE Restart
    <3>1. req'[r] = IdleRequest
      BY <2>9 DEF Restart
    <3>2. QED
      BY <2>1, <2>5, <3>1
  <2>10. CASE Tick
    <3>1. req'[r].pc = req[r].pc /\ req'[r].kind = req[r].kind
      BY <2>10 DEF Tick, TypeOK, Request
    <3>2. QED
      BY <2>1, <2>3, <2>4, <3>1
  <2>11. StepsLeft(r)' <= StepsLeft(r)
    BY <2>6, <2>7, <2>8, <2>9, <2>10 DEF Next
  <2>12. QED
    BY <2>1, <2>11
<1>3. QED
  BY <1>1, <1>2, TypeCorrect, PTL DEF Spec

-----------------------------------------------------------------------------
(* The refinement of TokenRotation.  A rotation may only start from the    *)
(* stored pair: a request that knows the live pair knows it from the row,  *)
(* where it still is, unless the row has been deleted.                     *)
RotationInv ==
    /\ RefreshInv
    /\ row.exists => row.pair # 0
    /\ \A r \in Requests :
          row.exists /\ req[r].config.pair = issued => row.pair = issued

(* Nobody knows a pair that amoCRM has not issued.                         *)
LEMMA Bounds ==
    ASSUME RefreshInv
    PROVE  /\ issued \in Nat /\ row.pair \in Nat /\ row.pair <= issued
           /\ \A r \in Requests : /\ req[r].held \in {0, issued}
                                  /\ req[r].config.pair \in Nat
                                  /\ req[r].config.pair <= issued
BY Numbers DEF RefreshInv, PairBounds

(* What a quiet step is in the rotation: nothing.                          *)
LEMMA QuietRotation ==
    ASSUME RotationInv, RefreshInv', Quiet
    PROVE  RotationInv' /\ UNCHANGED Rotation!vars
<1>1. UNCHANGED <<row, issued, lost>>
  BY DEF Quiet
<1>2. UNCHANGED <<StoredPair, PendingPair>>
  BY <1>1 DEF Quiet, StoredPair, PendingPair
<1>3. ASSUME NEW r \in Requests, row.exists, req'[r].config.pair = issued
      PROVE  row.pair = issued
  <2>1. req'[r].config.pair \in {0, row.pair, req[r].config.pair}
    BY DEF Quiet
  <2>2. issued # 0
    BY <1>3, Bounds DEF RotationInv
  <2>3. QED
    BY <1>3, <2>1, <2>2 DEF RotationInv
<1>4. RotationInv'
  BY <1>1, <1>3 DEF RotationInv
<1>5. QED
  BY <1>1, <1>2, <1>4 DEF Rotation!vars

(* amoCRM's answer reaches the service: Rotate.                            *)
LEMMA AnsweredRotates ==
    ASSUME RotationInv, RefreshInv', NEW r \in Requests, RefreshAnswered(r)
    PROVE  RotationInv' /\ Rotation!Rotate
<1>0. /\ issued \in Nat /\ issued < MaxPairs /\ issued' = issued + 1
      /\ row' = row /\ lost' = lost
      /\ req[r].config.pair = issued
  BY Bounds DEF RotationInv, RefreshAnswered, Issue
<1>1. \A s \in Requests : req[s].held = 0
  BY <1>0, NobodyHolds DEF RotationInv
<1>2. /\ \A s \in Requests : req'[s].config = req[s].config
      /\ req'[r].held = issued + 1
  <2>1. req \in [Requests -> Request] /\ req[r] \in Request
    BY DEF RotationInv, RefreshInv, TypeOK
  <2>2. req' = [req EXCEPT ![r].pc = "refresh_save", ![r].held = issued + 1]
    BY DEF RefreshAnswered
  <2>3. QED
    BY <2>1, <2>2 DEF Request
<1>3. StoredPair \in {0, issued} /\ PendingPair = 0
  BY <1>0, <1>1 DEF RotationInv, StoredPair, PendingPair
<1>4. StoredPair' = StoredPair /\ PendingPair' = issued + 1
  <2>1. req'[r].held # 0
    BY <1>0, <1>2
  <2>2. QED
    BY <1>0, <2>1 DEF StoredPair, PendingPair
<1>5. RotationInv'
  <2>1. \A s \in Requests : req'[s].config.pair # issued'
    BY <1>0, <1>2, Bounds DEF RotationInv
  <2>2. QED
    BY <1>0, <2>1 DEF RotationInv
<1>6. QED
  BY <1>0, <1>3, <1>4, <1>5 DEF Rotation!Rotate

(* Nobody receives it: Waste.                                              *)
LEMMA AnswerLostWastes ==
    ASSUME RotationInv, RefreshInv', NEW r \in Requests, RefreshAnswerLost(r)
    PROVE  RotationInv' /\ Rotation!Waste
<1>0. /\ issued \in Nat /\ issued < MaxPairs /\ issued' = issued + 1
      /\ row' = row /\ lost' = lost \cup {issued + 1}
      /\ req[r].config.pair = issued
  BY Bounds DEF RotationInv, RefreshAnswerLost, Issue
<1>1. \A s \in Requests : req[s].held = 0
  BY <1>0, NobodyHolds DEF RotationInv
<1>2. /\ \A s \in Requests : s # r => req'[s] = req[s]
      /\ req'[r] = IdleRequest
  BY DEF RotationInv, RefreshInv, TypeOK, RefreshAnswerLost, Finish
<1>3. \A s \in Requests : /\ req'[s].held = 0
                          /\ req'[s].config.pair \in {0, req[s].config.pair}
  BY <1>1, <1>2 DEF IdleRequest, NoRow
<1>4. StoredPair \in {0, issued} /\ StoredPair' = StoredPair
  BY <1>0 DEF RotationInv, StoredPair
<1>5. PendingPair = 0 /\ PendingPair' = 0
  BY <1>1, <1>3 DEF PendingPair
<1>6. RotationInv'
  <2>1. \A s \in Requests : req'[s].config.pair # issued'
    BY <1>0, <1>3, Bounds DEF RotationInv
  <2>2. QED
    BY <1>0, <2>1 DEF RotationInv
<1>7. QED
  BY <1>0, <1>4, <1>5, <1>6 DEF Rotation!Waste

(* The pair is stored in the row it was read from, or that row is gone and *)
(* with it the pair: Commit or Lose.                                       *)
LEMMA SaveCommits ==
    ASSUME RotationInv, RefreshInv', NEW r \in Requests, RefreshSave(r)
    PROVE  RotationInv' /\ (Rotation!Commit \/ Rotation!Lose)
<1>0. /\ req \in [Requests -> Request] /\ req[r] \in Request
      /\ req[r].config \in Row /\ req[r].config.exists
      /\ req[r].held = issued /\ issued # 0 /\ issued \in Nat
      /\ issued' = issued
  BY Bounds, Numbers DEF RotationInv, RefreshInv, RefreshSave, At, Shape, TypeOK
<1>1. /\ \A s \in Requests : s # r => req'[s] = req[s]
      /\ req'[r].held = 0
      /\ req'[r].config.pair \in {0, req[r].config.pair}
  <2> DEFINE moved == [req[r] EXCEPT !.pc = "reload", !.held = 0]
  <2>1. moved.held = 0 /\ moved.config = req[r].config
    BY <1>0 DEF Request
  <2>2. req' = [req EXCEPT ![r] = moved] \/ req' = [req EXCEPT ![r] = IdleRequest]
    BY <1>0 DEF RefreshSave, Finish, Request
  <2> HIDE DEF moved
  <2>3. /\ \A s \in Requests : s # r => req'[s] = req[s]
        /\ req'[r] = moved \/ req'[r] = IdleRequest
    BY <1>0, <2>2
  <2>4. QED
    BY <2>1, <2>3 DEF IdleRequest, NoRow
<1>2. \A s \in Requests : s # r => req[s].held = 0
  BY <1>0 DEF RotationInv, RefreshInv, SoleHolder
<1>3. PendingPair = issued /\ PendingPair' = 0
  BY <1>0, <1>1, <1>2 DEF PendingPair
<1>4. CASE InTable(req[r].config)
  <2>1. row' = [req[r].config EXCEPT !.pair = issued] /\ lost' = lost
    BY <1>0, <1>4 DEF RefreshSave, UpdateRow, InTable
  <2>2. row'.exists /\ row'.pair = issued
    BY <1>0, <2>1 DEF Row
  <2>3. StoredPair # 0 /\ StoredPair' = issued
    BY <1>4, <2>2 DEF StoredPair, RotationInv, InTable
  <2>4. RotationInv'
    BY <1>0, <2>2 DEF RotationInv
  <2>5. Rotation!Commit
    BY <1>0, <1>3, <2>1, <2>3 DEF Rotation!Commit
  <2>6. QED
    BY <2>4, <2>5
<1>5. CASE ~InTable(req[r].config)
  <2>1. row' = row /\ lost' = lost \cup {issued}
    <3>1. lost' = lost \cup ({issued} \ {0})
      BY <1>0, <1>5 DEF RefreshSave, Losing
    <3>2. QED
      BY <1>0, <1>5, <3>1 DEF RefreshSave, UpdateRow, InTable
  <2>2. \A s \in Requests : req'[s].config.pair \in {0, req[s].config.pair}
    BY <1>1
  <2>3. RotationInv'
    BY <1>0, <2>1, <2>2 DEF RotationInv
  <2>4. Rotation!Lose
    BY <1>0, <1>3, <2>1 DEF Rotation!Lose, StoredPair
  <2>5. QED
    BY <2>3, <2>4
<1>6. QED
  BY <1>4, <1>5

(* The configuration is deleted, or was already: Remove.                   *)
LEMMA DeleteRemoves ==
    ASSUME RotationInv, RefreshInv', NEW r \in Requests, DeleteRow(r)
    PROVE  RotationInv' /\ (Rotation!Remove \/ UNCHANGED Rotation!vars)
<1>0. /\ issued \in Nat /\ issued' = issued /\ lost' = lost
      /\ req[r].held = 0
  BY Bounds DEF RotationInv, RefreshInv, DeleteRow, At, Shape
<1>1. /\ \A s \in Requests : s # r => req'[s] = req[s]
      /\ req'[r] = IdleRequest
  BY DEF RotationInv, RefreshInv, TypeOK, DeleteRow, Finish
<1>2. \A s \in Requests : /\ req'[s].held = req[s].held
                         /\ req'[s].config.pair \in {0, req[s].config.pair}
  BY <1>0, <1>1 DEF IdleRequest, NoRow
<1>3. PendingPair' = PendingPair
  BY <1>0, <1>2 DEF PendingPair
<1>4. row' = row \/ ~row'.exists
  BY DEF DeleteRow, NoRow
<1>5. RotationInv'
  <2>1. issued = 0 => ~row.exists
    BY Bounds DEF RotationInv
  <2>2. QED
    BY <1>0, <1>2, <1>4, <2>1 DEF RotationInv
<1>6. StoredPair' \in {0, StoredPair}
  BY <1>4 DEF StoredPair
<1>7. QED
  BY <1>0, <1>3, <1>5, <1>6 DEF Rotation!Remove, Rotation!vars

(* A failure of the database or a restart: Lose, if a pair is pending.     *)
LEMMA FailureLoses ==
    ASSUME RotationInv, RefreshInv',
           Restart \/ \E r \in Requests : DatabaseFails(r)
    PROVE  RotationInv' /\ (Rotation!Lose \/ UNCHANGED Rotation!vars)
<1>0. /\ issued \in Nat /\ issued' = issued /\ row' = row
      /\ req \in [Requests -> Request]
  BY Bounds DEF RotationInv, RefreshInv, TypeOK, Restart, DatabaseFails, GiveUp
<1>1. \A s \in Requests : req'[s] \in {IdleRequest, req[s]}
  BY <1>0 DEF Restart, DatabaseFails, GiveUp, Finish
<1>2. \A s \in Requests : req'[s].config.pair \in {0, req[s].config.pair}
  BY <1>1 DEF IdleRequest, NoRow
<1>3. RotationInv'
  <2>1. issued = 0 => ~row.exists
    BY Bounds DEF RotationInv
  <2>2. QED
    BY <1>0, <1>2, <2>1 DEF RotationInv
<1>4. StoredPair' = StoredPair
  BY <1>0 DEF StoredPair
<1>5. CASE \A s \in Requests : req'[s].held = req[s].held
  <2>1. PendingPair' = PendingPair
    BY <1>0, <1>5 DEF PendingPair
  <2>2. lost' = lost
    <3>1. CASE Restart
      <4>1. \A s \in Requests : req[s].held = 0
        BY <1>0, <1>5, <3>1 DEF Restart, IdleRequest
      <4>2. QED
        BY <3>1, <4>1 DEF Restart
    <3>2. ASSUME NEW r \in Requests, DatabaseFails(r) PROVE lost' = lost
      <4>1. req[r].held = 0
        BY <1>0, <1>5, <3>2 DEF DatabaseFails, GiveUp, Finish, IdleRequest
      <4>2. QED
        BY <3>2, <4>1 DEF DatabaseFails, GiveUp, Losing
    <3>3. QED
      BY <3>1, <3>2
  <2>3. QED
    BY <1>0, <1>3, <1>4, <2>1, <2>2 DEF Rotation!vars
<1>6. ASSUME NEW r \in Requests, req'[r].held # req[r].held
      PROVE  Rotation!Lose
  <2>1. req[r].held = issued /\ issued # 0 /\ req'[r].held = 0
    BY <1>1, <1>6, Bounds DEF RotationInv, IdleRequest
  <2>2. \A s \in Requests : s # r => req[s].held = 0
    BY <2>1 DEF RotationInv, RefreshInv, SoleHolder
  <2>3. \A s \in Requests : req'[s].held = 0
    BY <1>1, <2>1, <2>2 DEF IdleRequest
  <2>4. PendingPair = issued /\ PendingPair' = 0
    BY <2>1, <2>3 DEF PendingPair
  <2>5. lost' = lost \cup {issued}
    <3>1. CASE Restart
      <4>1. {req[s].held : s \in Requests} \ {0} = {issued}
        BY <2>1, <2>2
      <4>2. QED
        BY <3>1, <4>1 DEF Restart
    <3>2. ASSUME NEW q \in Requests, DatabaseFails(q)
          PROVE  lost' = lost \cup {issued}
      <4>1. q = r
        BY <1>0, <1>6, <3>2 DEF DatabaseFails, GiveUp, Finish
      <4>2. QED
        BY <2>1, <3>2, <4>1 DEF DatabaseFails, GiveUp, Losing
    <3>3. QED
      BY <3>1, <3>2
  <2>6. QED
    BY <1>0, <1>4, <2>1, <2>4, <2>5 DEF Rotation!Lose
<1>7. QED
  BY <1>3, <1>5, <1>6

(* Every step is a step of the rotation or none.                           *)
LEMMA NextRotates ==
    ASSUME Kinds \subseteq RefreshKinds, RotationInv, [Next]_vars
    PROVE  RotationInv' /\ [Rotation!Next]_Rotation!vars
<1>1. RefreshInv /\ RefreshInv' /\ TypeOK'
  BY NextChain DEF RotationInv, RefreshInv
<1>2. ASSUME Quiet PROVE RotationInv' /\ [Rotation!Next]_Rotation!vars
  BY <1>1, <1>2, QuietRotation
<1>3. ASSUME NEW r \in Requests, NEW kind \in Kinds, Start(r, kind)
      PROVE  Quiet
  BY <1>1, <1>3, QuietStart
<1>4. ASSUME Tick PROVE Quiet
  BY <1>1, <1>4, QuietTick
<1>5. ASSUME UNCHANGED vars PROVE Quiet
  BY <1>5 DEF vars, Quiet
<1>6. ASSUME NEW r \in Requests, Step(r)
      PROVE  RotationInv' /\ [Rotation!Next]_Rotation!vars
  <2>1. Shape(r)
    BY <1>1 DEF RefreshInv
  <2>2. CASE RefreshAnswered(r)
    BY <1>1, <2>2, AnsweredRotates DEF Rotation!Next
  <2>3. CASE RefreshAnswerLost(r)
    BY <1>1, <2>3, AnswerLostWastes DEF Rotation!Next
  <2>4. CASE RefreshSave(r)
    BY <1>1, <2>4, SaveCommits DEF Rotation!Next
  <2>5. CASE DeleteRow(r)
    BY <1>1, <2>5, DeleteRemoves DEF Rotation!Next
  <2>6. /\ ~ExchangeCode(r) /\ ~WriteSettings(r) /\ ~WriteActive(r)
        /\ ~WriteSave(r) /\ ~WriteCallback(r)
    BY <2>1 DEF Shape, ExchangeCode, WriteSettings, WriteActive, WriteSave,
       WriteCallback, At
  <2>7. CASE \/ Load(r) \/ EnsureValidToken(r) \/ RefreshLoad(r)
             \/ RefreshRefused(r) \/ Reload(r) \/ GetOrCreateProvider(r)
             \/ Call(r) \/ Invalidate(r)
    BY <1>1, <1>2, <2>7, QuietActions
  <2>8. QED
    BY <1>6, <2>2, <2>3, <2>4, <2>5, <2>6, <2>7 DEF Step
<1>7. ASSUME Restart \/ \E r \in Requests : DatabaseFails(r)
      PROVE  RotationInv' /\ [Rotation!Next]_Rotation!vars
  BY <1>1, <1>7, FailureLoses DEF Rotation!Next
<1>8. QED
  BY <1>2, <1>3, <1>4, <1>5, <1>6, <1>7 DEF Next

(* The refreshes of any number of concurrent requests are one rotation of  *)
(* one pair (ensureValidToken, RefreshAmoCRMToken, UpdateCRMConfig,        *)
(* DeleteCRMConfigByType).                                                 *)
THEOREM RotationRefined ==
    ASSUME Kinds \subseteq RefreshKinds
    PROVE  Spec => RotationSpec
<1>1. Init => RotationInv /\ Rotation!Init
  <2> SUFFICES ASSUME Init PROVE RotationInv /\ Rotation!Init
    OBVIOUS
  <2>1. RefreshInv
    BY InitRefresh
  <2>2. row.exists => row.pair = 1
    BY DEF Init, NoRow
  <2>3. ~row.exists => row.pair = 0
    BY DEF Init, NoRow
  <2>4. \A r \in Requests : req[r].held = 0
    BY DEF Init, IdleRequest
  <2>5. RotationInv
    BY <2>1, <2>2 DEF RotationInv, Init
  <2>6. Rotation!Init
    BY <2>2, <2>3, <2>4 DEF Rotation!Init, StoredPair, PendingPair, Init
  <2>7. QED
    BY <2>5, <2>6
<1>2. RotationInv /\ [Next]_vars => RotationInv' /\ [Rotation!Next]_Rotation!vars
  BY NextRotates
<1>3. QED
  BY <1>1, <1>2, PTL DEF Spec, RotationSpec, Rotation!Spec

-----------------------------------------------------------------------------
(* Requests one after the other, none of them a refresh by hand, and no    *)
(* write whose confirmation is lost.                                       *)
InTurn == \A r, s \in Requests : r = s

OneByOne ==
    /\ InTurn
    /\ "refresh" \notin Kinds
    /\ "ambiguous_commit" \notin Faults

Coherent ==
    \/ cached = NoProvider
    \/ row.exists /\ cached = NewProvider(row)

(* The pair does not expire while the request may still last.              *)
InTime(r, pair) ==
    /\ pair # 0
    /\ MaxDuration <= RefreshThreshold =>
          clock + MaxDuration < expiry[pair] + req[r].age

(* A request knows the row as it stands; the provider has been removed     *)
(* when the row is about to change, except by settings, which remove it in *)
(* their last step.                                                        *)
Sequential(r) ==
    /\ req[r].age <= MaxDuration
    /\ req[r].kind # "refresh"
    /\ req[r].pc \in {"check", "refresh_load", "refresh_post", "refresh_save",
                      "provider"}
       => row.exists /\ req[r].config = row
    /\ req[r].pc \in {"refresh_load", "refresh_post", "refresh_save"}
       => cached = NoProvider
    /\ req[r].pc = "write" /\ req[r].kind # "settings" => cached = NoProvider
    /\ req[r].pc = "refresh_save" => InTime(r, req[r].held)
    /\ req[r].pc \in {"reload", "provider"} => InTime(r, row.pair)
    /\ req[r].pc = "call" => InTime(r, req[r].client.pair)

Settled(r) == req[r].pc = "invalidate" /\ req[r].kind = "settings"

SequentialInv ==
    /\ TypeOK
    /\ \A r \in Requests : Sequential(r)
    /\ Coherent \/ \E r \in Requests : Settled(r)

(* The types of what the steps below use.                                  *)
LEMMA Figures ==
    ASSUME TypeOK
    PROVE  /\ clock \in Nat /\ expiry \in [1 .. MaxPairs -> Nat]
           /\ req \in [Requests -> Request]
           /\ \A r \in Requests : /\ req[r] \in Request
                                  /\ req[r].age \in Nat
                                  /\ req[r].held \in 0 .. MaxPairs
                                  /\ req[r].config \in Row
                                  /\ req[r].config.pair \in 0 .. MaxPairs
                                  /\ req[r].client.pair \in 0 .. MaxPairs
           /\ row \in Row /\ row.pair \in 0 .. MaxPairs
           /\ issued \in Nat
           /\ MaxDuration \in Nat /\ RefreshThreshold \in Nat
           /\ WarningThreshold \in Nat /\ RefreshThreshold < WarningThreshold
           /\ TokenTTL \in Nat /\ WarningThreshold < TokenTTL
<1>1. \A r \in Requests : req[r] \in Request
  BY DEF TypeOK
<1>2. \A r \in Requests : /\ req[r].age \in Nat
                          /\ req[r].held \in 0 .. MaxPairs
                          /\ req[r].config \in Row
                          /\ req[r].client \in Provider
  BY <1>1 DEF Request, Pairs
<1>3. \A r \in Requests : /\ req[r].config.pair \in 0 .. MaxPairs
                          /\ req[r].client.pair \in 0 .. MaxPairs
  BY <1>2 DEF Row, Provider, Pairs
<1>4. row \in Row /\ row.pair \in 0 .. MaxPairs
  BY DEF TypeOK, Row, Pairs
<1>5. QED
  BY <1>1, <1>2, <1>3, <1>4, ConstantsAssumption DEF TypeOK, Pairs

(* A request ends while the provider is in order.                          *)
LEMMA SequentialFinish ==
    ASSUME SequentialInv, TypeOK', OneByOne, NEW r \in Requests,
           Finish(r), Coherent'
    PROVE  SequentialInv'
<1>1. \A s \in Requests : req'[s] = IdleRequest
  BY Figures DEF SequentialInv, OneByOne, InTurn, Finish
<1>2. \A s \in Requests : Sequential(s)'
  BY <1>1, ConstantsAssumption DEF Sequential, IdleRequest
<1>3. QED
  BY <1>2 DEF SequentialInv

(* The only request goes on.                                               *)
LEMMA SequentialStep ==
    ASSUME SequentialInv, TypeOK', OneByOne, NEW r \in Requests,
           Sequential(r)', Coherent' \/ Settled(r)'
    PROVE  SequentialInv'
<1>1. \A s \in Requests : s = r
  BY DEF OneByOne, InTurn
<1>2. QED
  BY <1>1 DEF SequentialInv

(* While no settings are about to remove the provider it is in order.      *)
LEMMA SequentialCoherent ==
    ASSUME SequentialInv, OneByOne, NEW r \in Requests, ~Settled(r)
    PROVE  Coherent
<1>1. \A s \in Requests : s = r
  BY DEF OneByOne, InTurn
<1>2. QED
  BY <1>1 DEF SequentialInv

LEMMA SequentialRefresh ==
    ASSUME SequentialInv, TypeOK', OneByOne, NEW r \in Requests,
           \/ EnsureValidToken(r)
           \/ RefreshLoad(r)
           \/ RefreshAnswered(r)
           \/ RefreshAnswerLost(r)
           \/ RefreshRefused(r)
           \/ RefreshSave(r)
    PROVE  SequentialInv'
<1>0. TypeOK /\ Sequential(r) /\ req[r] \in Request /\ req \in [Requests -> Request]
  BY Figures DEF SequentialInv
<1>1. Coherent
  <2>1. ~Settled(r)
    BY DEF Settled, At, EnsureValidToken, RefreshLoad, RefreshAnswered,
       RefreshAnswerLost, RefreshRefused, RefreshSave
  <2>2. QED
    BY <2>1, SequentialCoherent
<1>2. CASE EnsureValidToken(r)
  <2>1. req[r].pc = "check" /\ row.exists /\ req[r].config = row
    BY <1>0, <1>2 DEF EnsureValidToken, At, Sequential
  <2>2. CASE Finish(r) /\ cached' = cached
    <3>1. Coherent'
      BY <1>1, <1>2, <2>2 DEF EnsureValidToken, Coherent, NewProvider
    <3>2. QED
      BY <2>2, <3>1, SequentialFinish
  <2>3. CASE row.pair # 0 /\ Within(RefreshThreshold, row.pair)
    <3>1. Within(WarningThreshold, row.pair)
      BY <1>0, <2>3, Figures DEF Within
    <3>2. cached' = NoProvider /\ Continue(r, "refresh_load") /\ row' = row
      BY <1>2, <2>1, <2>3, <3>1 DEF EnsureValidToken
    <3>3. /\ req'[r].pc = "refresh_load" /\ req'[r].age = req[r].age
          /\ req'[r].kind = req[r].kind /\ req'[r].config = req[r].config
      BY <1>0, <3>2 DEF Continue, Request
    <3>4. Sequential(r)'
      BY <1>0, <2>1, <3>2, <3>3 DEF Sequential
    <3>5. QED
      BY <3>2, <3>4, SequentialStep DEF Coherent
  <2>4. CASE row.pair # 0 /\ ~Within(RefreshThreshold, row.pair)
    <3>1. /\ Continue(r, "reload") /\ row' = row /\ clock' = clock
          /\ expiry' = expiry /\ cached' \in {NoProvider, cached}
      BY <1>2, <2>1, <2>4 DEF EnsureValidToken
    <3>2. /\ req'[r].pc = "reload" /\ req'[r].age = req[r].age
          /\ req'[r].kind = req[r].kind
      BY <1>0, <3>1 DEF Continue, Request
    <3>3. InTime(r, row.pair)'
      <4>1. clock + RefreshThreshold < expiry[row.pair]
        BY <1>0, <2>4, Figures DEF Within
      <4>2. QED
        BY <1>0, <2>4, <3>1, <3>2, <4>1, Figures DEF InTime
    <3>4. Sequential(r)'
      BY <1>0, <3>1, <3>2, <3>3 DEF Sequential
    <3>5. Coherent'
      BY <1>1, <3>1 DEF Coherent, NewProvider
    <3>6. QED
      BY <3>4, <3>5, SequentialStep
  <2>5. QED
    BY <1>2, <2>1, <2>2, <2>3, <2>4 DEF EnsureValidToken
<1>3. CASE RefreshLoad(r)
  <2>1. /\ req[r].pc = "refresh_load" /\ row.exists /\ cached = NoProvider
        /\ row' = row /\ cached' = NoProvider
    BY <1>0, <1>3 DEF RefreshLoad, At, Sequential
  <2>2. CASE Finish(r)
    BY <2>1, <2>2, SequentialFinish DEF Coherent
  <2>3. CASE req' = [req EXCEPT ![r].pc = "refresh_post", ![r].config = row]
    <3>1. /\ req'[r].pc = "refresh_post" /\ req'[r].age = req[r].age
          /\ req'[r].kind = req[r].kind /\ req'[r].config = row
      BY <1>0, <2>3 DEF Request
    <3>2. Sequential(r)'
      BY <1>0, <2>1, <3>1 DEF Sequential
    <3>3. QED
      BY <2>1, <3>2, SequentialStep DEF Coherent
  <2>4. QED
    BY <1>3, <2>2, <2>3 DEF RefreshLoad
<1>4. CASE RefreshAnswered(r)
  <2>1. /\ req[r].pc = "refresh_post" /\ row.exists /\ cached = NoProvider
        /\ req[r].config = row /\ row' = row /\ cached' = NoProvider
        /\ clock' = clock
    BY <1>0, <1>4 DEF RefreshAnswered, At, Sequential
  <2>2. /\ req'[r].pc = "refresh_save" /\ req'[r].age = req[r].age
        /\ req'[r].kind = req[r].kind /\ req'[r].config = req[r].config
        /\ req'[r].held = issued + 1
    BY <1>0, <1>4 DEF RefreshAnswered, Request
  <2>3. issued + 1 \in 1 .. MaxPairs /\ expiry'[issued + 1] = clock + TokenTTL
    BY <1>0, <1>4, Figures, ConstantsAssumption DEF RefreshAnswered, Issue
  <2>4. InTime(r, req[r].held)'
    BY <1>0, <2>1, <2>2, <2>3, Figures DEF InTime
  <2>5. Sequential(r)'
    BY <1>0, <2>1, <2>2, <2>4 DEF Sequential
  <2>6. QED
    BY <2>1, <2>5, SequentialStep DEF Coherent
<1>5. CASE RefreshAnswerLost(r)
  BY <1>0, <1>5, SequentialFinish DEF RefreshAnswerLost, At, Sequential, Coherent
<1>6. CASE RefreshRefused(r)
  BY <1>0, <1>6, SequentialFinish DEF RefreshRefused, At, Sequential, Coherent
<1>7. CASE RefreshSave(r)
  <2>1. /\ req[r].pc = "refresh_save" /\ row.exists
        /\ req[r].config = row /\ cached' = NoProvider
        /\ clock' = clock /\ expiry' = expiry
        /\ InTime(r, req[r].held)
    BY <1>0, <1>7 DEF RefreshSave, At, Sequential
  <2>2. CASE Finish(r)
    BY <2>1, <2>2, SequentialFinish DEF Coherent
  <2>3. CASE req' = [req EXCEPT ![r].pc = "reload", ![r].held = 0]
    <3>1. /\ req'[r].pc = "reload" /\ req'[r].age = req[r].age
          /\ req'[r].kind = req[r].kind
      BY <1>0, <2>3 DEF Request
    <3>2. row' = [row EXCEPT !.pair = req[r].held]
      <4>1. row' = [req[r].config EXCEPT !.pair = req[r].held]
        BY <1>0, <1>7, <2>1, Figures DEF RefreshSave, UpdateRow, InTable, Row
      <4>2. QED
        BY <2>1, <4>1
    <3>3. row'.pair = req[r].held
      BY <1>0, <3>2, Figures DEF Row
    <3>4. InTime(r, row.pair)'
      BY <2>1, <3>1, <3>3 DEF InTime
    <3>5. Sequential(r)'
      BY <1>0, <3>1, <3>4 DEF Sequential
    <3>6. QED
      BY <2>1, <3>5, SequentialStep DEF Coherent
  <2>4. QED
    BY <1>7, <2>2, <2>3 DEF RefreshSave
<1>8. QED
  BY <1>2, <1>3, <1>4, <1>5, <1>6, <1>7

LEMMA SequentialOperation ==
    ASSUME SequentialInv, TypeOK', OneByOne, NEW r \in Requests,
           \/ Load(r)
           \/ Reload(r)
           \/ GetOrCreateProvider(r)
           \/ Call(r)
           \/ ExchangeCode(r)
    PROVE  SequentialInv'
<1>0. TypeOK /\ Sequential(r) /\ req[r] \in Request /\ req \in [Requests -> Request]
  BY Figures DEF SequentialInv
<1>1. Coherent
  <2>1. ~Settled(r)
    BY DEF Settled, At, Load, Reload, GetOrCreateProvider, Call, ExchangeCode
  <2>2. QED
    BY <2>1, SequentialCoherent
<1>2. CASE Load(r)
  <2>1. row' = row /\ cached' = cached /\ Coherent'
    BY <1>1, <1>2 DEF Load, Coherent, NewProvider
  <2>2. CASE GiveUp(r)
    BY <2>1, <2>2, SequentialFinish DEF GiveUp
  <2>3. CASE /\ row.exists
             /\ req' = [req EXCEPT ![r].pc = StepAfterLoad(req[r].kind),
                                   ![r].config = ReadFor(req[r].kind)]
    <3>1. /\ req'[r].pc = StepAfterLoad(req[r].kind)
          /\ req'[r].age = req[r].age
          /\ req'[r].kind = req[r].kind
          /\ req'[r].config = ReadFor(req[r].kind)
      BY <1>0, <2>3 DEF Request
    <3>2. /\ req'[r].pc \in {"check", "write", "invalidate"}
          /\ req'[r].pc = "check" => req[r].kind = "operation"
          /\ req'[r].pc = "write" => req[r].kind = "settings"
      BY <1>0, <3>1 DEF StepAfterLoad, Sequential
    <3>3. req'[r].pc = "check" => req'[r].config = row
      BY <3>1, <3>2 DEF ReadFor
    <3>4. Sequential(r)'
      BY <1>0, <2>1, <2>3, <3>1, <3>2, <3>3 DEF Sequential
    <3>5. QED
      BY <2>1, <3>4, SequentialStep
  <2>4. QED
    BY <1>2, <2>2, <2>3 DEF Load
<1>3. CASE Reload(r)
  <2>1. /\ row' = row /\ cached' = cached /\ clock' = clock /\ expiry' = expiry
        /\ Coherent' /\ InTime(r, row.pair)
    BY <1>0, <1>1, <1>3 DEF Reload, Coherent, NewProvider, Sequential, At
  <2>2. CASE Finish(r)
    BY <2>1, <2>2, SequentialFinish
  <2>3. CASE /\ row.exists
             /\ req' = [req EXCEPT ![r].pc = "provider", ![r].config = row]
    <3>1. /\ req'[r].pc = "provider" /\ req'[r].age = req[r].age
          /\ req'[r].kind = req[r].kind /\ req'[r].config = row
      BY <1>0, <2>3 DEF Request
    <3>2. InTime(r, row.pair)'
      BY <2>1, <3>1 DEF InTime
    <3>3. Sequential(r)'
      BY <1>0, <2>1, <2>3, <3>1, <3>2 DEF Sequential
    <3>4. QED
      BY <2>1, <3>3, SequentialStep
  <2>4. QED
    BY <1>3, <2>2, <2>3 DEF Reload
<1>4. CASE GetOrCreateProvider(r)
  <2>1. /\ row' = row /\ clock' = clock /\ expiry' = expiry
        /\ row.exists /\ req[r].config = row /\ InTime(r, row.pair)
    BY <1>0, <1>4 DEF GetOrCreateProvider, Sequential, At
  <2>2. CASE cached' = cached /\ Finish(r)
    <3>1. Coherent'
      BY <1>1, <2>1, <2>2 DEF Coherent, NewProvider
    <3>2. QED
      BY <2>2, <3>1, SequentialFinish
  <2>3. ASSUME cached' = NewProvider(row),
               req' = [req EXCEPT ![r].pc = "call", ![r].client = cached']
        PROVE  SequentialInv'
    <3>1. /\ req'[r].pc = "call" /\ req'[r].age = req[r].age
          /\ req'[r].kind = req[r].kind
          /\ req'[r].client = NewProvider(row)
      BY <1>0, <2>3 DEF Request
    <3>2. InTime(r, req[r].client.pair)'
      BY <2>1, <3>1 DEF InTime, NewProvider
    <3>3. Sequential(r)'
      BY <1>0, <3>1, <3>2 DEF Sequential
    <3>4. Coherent'
      BY <2>1, <2>3 DEF Coherent, NewProvider
    <3>5. QED
      BY <3>3, <3>4, SequentialStep
  <2>4. CASE /\ cached # NoProvider /\ cached' = cached
             /\ req' = [req EXCEPT ![r].pc = "call", ![r].client = cached]
    BY <1>1, <2>3, <2>4 DEF Coherent
  <2>5. CASE /\ req' = [req EXCEPT ![r].pc = "call",
                                  ![r].client = NewProvider(req[r].config)]
             /\ cached' = NewProvider(req[r].config)
    BY <2>1, <2>3, <2>5
  <2>6. QED
    BY <1>4, <2>2, <2>4, <2>5 DEF GetOrCreateProvider
<1>5. CASE Call(r)
  <2>1. Coherent' /\ Finish(r)
    BY <1>1, <1>5 DEF Call, Coherent, NewProvider
  <2>2. QED
    BY <2>1, SequentialFinish
<1>6. CASE ExchangeCode(r)
  <2>1. Coherent'
    BY <1>1, <1>6 DEF ExchangeCode, Coherent, NewProvider
  <2>2. CASE Finish(r)
    BY <2>1, <2>2, SequentialFinish
  <2>3. CASE req' = [req EXCEPT ![r].pc = "load", ![r].held = issued + 1]
    <3>1. /\ req'[r].pc = "load" /\ req'[r].age = req[r].age
          /\ req'[r].kind = req[r].kind
      BY <1>0, <2>3 DEF Request
    <3>2. Sequential(r)'
      BY <1>0, <3>1 DEF Sequential
    <3>3. QED
      BY <2>1, <3>2, SequentialStep
  <2>4. QED
    BY <1>6, <2>2, <2>3 DEF ExchangeCode
<1>7. QED
  BY <1>2, <1>3, <1>4, <1>5, <1>6

LEMMA SequentialWrite ==
    ASSUME SequentialInv, TypeOK', OneByOne, NEW r \in Requests,
           \/ Invalidate(r)
           \/ WriteSettings(r)
           \/ WriteActive(r)
           \/ WriteSave(r)
           \/ WriteCallback(r)
           \/ DeleteRow(r)
    PROVE  SequentialInv'
<1>0. TypeOK /\ Sequential(r) /\ req[r] \in Request /\ req \in [Requests -> Request]
  BY Figures DEF SequentialInv
<1>1. CASE Invalidate(r)
  <2>1. Coherent' /\ cached' = NoProvider
    BY <1>1 DEF Invalidate, Coherent
  <2>2. CASE Finish(r)
    BY <2>1, <2>2, SequentialFinish
  <2>3. CASE Continue(r, "write")
    <3>1. /\ req'[r].pc = "write" /\ req'[r].age = req[r].age
          /\ req'[r].kind = req[r].kind
      BY <1>0, <2>3 DEF Continue, Request
    <3>2. Sequential(r)'
      BY <1>0, <2>1, <3>1 DEF Sequential
    <3>3. QED
      BY <2>1, <3>2, SequentialStep
  <2>4. QED
    BY <1>1, <2>2, <2>3 DEF Invalidate
<1>2. CASE WriteSettings(r)
  <2>1. Continue(r, "invalidate")
    BY <1>2 DEF WriteSettings, Confirmations, OneByOne
  <2>2. /\ req'[r].pc = "invalidate" /\ req'[r].age = req[r].age
        /\ req'[r].kind = "settings"
    BY <1>0, <1>2, <2>1 DEF WriteSettings, Continue, Request
  <2>3. Sequential(r)' /\ Settled(r)'
    BY <1>0, <2>2 DEF Sequential, Settled
  <2>4. QED
    BY <2>3, SequentialStep
<1>3. CASE WriteActive(r) \/ WriteSave(r) \/ WriteCallback(r) \/ DeleteRow(r)
  <2>1. /\ req[r].pc = "write" /\ req[r].kind # "settings"
        /\ cached' = cached /\ Finish(r)
    BY <1>3 DEF WriteActive, WriteSave, WriteCallback, DeleteRow, At
  <2>2. Coherent'
    BY <1>0, <2>1 DEF Sequential, Coherent
  <2>3. QED
    BY <2>1, <2>2, SequentialFinish
<1>4. QED
  BY <1>1, <1>2, <1>3

LEMMA SequentialStart ==
    ASSUME SequentialInv, TypeOK', OneByOne, NEW r \in Requests,
           NEW kind \in Kinds, Start(r, kind)
    PROVE  SequentialInv'
<1>0. TypeOK /\ Sequential(r) /\ req[r] \in Request /\ req \in [Requests -> Request]
  BY Figures DEF SequentialInv
<1>1. Coherent
  <2>1. ~Settled(r)
    BY DEF Settled, At, Start
  <2>2. QED
    BY <2>1, SequentialCoherent
<1>2. Coherent'
  BY <1>1 DEF Start, Coherent, NewProvider
<1>3. /\ req'[r].pc = FirstStep(kind) /\ req'[r].age = req[r].age
      /\ req'[r].kind = kind
  BY <1>0 DEF Start, Request
<1>4. FirstStep(kind) \in {"exchange", "invalidate", "load"}
  BY DEF FirstStep
<1>5. kind # "refresh"
  BY DEF OneByOne
<1>6. Sequential(r)'
  BY <1>0, <1>3, <1>4, <1>5 DEF Sequential
<1>7. QED
  BY <1>2, <1>6, SequentialStep

LEMMA SequentialFailure ==
    ASSUME SequentialInv, TypeOK', OneByOne,
           Restart \/ \E r \in Requests : DatabaseFails(r)
    PROVE  SequentialInv'
<1>1. CASE Restart
  <2>1. cached' = NoProvider /\ \A s \in Requests : req'[s] = IdleRequest
    BY <1>1 DEF Restart
  <2>2. \A s \in Requests : Sequential(s)'
    BY <2>1, ConstantsAssumption DEF Sequential, IdleRequest
  <2>3. QED
    BY <2>1, <2>2 DEF SequentialInv, Coherent
<1>2. ASSUME NEW r \in Requests, DatabaseFails(r) PROVE SequentialInv'
  <2>1. Finish(r) /\ row' = row /\ cached' = cached
    BY <1>2 DEF DatabaseFails, GiveUp
  <2>2. ~Settled(r)
    BY <1>2 DEF Settled, DatabaseFails, DatabaseSteps
  <2>3. Coherent'
    BY <2>1, <2>2, SequentialCoherent DEF Coherent, NewProvider
  <2>4. QED
    BY <1>2, <2>1, <2>3, SequentialFinish
<1>3. QED
  BY <1>1, <1>2

LEMMA SequentialTick ==
    ASSUME SequentialInv, TypeOK', Tick
    PROVE  SequentialInv'
<1>0. /\ row' = row /\ cached' = cached /\ expiry' = expiry
      /\ clock' = clock + 1
  BY DEF Tick
<1>1. ASSUME NEW s \in Requests
      PROVE  /\ Sequential(s)'
             /\ req'[s].pc = req[s].pc /\ req'[s].kind = req[s].kind
  <2> DEFINE later == [req[s] EXCEPT !.age = @ + 1]
  <2>1. TypeOK /\ Sequential(s) /\ req[s] \in Request
    BY Figures DEF SequentialInv
  <2>2. /\ later.pc = req[s].pc /\ later.kind = req[s].kind
        /\ later.held = req[s].held /\ later.config = req[s].config
        /\ later.client = req[s].client /\ later.age = req[s].age + 1
    BY <2>1 DEF Request
  <2>3. req'[s] = IF At(s, "idle") THEN req[s] ELSE later
    BY DEF Tick
  <2> HIDE DEF later
  <2>4. CASE At(s, "idle")
    BY <2>1, <2>3, <2>4 DEF At, Sequential
  <2>5. CASE ~At(s, "idle")
    <3>1. req[s].age < MaxDuration
      BY <2>5 DEF Tick
    <3>2. /\ req'[s].pc = req[s].pc /\ req'[s].kind = req[s].kind
          /\ req'[s].held = req[s].held /\ req'[s].config = req[s].config
          /\ req'[s].client = req[s].client /\ req'[s].age = req[s].age + 1
      BY <2>2, <2>3, <2>5
    <3>3. req'[s].age <= MaxDuration
      BY <2>1, <3>1, <3>2, Figures
    <3>4. ASSUME NEW p \in 0 .. MaxPairs, InTime(s, p)
          PROVE  p # 0 /\ (MaxDuration <= RefreshThreshold =>
                    clock' + MaxDuration < expiry'[p] + req'[s].age)
      <4>1. p # 0 /\ expiry[p] \in Nat
        BY <2>1, <3>4, Figures DEF InTime
      <4>2. QED
        BY <1>0, <2>1, <3>2, <3>4, <4>1, Figures DEF InTime
    <3>5. req[s].pc = "refresh_save" => InTime(s, req[s].held)'
      <4>1. req[s].pc = "refresh_save" => InTime(s, req[s].held)
        BY <2>1 DEF Sequential
      <4>2. req[s].held \in 0 .. MaxPairs
        BY <2>1, Figures
      <4>3. QED
        BY <3>2, <3>4, <4>1, <4>2 DEF InTime
    <3>6. req[s].pc \in {"reload", "provider"} => InTime(s, row.pair)'
      <4>1. req[s].pc \in {"reload", "provider"} => InTime(s, row.pair)
        BY <2>1 DEF Sequential
      <4>2. row.pair \in 0 .. MaxPairs
        BY <2>1, Figures
      <4>3. QED
        BY <1>0, <3>4, <4>1, <4>2 DEF InTime
    <3>7. req[s].pc = "call" => InTime(s, req[s].client.pair)'
      <4>1. req[s].pc = "call" => InTime(s, req[s].client.pair)
        BY <2>1 DEF Sequential
      <4>2. req[s].client.pair \in 0 .. MaxPairs
        BY <2>1, Figures
      <4>3. QED
        BY <3>2, <3>4, <4>1, <4>2 DEF InTime
    <3>8. QED
      BY <1>0, <2>1, <3>2, <3>3, <3>5, <3>6, <3>7 DEF Sequential
  <2>6. QED
    BY <2>2, <2>3, <2>4, <2>5
<1>2. (Coherent \/ \E r \in Requests : Settled(r))'
  BY <1>0, <1>1 DEF SequentialInv, Coherent, NewProvider, Settled
<1>3. QED
  BY <1>1, <1>2 DEF SequentialInv

LEMMA SequentialHolds ==
    ASSUME OneByOne
    PROVE  Spec => []SequentialInv
<1>1. Init => SequentialInv
  <2> SUFFICES ASSUME Init PROVE SequentialInv
    OBVIOUS
  <2>1. \A r \in Requests : req[r] = IdleRequest
    BY DEF Init
  <2>2. ASSUME NEW r \in Requests PROVE Sequential(r)
    <3>1. /\ req[r].pc = "idle" /\ req[r].kind = "none" /\ req[r].age = 0
          /\ 0 <= MaxDuration
      BY <2>1, ConstantsAssumption DEF IdleRequest
    <3>2. QED
      BY <3>1 DEF Sequential
  <2>3. QED
    BY <2>2, InitType DEF SequentialInv, Coherent, Init
<1>2. SequentialInv /\ [Next]_vars => SequentialInv'
  <2> SUFFICES ASSUME SequentialInv, [Next]_vars PROVE SequentialInv'
    OBVIOUS
  <2>1. TypeOK'
    BY NextType DEF SequentialInv
  <2>2. CASE UNCHANGED vars
    BY <2>1, <2>2 DEF vars, SequentialInv, Sequential, InTime, Coherent,
       NewProvider, Settled
  <2>3. ASSUME NEW r \in Requests, NEW kind \in Kinds, Start(r, kind)
        PROVE  SequentialInv'
    BY <2>1, <2>3, SequentialStart
  <2>4. ASSUME NEW r \in Requests, Step(r) PROVE SequentialInv'
    BY <2>1, <2>4, SequentialRefresh, SequentialOperation, SequentialWrite
    DEF Step
  <2>5. CASE Restart \/ \E r \in Requests : DatabaseFails(r)
    BY <2>1, <2>5, SequentialFailure
  <2>6. CASE Tick
    BY <2>1, <2>6, SequentialTick
  <2>7. QED
    BY <2>2, <2>3, <2>4, <2>5, <2>6 DEF Next
<1>3. QED
  BY <1>1, <1>2, PTL DEF Spec

(* When requests come one after the other, of every kind but the refresh   *)
(* by hand, the registry never serves a provider of an older row, whatever *)
(* else fails (Registry.RemoveProvider and its callers).                   *)
THEOREM CacheStaysCoherent ==
    ASSUME OneByOne
    PROVE  Spec => []CacheCoherent
<1>1. SequentialInv => CacheCoherent
  BY DEF SequentialInv, CacheCoherent, Coherent, Settled
<1>2. QED
  BY <1>1, SequentialHolds, PTL

(* And no operation is sent with an expired token, if a request takes no   *)
(* longer than the refresh threshold (ensureValidToken).                   *)
THEOREM CallsInTime ==
    ASSUME OneByOne, MaxDuration <= RefreshThreshold
    PROVE  Spec => []NoExpiredCall
<1>1. SequentialInv => NoExpiredCall
  <2> SUFFICES ASSUME SequentialInv, NEW r \in Requests, At(r, "call")
               PROVE  clock < expiry[req[r].client.pair]
    BY DEF NoExpiredCall
  <2>1. TypeOK /\ Sequential(r)
    BY DEF SequentialInv
  <2>2. InTime(r, req[r].client.pair) /\ req[r].age <= MaxDuration
    BY <2>1 DEF Sequential, At
  <2>3. req[r].client.pair \in 1 .. MaxPairs
    BY <2>1, <2>2, Figures, ConstantsAssumption DEF InTime
  <2>4. QED
    BY <2>1, <2>2, <2>3, Figures DEF InTime
<1>2. QED
  BY <1>1, SequentialHolds, PTL

-----------------------------------------------------------------------------
(* The client_secret.  Only the two handlers that read the row through     *)
(* sanitizeCredentials and write it back can erase it.                     *)
SanitizingKinds == {"active", "callback"}

(* What a request is about to write has a client_secret.                   *)
WritesSecret(r) ==
    /\ req[r].kind \notin SanitizingKinds
    /\ req[r].pc \in {"refresh_post", "refresh_save"} => req[r].config.secret
    /\ req[r].pc = "write" /\ req[r].kind = "settings" => req[r].config.secret

SecretInv ==
    /\ TypeOK
    /\ row.exists => row.secret
    /\ \A r \in Requests : WritesSecret(r)

(* The step of a request to another place, with what it knows there.       *)
LEMMA MovesOn ==
    ASSUME TypeOK, NEW r \in Requests, Step(r), ~Finish(r)
    PROVE  /\ req'[r].kind = req[r].kind
           /\ req'[r].pc \in {"refresh_post", "write"} =>
                 \/ req'[r].config = row /\ row.exists
                    /\ (req'[r].pc = "refresh_post" => row.secret)
                    /\ (req'[r].pc = "write" => req[r].kind = "settings")
                 \/ req'[r].pc = "write" /\ req[r].kind # "settings"
                    /\ req'[r].config = req[r].config
           /\ req'[r].pc = "refresh_save" =>
                 /\ req[r].pc = "refresh_post"
                 /\ req'[r].config = req[r].config
<1>0. req \in [Requests -> Request] /\ req[r] \in Request
  BY DEF TypeOK
<1>1. CASE Load(r)
  <2>1. /\ row.exists
        /\ req'[r].pc = StepAfterLoad(req[r].kind)
        /\ req'[r].kind = req[r].kind
        /\ req'[r].config = ReadFor(req[r].kind)
    BY <1>0, <1>1 DEF Load, GiveUp, Request
  <2>2. CASE req[r].kind = "settings"
    BY <2>1, <2>2 DEF StepAfterLoad, ReadFor
  <2>3. CASE req[r].kind # "settings"
    <3>1. StepAfterLoad(req[r].kind) \in {"check", "refresh_load", "invalidate"}
      BY <2>3 DEF StepAfterLoad
    <3>2. QED
      BY <2>1, <3>1
  <2>4. QED
    BY <2>2, <2>3
<1>2. CASE EnsureValidToken(r)
  BY <1>0, <1>2 DEF EnsureValidToken, Continue, Request
<1>3. CASE RefreshLoad(r)
  <2>1. /\ req'[r].pc = "refresh_post" /\ req'[r].config = row
        /\ req'[r].kind = req[r].kind /\ row.secret /\ row.exists
    BY <1>0, <1>3 DEF RefreshLoad, InTable, Request
  <2>2. QED
    BY <2>1
<1>4. CASE RefreshAnswered(r)
  BY <1>0, <1>4 DEF RefreshAnswered, At, Request
<1>5. CASE RefreshSave(r) \/ Reload(r) \/ GetOrCreateProvider(r)
  BY <1>0, <1>5 DEF RefreshSave, Reload, GetOrCreateProvider, Request
<1>6. CASE ExchangeCode(r)
  BY <1>0, <1>6 DEF ExchangeCode, Request
<1>7. CASE Invalidate(r)
  BY <1>0, <1>7 DEF Invalidate, Continue, Request
<1>8. CASE WriteSettings(r)
  BY <1>0, <1>8 DEF WriteSettings, Continue, Request
<1>9. CASE \/ RefreshAnswerLost(r) \/ RefreshRefused(r) \/ Call(r)
           \/ WriteActive(r) \/ WriteSave(r) \/ WriteCallback(r) \/ DeleteRow(r)
  BY <1>9 DEF RefreshAnswerLost, RefreshRefused, Call, WriteActive, WriteSave,
              WriteCallback, DeleteRow
<1>10. QED
  BY <1>1, <1>2, <1>3, <1>4, <1>5, <1>6, <1>7, <1>8, <1>9 DEF Step

(* What a request writes has a client_secret.                              *)
LEMMA RowKeepsSecret ==
    ASSUME SecretInv, NEW r \in Requests, Step(r)
    PROVE  row'.exists => row'.secret
<1>0. /\ row.exists => row.secret
      /\ row \in Row /\ req[r].config \in Row /\ WritesSecret(r)
  BY Numbers DEF SecretInv
<1>1. CASE RefreshSave(r)
  <2>1. req[r].config.secret
    BY <1>0, <1>1 DEF RefreshSave, At, WritesSecret
  <2>2. row' = row \/ row' = [req[r].config EXCEPT !.pair = req[r].held]
    BY <1>1 DEF RefreshSave, UpdateRow
  <2>3. QED
    BY <1>0, <2>1, <2>2 DEF Row
<1>2. CASE WriteSettings(r)
  <2>1. req[r].config.secret
    BY <1>0, <1>2 DEF WriteSettings, At, WritesSecret
  <2>2. PICK field : row' = row \/ row' = [req[r].config EXCEPT !.field = field]
    BY <1>2 DEF WriteSettings, UpdateRow
  <2>3. QED
    BY <1>0, <2>1, <2>2 DEF Row
<1>3. CASE WriteSave(r)
  BY <1>3 DEF WriteSave, UpsertRow, NoRow
<1>4. CASE DeleteRow(r)
  BY <1>0, <1>4 DEF DeleteRow, NoRow
<1>5. ~WriteActive(r) /\ ~WriteCallback(r)
  BY <1>0 DEF WriteActive, WriteCallback, WritesSecret, SanitizingKinds
<1>6. CASE \/ Load(r) \/ EnsureValidToken(r) \/ RefreshLoad(r)
           \/ RefreshAnswered(r) \/ RefreshAnswerLost(r)
           \/ RefreshRefused(r) \/ Reload(r) \/ GetOrCreateProvider(r)
           \/ Call(r) \/ ExchangeCode(r) \/ Invalidate(r)
  <2>1. row' = row
    BY <1>6 DEF Load, EnsureValidToken, RefreshLoad, RefreshAnswered,
       RefreshAnswerLost, RefreshRefused, Reload, GetOrCreateProvider,
       Call, ExchangeCode, Invalidate
  <2>2. QED
    BY <1>0, <2>1
<1>7. QED
  BY <1>1, <1>2, <1>3, <1>4, <1>5, <1>6 DEF Step

LEMMA SecretHolds ==
    ASSUME Kinds \cap SanitizingKinds = {}
    PROVE  Spec => []SecretInv
<1>0. ASSUME NEW r \in Requests, req'[r] = IdleRequest  PROVE WritesSecret(r)'
  BY <1>0 DEF WritesSecret, IdleRequest, SanitizingKinds
<1>1. Init => SecretInv
  <2> SUFFICES ASSUME Init PROVE SecretInv
    OBVIOUS
  <2>1. row.exists => row.secret
    BY DEF Init, NoRow
  <2>2. \A r \in Requests : WritesSecret(r)
    BY DEF Init, WritesSecret, IdleRequest, SanitizingKinds
  <2>3. QED
    BY <2>1, <2>2, InitType DEF SecretInv
<1>2. SecretInv /\ [Next]_vars => SecretInv'
  <2> SUFFICES ASSUME SecretInv, [Next]_vars PROVE SecretInv'
    OBVIOUS
  <2>1. TypeOK'
    BY NextType DEF SecretInv
  <2>2. TypeOK /\ (row.exists => row.secret) /\ \A r \in Requests : WritesSecret(r)
    BY DEF SecretInv
  <2>3. ASSUME NEW r \in Requests, Step(r)  PROVE SecretInv'
    <3>1. row'.exists => row'.secret
      BY <2>3, RowKeepsSecret
    <3>2. ASSUME NEW s \in Requests, s # r  PROVE WritesSecret(s)'
      BY <2>2, <2>3, <3>2, StepAlone DEF WritesSecret
    <3>3. WritesSecret(r)'
      <4>1. CASE Finish(r)
        BY <1>0, <2>2, <4>1 DEF Finish, TypeOK
      <4>2. CASE ~Finish(r)
        BY <2>2, <2>3, <4>2, MovesOn DEF WritesSecret
      <4>3. QED
        BY <4>1, <4>2
    <3>4. QED
      BY <2>1, <3>1, <3>2, <3>3 DEF SecretInv
  <2>4. ASSUME NEW r \in Requests, NEW kind \in Kinds, Start(r, kind)  PROVE SecretInv'
    <3>1. /\ row' = row
          /\ \A s \in Requests : s # r => req'[s] = req[s]
          /\ req'[r].kind = kind /\ req'[r].pc = FirstStep(kind)
      BY <2>2, <2>4 DEF Start, TypeOK, Request
    <3>2. kind \notin SanitizingKinds
      OBVIOUS
    <3>3. FirstStep(kind) \in {"load", "exchange", "invalidate"}
      BY DEF FirstStep
    <3>4. \A s \in Requests : WritesSecret(s)'
      BY <2>2, <3>1, <3>2, <3>3 DEF WritesSecret
    <3>5. QED
      BY <2>1, <2>2, <3>1, <3>4 DEF SecretInv
  <2>5. ASSUME NEW r \in Requests, DatabaseFails(r)  PROVE SecretInv'
    <3>1. /\ row' = row
          /\ \A s \in Requests : req'[s] = req[s] \/ req'[s] = IdleRequest
      BY <2>2, <2>5 DEF DatabaseFails, GiveUp, Finish, TypeOK
    <3>2. \A s \in Requests : WritesSecret(s)'
      BY <1>0, <2>2, <3>1 DEF WritesSecret
    <3>3. QED
      BY <2>1, <2>2, <3>1, <3>2 DEF SecretInv
  <2>6. CASE Restart
    <3>1. row' = row /\ \A s \in Requests : req'[s] = IdleRequest
      BY <2>6 DEF Restart
    <3>2. QED
      BY <1>0, <2>1, <2>2, <3>1 DEF SecretInv
  <2>7. CASE Tick
    <3>1. row' = row
      BY <2>7 DEF Tick
    <3>2. \A s \in Requests : /\ req'[s].pc = req[s].pc
                              /\ req'[s].kind = req[s].kind
                              /\ req'[s].config = req[s].config
      BY <2>2, <2>7 DEF Tick, TypeOK, Request
    <3>3. QED
      BY <2>1, <2>2, <3>1, <3>2 DEF SecretInv, WritesSecret
  <2>8. CASE UNCHANGED vars
    BY <2>1, <2>2, <2>8 DEF vars, SecretInv, WritesSecret
  <2>9. QED
    BY <2>3, <2>4, <2>5, <2>6, <2>7, <2>8 DEF Next
<1>3. QED
  BY <1>1, <1>2, PTL DEF Spec

(* Without SetCRMConfigActive and AmoCRMCallback, no interleaving and no   *)
(* failure of the others erases the client_secret: each of them writes     *)
(* back a row it read with sanitizing left out, or the credentials of the  *)
(* client.                                                                 *)
THEOREM SecretStays ==
    ASSUME Kinds \cap SanitizingKinds = {}
    PROVE  Spec => SecretKept
<1>1. SecretInv /\ SecretInv'
      => [row.exists /\ row'.exists /\ row.secret => row'.secret]_row
  BY DEF SecretInv
<1>2. QED
  BY <1>1, SecretHolds, PTL DEF SecretKept

-----------------------------------------------------------------------------
(* Requests one after the other, of every kind and with every failure.     *)

(* Settings are about to write the row as it stands.                       *)
KnowsRow(r) ==
    req[r].pc = "write" /\ req[r].kind = "settings"
    => row.exists /\ req[r].config = row

SettingsInv ==
    /\ TypeOK
    /\ \A r \in Requests : KnowsRow(r)

LEMMA SettingsKnowRow ==
    ASSUME InTurn
    PROVE  Spec => []SettingsInv
<1>1. Init => SettingsInv
  <2> SUFFICES ASSUME Init PROVE SettingsInv
    OBVIOUS
  <2>1. \A r \in Requests : req[r] = IdleRequest
    BY DEF Init
  <2>2. ASSUME NEW r \in Requests  PROVE KnowsRow(r)
    <3>1. req[r].pc = "idle"
      BY <2>1 DEF IdleRequest
    <3>2. QED
      BY <3>1 DEF KnowsRow
  <2>3. QED
    BY <2>2, InitType DEF SettingsInv
<1>2. SettingsInv /\ [Next]_vars => SettingsInv'
  <2> SUFFICES ASSUME SettingsInv, [Next]_vars PROVE SettingsInv'
    OBVIOUS
  <2>1. TypeOK'
    BY NextType DEF SettingsInv
  <2>2. TypeOK /\ \A r \in Requests : KnowsRow(r)
    BY DEF SettingsInv
  <2>3. ASSUME NEW r \in Requests, KnowsRow(r)'  PROVE SettingsInv'
    <3>1. \A s \in Requests : s = r
      BY DEF InTurn
    <3>2. QED
      BY <2>1, <2>3, <3>1 DEF SettingsInv
  <2>4. ASSUME NEW r \in Requests, Step(r)  PROVE SettingsInv'
    <3>1. CASE Finish(r)
      <4>1. req'[r].pc = "idle"
        BY <2>2, <3>1 DEF Finish, TypeOK, IdleRequest
      <4>2. QED
        BY <2>3, <4>1 DEF KnowsRow
    <3>2. CASE ~Finish(r)
      <4>1. CASE req'[r].pc = "write" /\ req'[r].kind = "settings"
        <5>1. req'[r].config = row /\ row.exists
          BY <2>2, <2>4, <3>2, <4>1, MovesOn
        <5>2. row' = row
          <6>1. Load(r)
            BY <2>2, <2>4, <3>2, <4>1
            DEF Step, EnsureValidToken, RefreshLoad, RefreshAnswered,
                RefreshAnswerLost, RefreshRefused, RefreshSave, Reload,
                GetOrCreateProvider, Call, ExchangeCode, Invalidate,
                WriteSettings, WriteActive, WriteSave, WriteCallback, DeleteRow,
                Continue, TypeOK, Request
          <6>2. QED
            BY <6>1 DEF Load
        <5>3. QED
          BY <2>3, <5>1, <5>2 DEF KnowsRow
      <4>2. CASE ~(req'[r].pc = "write" /\ req'[r].kind = "settings")
        BY <2>3, <4>2 DEF KnowsRow
      <4>3. QED
        BY <4>1, <4>2
    <3>3. QED
      BY <3>1, <3>2
  <2>5. ASSUME NEW r \in Requests, NEW kind \in Kinds, Start(r, kind)  PROVE SettingsInv'
    <3>1. req'[r].pc = FirstStep(kind)
      BY <2>2, <2>5 DEF Start, TypeOK, Request
    <3>2. FirstStep(kind) # "write"
      BY DEF FirstStep
    <3>3. QED
      BY <2>3, <3>1, <3>2 DEF KnowsRow
  <2>6. ASSUME NEW r \in Requests, DatabaseFails(r)  PROVE SettingsInv'
    <3>1. req'[r].pc = "idle"
      BY <2>2, <2>6 DEF DatabaseFails, GiveUp, Finish, TypeOK, IdleRequest
    <3>2. QED
      BY <2>3, <3>1 DEF KnowsRow
  <2>7. CASE Restart
    <3>1. \A s \in Requests : req'[s].pc = "idle"
      BY <2>7 DEF Restart, IdleRequest
    <3>2. QED
      BY <2>1, <3>1 DEF SettingsInv, KnowsRow
  <2>8. CASE Tick
    <3>1. row' = row
      BY <2>8 DEF Tick
    <3>2. \A s \in Requests : /\ req'[s].pc = req[s].pc
                              /\ req'[s].kind = req[s].kind
                              /\ req'[s].config = req[s].config
      BY <2>2, <2>8 DEF Tick, TypeOK, Request
    <3>3. QED
      BY <2>1, <2>2, <3>1, <3>2 DEF SettingsInv, KnowsRow
  <2>9. CASE UNCHANGED vars
    BY <2>1, <2>2, <2>9 DEF vars, SettingsInv, KnowsRow
  <2>10. QED
    BY <2>4, <2>5, <2>6, <2>7, <2>8, <2>9 DEF Next
<1>3. QED
  BY <1>1, <1>2, PTL DEF Spec

(* Settings leave the stored pair alone as long as no other request comes  *)
(* in between: only the interleaving of two requests can write back an     *)
(* older pair (SetMarusiaSourceFieldID, SetDefaultLeadSettings,            *)
(* SetChannelSettings).                                                    *)
THEOREM SettingsKeepInTurn ==
    ASSUME InTurn
    PROVE  Spec => SettingsKeepTokens
<1>1. SettingsInv /\ [Next]_vars
      => [\A r \in Requests : WriteSettings(r) => row'.pair = row.pair]_vars
  <2> SUFFICES ASSUME SettingsInv, NEW r \in Requests, WriteSettings(r)
               PROVE  row'.pair = row.pair
    OBVIOUS
  <2>1. req[r].config = row /\ row \in Row
    BY Numbers DEF SettingsInv, KnowsRow, WriteSettings, At
  <2>2. PICK field : row' = row \/ row' = [row EXCEPT !.field = field]
    BY <2>1 DEF WriteSettings, UpdateRow
  <2>3. QED
    BY <2>1, <2>2 DEF Row
<1>2. QED
  BY <1>1, SettingsKnowRow, PTL DEF Spec, SettingsKeepTokens

-----------------------------------------------------------------------------
(* The refresh chain with settings and authorizations in turn.             *)
ChainKinds == RefreshKinds \cup {"settings", "callback"}

(* A request that has received a pair holds the live one until it stores   *)
(* it: a refresh at refresh_save, a callback after the exchange.           *)
Holding(r) ==
    \/ req[r].pc = "refresh_save"
    \/ req[r].kind = "callback" /\ req[r].pc \in {"load", "invalidate", "write"}

HoldsLive(r) ==
    /\ req[r].kind \in ChainKinds \cup {"none"}
    /\ req[r].pc = "exchange" => req[r].kind = "callback"
    /\ req[r].kind = "callback" => req[r].pc \in {"exchange", "load", "invalidate", "write"}
    /\ req[r].held = IF Holding(r) THEN issued ELSE 0
    /\ Holding(r) => issued # 0

(* The live pair is stored, held or lost.                                  *)
ChainLinked ==
    \/ ~row.exists
    \/ row.pair = issued
    \/ \E r \in Requests : Holding(r)
    \/ issued \in lost

ChainInv ==
    /\ SettingsInv
    /\ \A r \in Requests : HoldsLive(r)
    /\ row.pair <= issued
    /\ ChainLinked

(* The steps that issue a pair.                                            *)
LEMMA IssueLinked ==
    ASSUME InTurn, ChainInv, NEW r \in Requests,
           RefreshAnswered(r) \/ RefreshAnswerLost(r) \/ ExchangeCode(r)
    PROVE  /\ HoldsLive(r)' /\ row'.pair <= issued' /\ ChainLinked'
           /\ row' = row
<1>0. /\ TypeOK /\ HoldsLive(r) /\ row.pair <= issued /\ ChainLinked
      /\ req \in [Requests -> Request] /\ req[r] \in Request
      /\ issued \in Nat /\ row.pair \in Nat
      /\ \A s \in Requests : s = r
  BY Numbers DEF ChainInv, SettingsInv, TypeOK, InTurn
<1>1. CASE RefreshAnswered(r)
  <2>1. /\ req'[r].pc = "refresh_save" /\ req'[r].kind = req[r].kind
        /\ req'[r].held = issued + 1 /\ issued' = issued + 1 /\ row' = row
        /\ req[r].pc = "refresh_post"
    BY <1>0, <1>1 DEF RefreshAnswered, Issue, At, Request
  <2>2. HoldsLive(r)' /\ Holding(r)'
    BY <1>0, <2>1 DEF HoldsLive, Holding
  <2>3. QED
    BY <1>0, <2>1, <2>2 DEF ChainLinked
<1>2. CASE RefreshAnswerLost(r)
  <2>1. /\ issued' = issued + 1 /\ issued' \in lost' /\ row' = row
        /\ req'[r] = IdleRequest
    BY <1>0, <1>2 DEF RefreshAnswerLost, Issue, Finish
  <2>2. HoldsLive(r)'
    BY <2>1 DEF HoldsLive, Holding, IdleRequest
  <2>3. QED
    BY <1>0, <2>1, <2>2 DEF ChainLinked
<1>3. CASE ExchangeCode(r)
  <2>0. ~Holding(r) /\ req[r].kind = "callback" /\ row' = row /\ lost' = lost
    BY <1>0, <1>3 DEF ExchangeCode, At, HoldsLive, Holding
  <2>1. CASE Issue
    <3>1. /\ req'[r].pc = "load" /\ req'[r].kind = req[r].kind
          /\ req'[r].held = issued + 1 /\ issued' = issued + 1
      BY <1>0, <1>3, <2>1 DEF ExchangeCode, Issue, Finish, Request
    <3>2. HoldsLive(r)' /\ Holding(r)'
      BY <1>0, <2>0, <3>1 DEF HoldsLive, Holding
    <3>3. QED
      BY <1>0, <2>0, <3>1, <3>2 DEF ChainLinked
  <2>2. CASE ~Issue
    <3>1. req'[r] = IdleRequest /\ issued' = issued
      BY <1>0, <1>3, <2>2 DEF ExchangeCode, Finish
    <3>2. HoldsLive(r)'
      BY <3>1 DEF HoldsLive, Holding, IdleRequest
    <3>3. QED
      BY <1>0, <2>0, <3>1, <3>2 DEF ChainLinked
  <2>3. QED
    BY <2>1, <2>2
<1>4. QED
  BY <1>1, <1>2, <1>3

(* A request that holds no pair moves on or ends, and the row stays.       *)
LEMMA IdlePairLinked ==
    ASSUME ChainInv, InTurn, NEW r \in Requests, ~Holding(r),
           UNCHANGED <<row, issued, lost>>,
           \/ req'[r] = IdleRequest
           \/ /\ req'[r].held = req[r].held /\ req'[r].kind = req[r].kind
              /\ req'[r].pc \notin {"refresh_save", "exchange"}
              /\ req[r].kind # "callback"
    PROVE  HoldsLive(r)' /\ row'.pair <= issued' /\ ChainLinked'
<1>1. HoldsLive(r) /\ row.pair <= issued /\ ChainLinked /\ \A s \in Requests : s = r
  BY DEF ChainInv, InTurn
<1>2. HoldsLive(r)'
  BY <1>1 DEF HoldsLive, Holding, IdleRequest
<1>3. QED
  BY <1>1, <1>2 DEF ChainLinked

(* A request that forgets what it received loses it.                       *)
LEMMA GiveUpLinked ==
    ASSUME ChainInv, InTurn, NEW r \in Requests, GiveUp(r), UNCHANGED <<row, issued>>
    PROVE  HoldsLive(r)' /\ row'.pair <= issued' /\ ChainLinked'
<1>1. /\ HoldsLive(r) /\ row.pair <= issued /\ ChainLinked
      /\ \A s \in Requests : s = r
  BY DEF ChainInv, InTurn
<1>2. req'[r] = IdleRequest /\ lost' = lost \cup ({req[r].held} \ {0})
  BY DEF GiveUp, Finish, Losing, ChainInv, SettingsInv, TypeOK
<1>3. HoldsLive(r)'
  BY <1>2 DEF HoldsLive, Holding, IdleRequest
<1>4. Holding(r) => issued \in lost'
  BY <1>1, <1>2 DEF HoldsLive
<1>5. QED
  BY <1>1, <1>2, <1>3, <1>4 DEF ChainLinked

(* The steps that write the row.                                           *)
LEMMA WriteLinked ==
    ASSUME InTurn, ChainInv, NEW r \in Requests,
           \/ RefreshSave(r)
           \/ WriteSettings(r)
           \/ WriteCallback(r)
           \/ DeleteRow(r)
    PROVE  HoldsLive(r)' /\ row'.pair <= issued' /\ ChainLinked'
<1>0. /\ TypeOK /\ HoldsLive(r) /\ row.pair <= issued /\ ChainLinked /\ KnowsRow(r)
      /\ req \in [Requests -> Request] /\ req[r] \in Request
      /\ issued \in Nat /\ row.pair \in Nat /\ row \in Row /\ req[r].config \in Row
      /\ \A s \in Requests : s = r
  BY Numbers DEF ChainInv, SettingsInv, TypeOK, InTurn
<1>1. CASE RefreshSave(r)
  <2>1. /\ req[r].held = issued /\ issued # 0 /\ issued' = issued
        /\ req[r].kind # "callback"
    BY <1>0, <1>1 DEF RefreshSave, At, HoldsLive, Holding
  <2>2. \/ row' = row /\ issued \in lost'
        \/ row'.pair = issued
    <3>0. InTable([req[r].config EXCEPT !.pair = req[r].held]) <=> InTable(req[r].config)
      BY <1>0 DEF InTable, Row
    <3>1. CASE InTable(req[r].config)
      <4>1. row' = [req[r].config EXCEPT !.pair = req[r].held]
        BY <1>1, <3>0, <3>1 DEF RefreshSave, UpdateRow
      <4>2. QED
        BY <1>0, <2>1, <4>1 DEF Row
    <3>2. CASE ~InTable(req[r].config)
      <4>1. row' = row /\ lost' = Losing(r)
        BY <1>1, <3>0, <3>2 DEF RefreshSave, UpdateRow
      <4>2. QED
        BY <2>1, <4>1 DEF Losing
    <3>3. QED
      BY <3>1, <3>2
  <2>3. \/ req'[r] = IdleRequest
        \/ /\ req'[r].pc = "reload" /\ req'[r].held = 0
           /\ req'[r].kind = req[r].kind
    BY <1>0, <1>1 DEF RefreshSave, Finish, Request
  <2>4. HoldsLive(r)'
    BY <1>0, <2>1, <2>3 DEF HoldsLive, Holding, IdleRequest
  <2>5. QED
    BY <1>0, <2>1, <2>2, <2>4 DEF ChainLinked
<1>2. CASE WriteSettings(r)
  <2>1. /\ ~Holding(r) /\ req[r].kind = "settings" /\ req[r].config = row
        /\ issued' = issued /\ lost' = lost
    BY <1>0, <1>2 DEF WriteSettings, At, KnowsRow, Holding
  <2>2. PICK field : row' = row \/ row' = [row EXCEPT !.field = field]
    BY <1>2, <2>1 DEF WriteSettings, UpdateRow
  <2>3. row'.pair = row.pair /\ row'.exists = row.exists
    BY <1>0, <2>2 DEF Row
  <2>4. \/ req'[r] = IdleRequest
        \/ /\ req'[r].pc = "invalidate" /\ req'[r].held = req[r].held
           /\ req'[r].kind = req[r].kind
    BY <1>0, <1>2 DEF WriteSettings, Finish, Continue, Request
  <2>5. HoldsLive(r)'
    BY <1>0, <2>1, <2>4 DEF HoldsLive, Holding, IdleRequest
  <2>6. QED
    BY <1>0, <2>1, <2>3, <2>5 DEF ChainLinked
<1>3. CASE WriteCallback(r)
  <2>1. /\ req[r].held = issued /\ issued' = issued /\ req'[r] = IdleRequest
    BY <1>0, <1>3 DEF WriteCallback, At, HoldsLive, Holding, Finish
  <2>2. row'.pair = issued
    BY <1>0, <1>3, <2>1 DEF WriteCallback, UpsertRow, Row
  <2>3. HoldsLive(r)'
    BY <2>1 DEF HoldsLive, Holding, IdleRequest
  <2>4. QED
    BY <1>0, <2>1, <2>2, <2>3 DEF ChainLinked
<1>4. CASE DeleteRow(r)
  <2>1. ~Holding(r) /\ issued' = issued /\ lost' = lost /\ req'[r] = IdleRequest
    BY <1>0, <1>4 DEF DeleteRow, At, Holding, Finish
  <2>2. row' = row \/ (~row'.exists /\ row'.pair = 0)
    BY <1>4 DEF DeleteRow, NoRow
  <2>3. HoldsLive(r)'
    BY <2>1 DEF HoldsLive, Holding, IdleRequest
  <2>4. QED
    BY <1>0, <2>1, <2>2, <2>3 DEF ChainLinked
<1>5. QED
  BY <1>1, <1>2, <1>3, <1>4

(* What they write is no older than the row.                               *)
LEMMA WriteGrows ==
    ASSUME InTurn, ChainInv, NEW r \in Requests,
           \/ RefreshSave(r)
           \/ WriteSettings(r)
           \/ WriteCallback(r)
           \/ DeleteRow(r)
    PROVE  row.exists /\ row'.exists => row.pair <= row'.pair
<1>0. /\ HoldsLive(r) /\ row.pair <= issued /\ KnowsRow(r)
      /\ issued \in Nat /\ row.pair \in Nat /\ row \in Row /\ req[r].config \in Row
  BY Numbers DEF ChainInv, SettingsInv
<1>1. CASE RefreshSave(r)
  <2>1. req[r].held = issued
    BY <1>0, <1>1 DEF RefreshSave, At, HoldsLive, Holding
  <2>2. row' = row \/ row'.pair = issued
    BY <1>0, <1>1, <2>1 DEF RefreshSave, UpdateRow, Row
  <2>3. QED
    BY <1>0, <2>2
<1>2. CASE WriteSettings(r)
  <2>1. req[r].config = row
    BY <1>0, <1>2 DEF WriteSettings, At, KnowsRow
  <2>2. PICK field : row' = row \/ row' = [row EXCEPT !.field = field]
    BY <1>2, <2>1 DEF WriteSettings, UpdateRow
  <2>3. QED
    BY <1>0, <2>2 DEF Row
<1>3. CASE WriteCallback(r)
  <2>1. req[r].held = issued
    BY <1>0, <1>3 DEF WriteCallback, At, HoldsLive, Holding
  <2>2. row'.pair = issued
    BY <1>0, <1>3, <2>1 DEF WriteCallback, UpsertRow, Row
  <2>3. QED
    BY <1>0, <2>2
<1>4. CASE DeleteRow(r)
  <2>1. row' = row \/ ~row'.exists
    BY <1>4 DEF DeleteRow, NoRow
  <2>2. QED
    BY <1>0, <2>1
<1>5. QED
  BY <1>1, <1>2, <1>3, <1>4

(* The steps that neither issue nor store a pair.                          *)
LEMMA OtherLinked ==
    ASSUME InTurn, ChainInv, NEW r \in Requests,
           \/ Load(r)
           \/ EnsureValidToken(r)
           \/ RefreshLoad(r)
           \/ RefreshRefused(r)
           \/ Reload(r)
           \/ GetOrCreateProvider(r)
           \/ Call(r)
           \/ Invalidate(r)
    PROVE  HoldsLive(r)' /\ row'.pair <= issued' /\ ChainLinked' /\ row' = row
<1>0. /\ TypeOK /\ HoldsLive(r) /\ row.pair <= issued /\ ChainLinked
      /\ req \in [Requests -> Request] /\ req[r] \in Request
      /\ \A s \in Requests : s = r
  BY Numbers DEF ChainInv, SettingsInv, TypeOK, InTurn
<1>1. CASE Load(r)
  <2>1. row' = row /\ issued' = issued
    BY <1>1 DEF Load
  <2>2. CASE GiveUp(r)
    BY <2>1, <2>2, GiveUpLinked
  <2>3. CASE ~GiveUp(r)
    <3>1. /\ req[r].pc = "load" /\ lost' = lost
          /\ req'[r].pc = StepAfterLoad(req[r].kind)
          /\ req'[r].kind = req[r].kind /\ req'[r].held = req[r].held
      BY <1>0, <1>1, <2>3 DEF Load, At, Request
    <3>2. CASE req[r].kind = "callback"
      <4>1. req'[r].pc = "invalidate"
        BY <3>1, <3>2 DEF StepAfterLoad
      <4>2. HoldsLive(r)' /\ Holding(r)'
        BY <1>0, <2>1, <3>1, <3>2, <4>1 DEF HoldsLive, Holding
      <4>3. QED
        BY <1>0, <2>1, <4>2 DEF ChainLinked
    <3>3. CASE req[r].kind # "callback"
      <4>1. req'[r].pc \in {"check", "refresh_load", "write", "invalidate"}
        BY <3>1, <3>3 DEF StepAfterLoad
      <4>2. ~Holding(r)
        BY <3>1, <3>3 DEF Holding
      <4>3. QED
        BY <2>1, <3>1, <3>3, <4>1, <4>2, IdlePairLinked
    <3>4. QED
      BY <3>2, <3>3
  <2>4. QED
    BY <2>2, <2>3
<1>2. CASE Invalidate(r)
  <2>1. /\ UNCHANGED <<row, issued, lost>> /\ req[r].pc = "invalidate"
        /\ \/ req'[r] = IdleRequest /\ req[r].kind = "settings"
           \/ /\ req'[r].pc = "write" /\ req'[r].held = req[r].held
              /\ req'[r].kind = req[r].kind
    BY <1>0, <1>2 DEF Invalidate, At, Finish, Continue, Request
  <2>2. CASE req[r].kind = "callback"
    <3>1. HoldsLive(r)' /\ Holding(r)'
      BY <1>0, <2>1, <2>2 DEF HoldsLive, Holding
    <3>2. QED
      BY <1>0, <2>1, <3>1 DEF ChainLinked
  <2>3. CASE req[r].kind # "callback"
    <3>1. ~Holding(r)
      BY <2>1, <2>3 DEF Holding
    <3>2. QED
      BY <2>1, <2>3, <3>1, IdlePairLinked
  <2>4. QED
    BY <2>2, <2>3
<1>3. CASE \/ EnsureValidToken(r) \/ RefreshLoad(r) \/ RefreshRefused(r)
           \/ Reload(r) \/ GetOrCreateProvider(r) \/ Call(r)
  <2>1. /\ UNCHANGED <<row, issued, lost>>
        /\ req[r].pc \in {"check", "refresh_load", "refresh_post", "reload",
                          "provider", "call"}
    BY <1>3 DEF EnsureValidToken, RefreshLoad, RefreshRefused, Reload,
       GetOrCreateProvider, Call, At
  <2>2. \/ req'[r] = IdleRequest
        \/ /\ req'[r].held = req[r].held /\ req'[r].kind = req[r].kind
           /\ req'[r].pc \in {"refresh_load", "reload", "refresh_post",
                              "provider", "call"}
    <3>1. CASE EnsureValidToken(r) \/ RefreshLoad(r) \/ RefreshRefused(r)
      BY <1>0, <3>1 DEF EnsureValidToken, RefreshLoad, RefreshRefused, Finish,
         Continue, Request
    <3>2. CASE Reload(r) \/ GetOrCreateProvider(r) \/ Call(r)
      BY <1>0, <3>2 DEF Reload, GetOrCreateProvider, Call, Finish, Request
    <3>3. QED
      BY <1>3, <3>1, <3>2
  <2>3. ~Holding(r) /\ req[r].kind # "callback"
    BY <1>0, <2>1 DEF Holding, HoldsLive
  <2>4. QED
    BY <2>1, <2>2, <2>3, IdlePairLinked
<1>4. QED
  BY <1>1, <1>2, <1>3

LEMMA ChainHolds ==
    ASSUME InTurn, Kinds \subseteq ChainKinds
    PROVE  /\ Init => ChainInv
           /\ ChainInv /\ SettingsInv' /\ [Next]_vars
              => /\ ChainInv'
                 /\ [row.exists /\ row'.exists => row.pair <= row'.pair]_row
<1>1. Init => ChainInv
  <2> SUFFICES ASSUME Init PROVE ChainInv
    OBVIOUS
  <2>1. TypeOK /\ row.pair = issued /\ issued \in Nat
    BY InitType, Numbers DEF Init
  <2>2. \A r \in Requests : req[r] = IdleRequest
    BY DEF Init
  <2>3. ASSUME NEW r \in Requests  PROVE HoldsLive(r) /\ KnowsRow(r)
    <3>1. req[r].pc = "idle" /\ req[r].kind = "none" /\ req[r].held = 0
      BY <2>2 DEF IdleRequest
    <3>2. QED
      BY <3>1 DEF HoldsLive, Holding, KnowsRow
  <2>4. QED
    BY <2>1, <2>3 DEF ChainInv, SettingsInv, ChainLinked
<1>2. ASSUME ChainInv, SettingsInv', [Next]_vars
      PROVE  /\ ChainInv'
             /\ [row.exists /\ row'.exists => row.pair <= row'.pair]_row
  <2>0. /\ TypeOK /\ ChainLinked /\ row.pair <= issued
        /\ \A r \in Requests : HoldsLive(r) /\ KnowsRow(r)
    BY <1>2 DEF ChainInv, SettingsInv
  <2>1. ASSUME NEW r \in Requests,
               HoldsLive(r)', row'.pair <= issued', ChainLinked'
        PROVE  ChainInv'
    <3>1. \A s \in Requests : s = r
      BY DEF InTurn
    <3>2. QED
      BY <1>2, <2>1, <3>1 DEF ChainInv
  <2>2. ASSUME NEW r \in Requests, Step(r)
        PROVE  /\ ChainInv'
               /\ [row.exists /\ row'.exists => row.pair <= row'.pair]_row
    <3>1. CASE \/ RefreshSave(r) \/ WriteSettings(r) \/ WriteCallback(r)
               \/ DeleteRow(r)
      <4>1. ChainInv'
        BY <1>2, <2>1, <3>1, WriteLinked
      <4>2. row.exists /\ row'.exists => row.pair <= row'.pair
        BY <1>2, <3>1, WriteGrows
      <4>3. QED
        BY <4>1, <4>2
    <3>2. CASE RefreshAnswered(r) \/ RefreshAnswerLost(r) \/ ExchangeCode(r)
      BY <1>2, <2>1, <3>2, IssueLinked
    <3>3. CASE \/ Load(r) \/ EnsureValidToken(r) \/ RefreshLoad(r)
               \/ RefreshRefused(r) \/ Reload(r) \/ GetOrCreateProvider(r)
               \/ Call(r) \/ Invalidate(r)
      BY <1>2, <2>1, <3>3, OtherLinked
    <3>4. ~WriteActive(r) /\ ~WriteSave(r)
      BY <2>0 DEF HoldsLive, ChainKinds, RefreshKinds, WriteActive, WriteSave
    <3>5. QED
      BY <2>2, <3>1, <3>2, <3>3, <3>4 DEF Step
  <2>3. ASSUME NEW r \in Requests, NEW kind \in Kinds, Start(r, kind)
        PROVE  ChainInv' /\ row' = row
    <3>1. /\ UNCHANGED <<row, issued, lost>> /\ req[r].pc = "idle"
          /\ req'[r].held = req[r].held /\ req'[r].kind = kind
          /\ req'[r].pc = FirstStep(kind)
      BY <2>0, <2>3 DEF Start, At, TypeOK, Request
    <3>2. kind \in ChainKinds /\ kind # "save"
      BY DEF ChainKinds, RefreshKinds
    <3>3. \/ kind = "callback" /\ req'[r].pc = "exchange"
          \/ kind # "callback" /\ req'[r].pc = "load"
      BY <3>1, <3>2 DEF FirstStep
    <3>4. ~Holding(r) /\ HoldsLive(r)'
      BY <2>0, <3>1, <3>2, <3>3 DEF HoldsLive, Holding
    <3>5. ChainLinked'
      <4>1. \A s \in Requests : s = r
        BY DEF InTurn
      <4>2. QED
        BY <2>0, <3>1, <3>4, <4>1 DEF ChainLinked
    <3>6. QED
      BY <2>0, <2>1, <3>1, <3>4, <3>5
  <2>4. ASSUME NEW r \in Requests, DatabaseFails(r)
        PROVE  ChainInv' /\ row' = row
    <3>1. GiveUp(r) /\ UNCHANGED <<row, issued>>
      BY <2>4 DEF DatabaseFails
    <3>2. QED
      BY <1>2, <2>1, <3>1, GiveUpLinked
  <2>5. CASE Restart
    <3>1. /\ row' = row /\ issued' = issued
          /\ lost' = lost \cup ({req[r].held : r \in Requests} \ {0})
          /\ \A r \in Requests : req'[r] = IdleRequest
      BY <2>5 DEF Restart
    <3>2. \A r \in Requests : HoldsLive(r)'
      BY <3>1 DEF HoldsLive, Holding, IdleRequest
    <3>3. ASSUME NEW r \in Requests, Holding(r)  PROVE issued \in lost'
      BY <2>0, <3>1, <3>3 DEF HoldsLive
    <3>4. ChainLinked'
      BY <2>0, <3>1, <3>3 DEF ChainLinked
    <3>5. QED
      BY <1>2, <2>0, <3>1, <3>2, <3>4 DEF ChainInv
  <2>6. CASE Tick
    <3>1. /\ UNCHANGED <<row, issued, lost>>
          /\ \A r \in Requests : /\ req'[r].pc = req[r].pc
                                /\ req'[r].kind = req[r].kind
                                /\ req'[r].held = req[r].held
      BY <2>0, <2>6 DEF Tick, TypeOK, Request
    <3>2. \A r \in Requests : HoldsLive(r)' /\ (Holding(r) <=> Holding(r)')
      BY <2>0, <3>1 DEF HoldsLive, Holding
    <3>3. QED
      BY <1>2, <2>0, <3>1, <3>2 DEF ChainInv, ChainLinked
  <2>7. CASE UNCHANGED vars
    BY <1>2, <2>0, <2>7 DEF vars, ChainInv, HoldsLive, Holding, ChainLinked
  <2>8. QED
    BY <1>2, <2>2, <2>3, <2>4, <2>5, <2>6, <2>7 DEF Next
<1>3. QED
  BY <1>1, <1>2

(* With one request at a time, settings and new authorizations keep the    *)
(* refresh chain too, whatever fails: the live refresh token is in the     *)
(* row, in the hands of the request, or lost by a failure, and the pair in *)
(* the row never goes back.  Activation and saving are left out because    *)
(* they drop the pair on purpose or with the sanitized configuration       *)
(* (RefreshAmoCRMToken, AmoCRMCallback, SetMarusiaSourceFieldID).          *)
THEOREM ChainInTurn ==
    ASSUME InTurn, Kinds \subseteq ChainKinds
    PROVE  Spec => []RefreshChain /\ PairsNeverGoBack
<1>1. ChainInv => RefreshChain
  BY DEF ChainInv, ChainLinked, HoldsLive, RefreshChain
<1>2. QED
  BY <1>1, ChainHolds, SettingsKnowRow, PTL DEF Spec, PairsNeverGoBack
=============================================================================
