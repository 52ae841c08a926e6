------------------------- MODULE EntityOperationsProofs -------------------------
(***************************************************************************)
(* Proofs about EntityOperations, for any number of attempts and calls and *)
(* any timeouts.  An operation is a behaviour of HttpRetry, so what is     *)
(* proved of the one holds of the other.                                   *)
(***************************************************************************)
EXTENDS EntityOperations, HttpRetryProofs

-----------------------------------------------------------------------------
(* The refinement.                                                         *)

(* Every step of an operation is one of DoRequestWithRetry, of its caller  *)
(* and of amoCRM, or leaves the request alone.                             *)
LEMMA StepSimulates ==
    ASSUME [OperationNext]_allVars
    PROVE  [Next]_vars
<1>1. CASE Validate \/ Prepared \/ NotPrepared \/ Finish
  BY <1>1 DEF Validate, Prepared, NotPrepared, Finish
<1>2. CASE Waiting
  BY <1>2 DEF Waiting, Next
<1>3. CASE Replied
  BY <1>3 DEF Replied, Next
<1>4. CASE Close \/ Late
  BY <1>4 DEF Close, Late, Next
<1>5. CASE SendSource
  BY <1>5 DEF SendSource, Next
<1>6. CASE UNCHANGED allVars
  BY <1>6 DEF allVars
<1> QED  BY <1>1, <1>2, <1>3, <1>4, <1>5, <1>6 DEF OperationNext, Work

(* An operation implements HttpRetry: whatever it does before, between and *)
(* after its requests is a stutter there.                                  *)
THEOREM Simulation == OperationSpec => Spec
<1>1. OperationInit => Init
  BY DEF OperationInit
<1> QED  BY <1>1, StepSimulates, PTL DEF OperationSpec, Spec

(* So each request of an operation is executed at most once, the token     *)
(* outlives them all, and only the response of a 401 is left open.         *)
THEOREM RequestsSafe ==
    OperationSpec => [](AtMostOnceEffect /\ TokenOutlivesCall /\ OnlyUnauthorizedLeaks)
BY Simulation, AtMostOnce, TokenOutlives, ResponsesClosed, PTL

-----------------------------------------------------------------------------
(* The table of operations.                                                *)

(* Whether the operation changes something in amoCRM.                      *)
Sends == Operation[kind].api.sends

Methods ==
    [sends : BOOLEAN, accepts : {{200}, {200, 201}}, needsEntity : BOOLEAN,
     missing : {{}, NotFound, NotFoundFem}]

Handlers(failures) ==
    [fails : failures, done : {200, 201},
     looksFor : SUBSET NotFoundFem]

(* Every method of the provider is one of Methods ...                      *)
LEMMA MethodsTyped ==
    /\ FindContactByPhone \in Methods
    /\ FindContactByAltContact \in Methods
    /\ CreateContact \in Methods
    /\ GetContact \in Methods
    /\ UpdateContact \in Methods
    /\ GetCustomFields \in Methods
    /\ CreateCustomField \in Methods
    /\ UpdateLead \in Methods
    /\ GetLead \in Methods
    /\ GetLeadsByContactID \in Methods
    /\ CreateAIDialogLead \in Methods
    /\ CreateLeadNote \in Methods
    /\ GetTalk \in Methods
    /\ GetPipelines \in Methods
BY DEF Methods, Method, NotFound, NotFoundFem,
       FindContactByPhone, FindContactByAltContact, CreateContact, GetContact,
       UpdateContact, GetCustomFields, CreateCustomField, UpdateLead, GetLead,
       GetLeadsByContactID, CreateAIDialogLead, CreateLeadNote, GetTalk,
       GetPipelines

(* ... and every handler one of Handlers, of which only that of GetContact *)
(* answers every failure 404.                                              *)
LEMMA HandlersTyped ==
    /\ HandleFindContact \in Handlers({400, 500})
    /\ HandleCreateContact \in Handlers({400, 500})
    /\ HandleGetContact \in Handlers({404})
    /\ HandleUpdateContact \in Handlers({400, 500})
    /\ HandleGetFields \in Handlers({400, 500})
    /\ HandleCreateField \in Handlers({400, 500})
    /\ HandleUpdateLead \in Handlers({400, 500})
    /\ HandleConfigFields \in Handlers({400, 500})
    /\ HandleConfigField \in Handlers({400, 500})
    /\ HandleGetLead \in Handlers({400, 500})
    /\ HandleLeadsByContact \in Handlers({400, 500})
    /\ HandleAIDialogLead \in Handlers({400, 500})
    /\ HandleCreateLeadNote \in Handlers({400, 500})
    /\ HandleGetTalk \in Handlers({400, 500})
    /\ HandleGetPipelines \in Handlers({400, 500})
BY DEF Handlers, Handler, NotFoundFem,
       HandleFindContact, HandleCreateContact, HandleGetContact,
       HandleUpdateContact, HandleGetFields, HandleCreateField,
       HandleUpdateLead, HandleConfigFields, HandleConfigField, HandleGetLead,
       HandleLeadsByContact, HandleAIDialogLead, HandleCreateLeadNote,
       HandleGetTalk, HandleGetPipelines

(* Every operation has a method and a handler of those types.              *)
LEMMA OperationTyped ==
    ASSUME NEW k \in Kinds
    PROVE  /\ Operation[k].api \in Methods
           /\ k = "getContact" => Operation[k].http \in Handlers({404})
           /\ k # "getContact" => Operation[k].http \in Handlers({400, 500})
BY MethodsTyped, HandlersTyped DEF Operation, Kinds

(* The provider takes for success whatever amoCRM confirms with.           *)
LEMMA ConfirmationsAccepted ==
    ASSUME kind \in Kinds
    PROVE  \A c \in Confirmations : c.status \in Operation[kind].api.accepts
<1>1. 200 \in Operation[kind].api.accepts
  BY OperationTyped DEF Methods
<1>2. kind \in Creations => 201 \in Operation[kind].api.accepts
  BY DEF Creations, Operation, CreateContact, CreateCustomField, CreateAIDialogLead,
         CreateLeadNote, Method
<1> QED  BY <1>1, <1>2 DEF Confirmations

(* The handlers that look for words, the word each looks for, and what     *)
(* their methods take for success and say of a 404.                        *)
LEMMA Searching ==
    ASSUME kind \in {"updateLead", "getLead", "getTalk"}
    PROVE  LET op == Operation[kind]
           IN  /\ op.http.fails = 500 /\ op.http.looksFor = {LooksForWord}
               /\ op.api.accepts = {200}
               /\ kind = "updateLead" => op.api.missing = {}
               /\ kind # "updateLead" => LooksForWord \in op.api.missing
<1> USE DEF Handler, Method, LooksForWord, NotFound, NotFoundFem
<1>1. CASE kind = "updateLead"
  <2>1. Operation[kind].api = UpdateLead /\ Operation[kind].http = HandleUpdateLead
    BY <1>1 DEF Operation
  <2>2. UpdateLead.accepts = {200} /\ UpdateLead.missing = {}
    BY DEF UpdateLead
  <2>3. HandleUpdateLead.fails = 500 /\ HandleUpdateLead.looksFor = {"ne nayden"}
    BY DEF HandleUpdateLead
  <2> QED  BY <1>1, <2>1, <2>2, <2>3
<1>2. CASE kind = "getLead"
  <2>1. Operation[kind].api = GetLead /\ Operation[kind].http = HandleGetLead
    BY <1>2 DEF Operation
  <2>2. GetLead.accepts = {200} /\ GetLead.missing = NotFound
    BY DEF GetLead
  <2>3. HandleGetLead.fails = 500 /\ HandleGetLead.looksFor = {"ne nayden"}
    BY DEF HandleGetLead
  <2> QED  BY <1>2, <2>1, <2>2, <2>3
<1>3. CASE kind = "getTalk"
  <2>1. Operation[kind].api = GetTalk /\ Operation[kind].http = HandleGetTalk
    BY <1>3 DEF Operation
  <2>2. GetTalk.accepts = {200} /\ GetTalk.missing = NotFoundFem
    BY DEF GetTalk
  <2>3. HandleGetTalk.fails = 500 /\ HandleGetTalk.looksFor = {"ne naydena"}
    BY DEF HandleGetTalk
  <2> QED  BY <1>3, <2>1, <2>2, <2>3
<1> QED  BY <1>1, <1>2, <1>3

(* The others look for none.                                               *)
LEMMA NotSearching ==
    ASSUME kind \in Kinds, kind \notin {"updateLead", "getLead", "getTalk"}
    PROVE  Operation[kind].http.looksFor = {}
BY DEF Kinds, Operation, Handler, HandleFindContact, HandleCreateContact,
       HandleGetContact, HandleUpdateContact, HandleGetFields, HandleCreateField,
       HandleConfigFields, HandleConfigField, HandleLeadsByContact,
       HandleAIDialogLead, HandleCreateLeadNote, HandleGetPipelines

(* What the invariants use of the table: a confirmed creation is 200 or    *)
(* 201, only GetContact answers 404 without looking at the error, and a    *)
(* created contact is answered 201.                                        *)
LEMMA KindFacts ==
    ASSUME kind \in Kinds
    PROVE  /\ Sends \in BOOLEAN
           /\ Operation[kind].api \in Methods
           /\ Operation[kind].http \in Handlers({400, 404, 500})
           /\ Operation[kind].http.fails = 404 => kind = "getContact"
           /\ kind = "createContact" => Sends /\ Operation[kind].http.done = 201
<1>1. Operation[kind].api \in Methods  BY OperationTyped
<1>2. Sends \in BOOLEAN  BY <1>1 DEF Sends, Methods
<1>3. kind = "createContact" => Sends /\ Operation[kind].http.done = 201
  BY DEF Sends, Operation, CreateContact, HandleCreateContact, Method, Handler
<1>4. CASE kind = "getContact"
  BY <1>1, <1>2, <1>3, <1>4, OperationTyped DEF Handlers
<1>5. CASE kind # "getContact"
  BY <1>1, <1>2, <1>3, <1>5, OperationTyped DEF Handlers
<1> QED  BY <1>4, <1>5

(* A failure is answered 4xx or 500: 404 where the error has the word the  *)
(* handler looks for, else only by that of GetContact.                     *)
LEMMA Failed ==
    ASSUME kind \in Kinds, NEW words, Fail(words)
    PROVE  /\ stage' = "answered"
           /\ answer' \in {400, 404, 500}
           /\ IF kind \in {"updateLead", "getLead", "getTalk"}
              THEN answer' = 404 <=> LooksForWord \in words
              ELSE answer' = 404 => kind = "getContact"
BY KindFacts, Searching, NotSearching DEF Fail, AnswerWith, Handlers

(* A success is answered 200 or 201, a created contact 201.                *)
LEMMA Succeeded ==
    ASSUME kind \in Kinds, Succeed
    PROVE  /\ stage' = "answered"
           /\ answer' \in {200, 201}
           /\ kind = "createContact" => answer' = 201
BY KindFacts DEF Succeed, AnswerWith, Handlers

-----------------------------------------------------------------------------
(* The inductive invariant.                                                *)

(* While there is something to send there is no outcome; before the call   *)
(* nothing was sent; there is an answer exactly at the end, and until then *)
(* nothing has gone wrong before the call; and only an operation that      *)
(* sends something has a body.                                             *)
Stages ==
    /\ pc \in {"send", "backoff"} => outcome = "none"
    /\ stage \in {"handler", "config"} => pc = "send" /\ call = 1
    /\ answer # 0 <=> stage = "answered"
    /\ stage # "answered" => failure = NoFailure
    /\ call \in {1, 2}
    /\ call = 1 => (body = "none" <=> ~Sends)

(* amoCRM has executed what it confirms, and confirms it as the provider   *)
(* expects; only a confirmation contains an entity, and only a refusal     *)
(* that can be read has words.                                             *)
RepliesTruly ==
    /\ (call = 1 /\ outcome = "response" /\ reply.status \in {200, 201})
           => effects >= 1
    /\ reply.status \in {200, 201} => reply.status \in Operation[kind].api.accepts
    /\ reply.body = "entity" => reply.status \in {200, 201}
    /\ reply.words # {} => reply.status >= 300 /\ reply.body # "unreadable"

(* FailureIsHonest without the last condition, which is not needed.        *)
Honest ==
    stage = "answered" /\ ~Answered2xx /\ Sends
    => \/ outcome # "response"
       \/ reply.status >= 300
       \/ reply.body # "entity"

(* A success was accepted or is that of a marked contact.                  *)
Truthful ==
    stage = "answered" /\ Answered2xx => Confirmed

OperationInv ==
    /\ OperationTypeOK
    /\ Stages
    /\ Truthful
    /\ RepliesTruly
    /\ SuccessIsReal
    /\ Honest
    /\ SourceIsExtra
    /\ NotFoundCauses

-----------------------------------------------------------------------------
(* What the steps of the request do.                                       *)

(* Sending consumes a body but never makes or loses one.                   *)
LEMMA ConsumedKeeps ==
    ASSUME Consumed
    PROVE  body' = "none" <=> body = "none"
BY DEF Consumed

(* The loop without an answer has no response.                             *)
LEMMA WaitingFacts ==
    ASSUME Stages, Waiting
    PROVE  /\ stage = "call"
           /\ UNCHANGED <<call, effects>> /\ UNCHANGED own
           /\ outcome' # "response"
           /\ pc' \in {"send", "backoff"} => outcome' = "none"
           /\ body' = "none" <=> body = "none"
<1> USE DEF Waiting, own, Stages
<1>1. CASE BackOff          BY <1>1 DEF BackOff
<1>2. CASE Cancelled        BY <1>2 DEF Cancelled, Return
<1>3. CASE ConnectTimesOut  BY <1>3 DEF ConnectTimesOut, Retry, Return
<1>4. CASE AnswerTimesOut   BY <1>4, ConsumedKeeps DEF AnswerTimesOut, Retry, Return
<1>5. CASE ConnectionFails  BY <1>5, ConsumedKeeps DEF ConnectionFails, Return
<1>6. CASE Unauthorized     BY <1>6, ConsumedKeeps DEF Unauthorized, Return
<1> QED  BY <1>1, <1>2, <1>3, <1>4, <1>5, <1>6

(* The replies amoCRM can send, in general.                                *)
ReplySet ==
    [status : {0, 200, 201, 204, 400, 404, 502},
     body : {"none", "entity", "empty", "unreadable"}, words : Texts]

(* What holds of every reply, whether or not the request was executed.     *)
Sound(rep) ==
    /\ rep \in ReplySet
    /\ rep.status \in {200, 201} => rep.status \in Operation[kind].api.accepts
    /\ rep.body = "entity" => rep.status \in {200, 201}
    /\ rep.words # {} => rep.status >= 300 /\ rep.body # "unreadable"

(* A refusal is sound and confirms nothing, a confirmation is sound.       *)
LEMMA RefusalsSound ==
    ASSUME NEW statuses, \A c \in statuses : c \in {400, 404, 502},
           NEW rep \in Refusals(statuses)
    PROVE  Sound(rep) /\ rep.status \notin {200, 201}
<1>1. /\ rep \in [status : statuses, body : {"none", "unreadable"}, words : Texts]
      /\ rep.status \in statuses
  BY DEF Refusals, Texts
<1>2. rep \in ReplySet /\ rep.status \in {400, 404, 502} /\ rep.body # "entity"
  BY <1>1 DEF ReplySet
<1>3. rep.words # {} => rep.body # "unreadable"
  BY DEF Refusals
<1> QED  BY <1>1, <1>2, <1>3 DEF Sound

LEMMA ConfirmationsSound ==
    ASSUME kind \in Kinds, NEW rep \in Confirmations
    PROVE  Sound(rep)
<1>1. rep.status \in Operation[kind].api.accepts  BY ConfirmationsAccepted
<1>2. /\ rep \in [status : {200, 201}, body : {"entity", "empty", "unreadable"},
                   words : {{}}]
  BY DEF Confirmations
<1> QED  BY <1>1, <1>2 DEF Sound, ReplySet, Texts

(* A reply that confirms was preceded by the execution and has a status    *)
(* the provider takes.                                                     *)
LEMMA RepliedFacts ==
    ASSUME TypeOK, OperationTypeOK, Replied
    PROVE  /\ stage = "call" /\ call' = call
           /\ UNCHANGED <<kind, request, stage, failure, created, answer>>
           /\ outcome' = "response" /\ pc' = "received"
           /\ body' = "none" <=> body = "none"
           /\ Sound(reply')
           /\ reply'.status \in {200, 201} => effects' >= 1
<1>0. kind \in Kinds  BY DEF OperationTypeOK
<1>1. CASE TruncatedRefused /\ \E words \in Texts : reply' = Reply(400, "none", words)
  <2>1. Sound(reply') /\ reply'.status = 400
    BY <1>1 DEF Sound, ReplySet, Reply
  <2> QED  BY <1>1, <2>1 DEF TruncatedRefused, Replied
<1>2. CASE Answered /\ reply' \in Replies(effects' = effects + 1)
  <2>1. effects \in Nat /\ (effects' = effects \/ effects' = effects + 1)
    BY <1>2 DEF Answered, TypeOK
  <2>2. body' = "none" <=> body = "none"  BY <1>2, ConsumedKeeps DEF Answered
  <2>3. Sound(reply') /\ (reply'.status \in {200, 201} => effects' >= 1)
    <3>1. CASE effects' # effects + 1
      <4>1. reply' \in Refusals({400, 404, 502})  BY <1>2, <3>1 DEF Replies
      <4> QED  BY <4>1, RefusalsSound
    <3>2. CASE effects' = effects + 1
      <4>1. effects' >= 1  BY <2>1, <3>2
      <4>2. CASE reply' \in Confirmations
        BY <1>0, <4>1, <4>2, ConfirmationsSound
      <4>3. CASE reply' \in Refusals({502})
        BY <4>3, RefusalsSound
      <4>4. CASE reply' = Reply(204, "none", {})
        BY <4>4 DEF Reply, Sound, ReplySet, Texts
      <4> QED  BY <1>2, <3>2, <4>1, <4>2, <4>3, <4>4 DEF Replies
    <3> QED  BY <3>1, <3>2
  <2> QED  BY <1>2, <2>2, <2>3 DEF Answered, Replied
<1> QED  BY <1>1, <1>2 DEF Replied

(* The provider accepts exactly the complete confirmations of amoCRM.      *)
LEMMA AcceptedConfirmed ==
    ASSUME OperationTypeOK, RepliesTruly
    PROVE  Accepted <=> Confirmation
<1>1. Operation[kind].api.accepts \subseteq {200, 201}
  BY KindFacts DEF OperationTypeOK, Methods
<1> QED  BY <1>1 DEF Accepted, Confirmation, RepliesTruly

-----------------------------------------------------------------------------
(* The invariant is inductive, one lemma per kind of step.                 *)

(* The facts of HttpRetry it rests on.                                     *)
Request == TypeOK /\ OneCopy

LEMMA InitInv == OperationInit => OperationInv
<1> SUFFICES ASSUME OperationInit  PROVE OperationInv
  OBVIOUS
<1>1. OperationTypeOK
  BY DEF OperationInit, OperationTypeOK, NoReply, Reply, Texts
<1>2. Stages
  BY KindFacts DEF OperationInit, Init, Stages, Sends
<1> QED
  BY <1>1, <1>2 DEF OperationInit, Init, OperationInv, NoReply, Reply, RepliesTruly,
                    Truthful, SuccessIsReal, Honest, SourceIsExtra, NotFoundCauses, Answered2xx

LEMMA ValidateInv ==
    ASSUME OperationInv, Validate
    PROVE  OperationInv'
<1> USE DEF Validate, AnswerWith, vars
<1>1. OperationTypeOK'  BY DEF OperationInv, OperationTypeOK
<1>2. Stages'  BY DEF OperationInv, Stages, Sends
<1>3. RepliesTruly'  BY DEF OperationInv, RepliesTruly, Sends
<1>4. Truthful'
  BY DEF OperationInv, Stages, Truthful, Answered2xx
<1>5. SuccessIsReal' /\ Honest' /\ SourceIsExtra' /\ NotFoundCauses'
  BY DEF OperationInv, Stages, SuccessIsReal, Honest, SourceIsExtra, NotFoundCauses,
         Unknown, Unconfigured, Quoted, NoFailure, Failure, Answered2xx
<1> QED  BY <1>1, <1>2, <1>3, <1>4, <1>5 DEF OperationInv

LEMMA PreparedInv ==
    ASSUME OperationInv, Prepared
    PROVE  OperationInv'
<1> USE DEF Prepared, vars
<1>1. OperationTypeOK'  BY DEF OperationInv, OperationTypeOK
<1>2. Stages'  BY DEF OperationInv, Stages, Sends
<1>3. RepliesTruly'  BY DEF OperationInv, RepliesTruly, Sends
<1>4. Truthful'
  BY DEF OperationInv, Stages, Truthful, Answered2xx
<1>5. SuccessIsReal' /\ Honest' /\ SourceIsExtra' /\ NotFoundCauses'
  BY DEF OperationInv, Stages, SuccessIsReal, Honest, SourceIsExtra, NotFoundCauses,
         Answered2xx
<1> QED  BY <1>1, <1>2, <1>3, <1>4, <1>5 DEF OperationInv

(* Where the words of a failure before the call come from.                 *)
LEMMA FailureWords ==
    ASSUME NEW f \in Failures
    PROVE  LooksForWord \in f.words
           <=> \/ f.cause = "unread" \/ (f.cause = "gone" /\ kind # "getTalk")
               \/ f.cause = "refused" /\ LooksForWord \in f.words
<1> USE DEF Failure, NotFound, NotFoundFem, LooksForWord
<1>1. CASE f = Failure("unread", NotFoundFem)  BY <1>1
<1>2. CASE f = Failure("gone", NotFound)  BY <1>2
<1>3. CASE f = Failure("other", {})  BY <1>3
<1>4. CASE \E words \in Texts : f = Failure("refused", words)  BY <1>4
<1> QED  BY <1>1, <1>2, <1>3, <1>4 DEF Failures

LEMMA NotPreparedInv ==
    ASSUME OperationInv, NotPrepared
    PROVE  OperationInv'
<1>1. PICK f \in Failures : failure' = f /\ Fail(f.words)
  BY DEF NotPrepared
<1>2. /\ stage' = "answered" /\ answer' \in {400, 404, 500}
      /\ IF kind \in {"updateLead", "getLead", "getTalk"}
         THEN answer' = 404 <=> LooksForWord \in f.words
         ELSE answer' = 404 => kind = "getContact"
  BY <1>1, Failed DEF OperationInv, OperationTypeOK
<1>3. stage = "config" /\ UNCHANGED <<vars, kind, request, reply, created>>
  BY DEF NotPrepared
<1>4. OperationTypeOK'  BY <1>1, <1>2, <1>3 DEF OperationInv, OperationTypeOK
<1>5. Stages'  BY <1>2, <1>3 DEF OperationInv, Stages, Sends, vars
<1>6. RepliesTruly'  BY <1>3 DEF OperationInv, RepliesTruly, Sends, vars
<1>7. SuccessIsReal' /\ Honest' /\ SourceIsExtra'
  BY <1>2, <1>3 DEF OperationInv, Stages, SuccessIsReal, Honest, SourceIsExtra,
                    Answered2xx, vars
<1>8. NotFoundCauses'
  <2>1. outcome' # "response"  BY <1>3 DEF OperationInv, Stages, vars
  <2>2. LooksForWord \in f.words
        <=> \/ f.cause = "unread" \/ (f.cause = "gone" /\ kind # "getTalk")
            \/ f.cause = "refused" /\ LooksForWord \in f.words
    BY FailureWords
  <2>3. LooksForWord' = LooksForWord  BY <1>3 DEF LooksForWord
  <2> QED
    BY <1>1, <1>2, <1>3, <2>1, <2>2, <2>3 DEF NotFoundCauses, Unknown, Unconfigured, Quoted
<1>9. Truthful'  BY <1>2 DEF Truthful, Answered2xx
<1> QED  BY <1>4, <1>5, <1>6, <1>7, <1>8, <1>9 DEF OperationInv

LEMMA WaitingInv ==
    ASSUME OperationInv, Waiting
    PROVE  OperationInv'
<1>1. /\ stage = "call" /\ UNCHANGED <<call, effects>> /\ UNCHANGED own
      /\ outcome' # "response"
      /\ pc' \in {"send", "backoff"} => outcome' = "none"
      /\ body' = "none" <=> body = "none"
  BY WaitingFacts DEF OperationInv
<1> USE <1>1 DEF own
<1>2. OperationTypeOK'  BY DEF OperationInv, OperationTypeOK
<1>3. Stages'  BY DEF OperationInv, Stages, Sends
<1>4. RepliesTruly'  BY DEF OperationInv, RepliesTruly, Sends
<1>5. SuccessIsReal' /\ Honest' /\ SourceIsExtra' /\ NotFoundCauses'
  BY DEF OperationInv, Stages, SuccessIsReal, Honest, SourceIsExtra, NotFoundCauses,
         Answered2xx
<1>6. Truthful'  BY DEF Truthful
<1> QED  BY <1>2, <1>3, <1>4, <1>5, <1>6 DEF OperationInv

LEMMA RepliedInv ==
    ASSUME TypeOK, OperationInv, Replied
    PROVE  OperationInv'
<1>1. OperationTypeOK  BY DEF OperationInv
<1>2. /\ stage = "call" /\ call' = call
      /\ UNCHANGED <<kind, request, stage, failure, created, answer>>
      /\ outcome' = "response" /\ pc' = "received"
      /\ body' = "none" <=> body = "none"
  BY <1>1, RepliedFacts
<1>3. Sound(reply') /\ (reply'.status \in {200, 201} => effects' >= 1)
  BY <1>1, RepliedFacts
<1>4. OperationTypeOK'
  BY <1>1, <1>2, <1>3 DEF OperationTypeOK, Sound, ReplySet
<1>5. Stages'  BY <1>2 DEF OperationInv, Stages, Sends
<1>6. RepliesTruly'  BY <1>2, <1>3 DEF RepliesTruly, Sound, Sends
<1>7. SuccessIsReal' /\ Honest' /\ SourceIsExtra' /\ NotFoundCauses'
  BY <1>2 DEF OperationInv, Stages, SuccessIsReal, Honest, SourceIsExtra,
              NotFoundCauses, Answered2xx
<1>8. Truthful'  BY <1>2 DEF Truthful
<1> QED  BY <1>4, <1>5, <1>6, <1>7, <1>8 DEF OperationInv

LEMMA CloseInv ==
    ASSUME OperationInv, Close
    PROVE  OperationInv'
<1> USE DEF Close, CloseBody, own
<1>1. OperationTypeOK'  BY DEF OperationInv, OperationTypeOK
<1>2. Stages'  BY DEF OperationInv, Stages, Sends
<1>3. RepliesTruly'  BY DEF OperationInv, RepliesTruly, Sends
<1>4. SuccessIsReal' /\ Honest' /\ SourceIsExtra' /\ NotFoundCauses'
  BY DEF OperationInv, Stages, SuccessIsReal, Honest, SourceIsExtra, NotFoundCauses,
         Answered2xx, Executed
<1>5. Truthful'  BY DEF Truthful
<1> QED  BY <1>1, <1>2, <1>3, <1>4, <1>5 DEF OperationInv

(* A late execution is the first one: a success has left no copy behind.   *)
LEMMA LateInv ==
    ASSUME Request, Request', OperationInv, Late
    PROVE  OperationInv'
<1> USE DEF Late, LateExecution, own
<1>1. OperationTypeOK'  BY DEF OperationInv, OperationTypeOK
<1>2. Stages'  BY DEF OperationInv, Stages, Sends
<1>3. effects \in Nat /\ effects' = effects + 1  BY DEF Request, TypeOK
<1>4. RepliesTruly'  BY <1>3 DEF OperationInv, RepliesTruly, Sends
<1>5. SuccessIsReal'
  <2>1. CASE call = 1 /\ Sends /\ Answered2xx
    <3>1. effects = 1 /\ body # "none"
      BY <2>1 DEF OperationInv, Stages, SuccessIsReal, Sends, Executed
    <3>2. body = "read" /\ body' = "read"
      BY <3>1 DEF Request, TypeOK, OneCopy
    <3>3. inflight' \in Nat /\ inflight' + effects' <= 1
      BY <3>2 DEF Request, TypeOK, OneCopy
    <3> QED  BY <3>1, <3>3, <1>3
  <2>2. CASE ~(call = 1 /\ Sends /\ Answered2xx)
    BY <2>2 DEF OperationInv, SuccessIsReal, Executed, Answered2xx, Sends
  <2> QED  BY <2>1, <2>2
<1>6. Honest' /\ SourceIsExtra' /\ NotFoundCauses'
  BY DEF OperationInv, Honest, SourceIsExtra, NotFoundCauses,
         Unknown, Unconfigured, Quoted, LooksForWord, Answered2xx, Sends
<1>7. Truthful'
  BY DEF OperationInv, Truthful, Answered2xx, Confirmed, Confirmation
<1> QED  BY <1>1, <1>2, <1>4, <1>5, <1>6, <1>7 DEF OperationInv

(* Only a contact that exists, and exists once, gets its source.           *)
LEMMA SendSourceInv ==
    ASSUME Request, OperationInv, SendSource
    PROVE  OperationInv'
<1> USE DEF SendSource, NextCall, NoReply, Reply, Texts
<1>1. kind = "createContact" /\ call = 1 /\ call' = 2 /\ created' = effects
  BY DEF MarkSource
<1>2. Sends  BY <1>1, KindFacts DEF OperationInv, OperationTypeOK
<1>3. effects = 1
  <2>1. reply.status \in {200, 201} /\ outcome = "response"
    BY <1>1, <1>2, KindFacts DEF Accepted, Methods, OperationInv, OperationTypeOK
  <2>2. effects >= 1  BY <1>1, <1>2, <2>1 DEF OperationInv, RepliesTruly
  <2>3. body # "none"  BY <1>1, <1>2 DEF OperationInv, Stages
  <2>4. effects <= 1 /\ effects \in Nat
    BY <2>3 DEF Request, TypeOK, OneCopy
  <2> QED  BY <2>2, <2>4
<1>4. OperationTypeOK'  BY <1>3 DEF OperationInv, OperationTypeOK
<1>5. Stages'  BY <1>1 DEF OperationInv, Stages, Sends
<1>6. RepliesTruly'  BY DEF RepliesTruly, Sends
<1>7. SuccessIsReal' /\ Honest' /\ SourceIsExtra' /\ NotFoundCauses'
  BY <1>1, <1>3 DEF OperationInv, Stages, SuccessIsReal, Honest, SourceIsExtra,
                    NotFoundCauses, Answered2xx
<1>8. Truthful'  BY DEF Truthful
<1> QED  BY <1>4, <1>5, <1>6, <1>7, <1>8 DEF OperationInv

(* How an operation ends: with a success after what the provider accepts   *)
(* or after a marked contact, with a failure otherwise.                    *)
LEMMA FinishFacts ==
    ASSUME OperationTypeOK, Stages, Finish
    PROVE  /\ stage = "call" /\ stage' = "answered"
           /\ UNCHANGED <<vars, kind, request, failure, reply, created>>
           /\ \/ /\ call = 2 \/ Accepted
                 /\ answer' \in {200, 201}
                 /\ kind = "createContact" => answer' = 201
              \/ /\ call = 1 /\ ~Accepted
                 /\ answer' \in {400, 404, 500}
                 /\ IF kind \in {"updateLead", "getLead", "getTalk"}
                    THEN answer' = 404 <=> LooksForWord \in ErrorWords
                    ELSE answer' = 404 => kind = "getContact"
<1>1. kind \in Kinds  BY DEF OperationTypeOK
<1>2. CASE Succeed /\ (call = 2 \/ Accepted)
  BY <1>1, <1>2, Succeeded DEF Finish
<1>3. CASE call = 1 /\ ~Accepted /\ Fail(ErrorWords)
  BY <1>1, <1>3, Failed DEF Finish
<1> QED  BY <1>2, <1>3 DEF Finish, Stages

(* The word is in the provider's error exactly if amoCRM does not know the *)
(* entity or its refusal contains it, and in no reply that is accepted.    *)
LEMMA WordQuoted ==
    ASSUME OperationTypeOK, RepliesTruly, failure = NoFailure,
           kind \in {"updateLead", "getLead", "getTalk"}
    PROVE  /\ LooksForWord \in ErrorWords <=> Unknown \/ Unconfigured \/ Quoted
           /\ Accepted => LooksForWord \notin ErrorWords
<1>1. ~Unconfigured /\ (Quoted <=> outcome = "response" /\ LooksForWord \in reply.words)
  BY DEF Unconfigured, Quoted, NoFailure, Failure
<1>2. reply.words # {} => reply.status >= 300 /\ reply.body # "unreadable"
  BY DEF RepliesTruly
<1>3. /\ kind = "updateLead" => Operation[kind].api.missing = {}
      /\ kind # "updateLead" => LooksForWord \in Operation[kind].api.missing
      /\ Operation[kind].api.accepts = {200}
  BY Searching
<1>4. CASE outcome = "response" /\ reply.body # "unreadable"
  <2>1. LooksForWord \in ErrorWords <=> Unknown \/ LooksForWord \in reply.words
    <3>1. CASE reply.status = 404 /\ kind # "updateLead"
      BY <1>3, <1>4, <3>1 DEF ErrorWords, Unknown
    <3>2. CASE ~(reply.status = 404 /\ kind # "updateLead")
      BY <1>3, <1>4, <3>2 DEF ErrorWords, Unknown
    <3> QED  BY <3>1, <3>2
  <2>2. Accepted => reply.status = 200  BY <1>3 DEF Accepted
  <2>3. Accepted => reply.words = {} /\ ~Unknown
    BY <1>2, <2>2 DEF Unknown
  <2> QED  BY <1>1, <1>4, <2>1, <2>3
<1>5. CASE outcome # "response" \/ reply.body = "unreadable"
  <2>1. ErrorWords = {}  BY <1>5 DEF ErrorWords
  <2>2. ~Unknown  BY <1>5 DEF Unknown
  <2>3. outcome = "response" => reply.words = {}  BY <1>2, <1>5
  <2> QED  BY <1>1, <2>1, <2>2, <2>3
<1> QED  BY <1>4, <1>5

(* Only the creation of a contact has a second call.                       *)
LEMMA SourceCalls ==
    ASSUME Stages, SourceIsExtra, kind # "createContact"
    PROVE  call = 1
BY DEF Stages, SourceIsExtra

LEMMA FinishInv ==
    ASSUME Request, OperationInv, Finish
    PROVE  OperationInv'
<1>1. OperationTypeOK /\ Stages /\ RepliesTruly /\ kind \in Kinds
  BY DEF OperationInv, OperationTypeOK
<1>2. stage = "call" /\ stage' = "answered"
  BY <1>1, FinishFacts
<1>3. UNCHANGED <<vars, kind, request, failure, reply, created>>
  BY <1>1, FinishFacts
<1>4. answer' \in {200, 201, 400, 404, 500}
  BY <1>1, FinishFacts
<1>5. OperationTypeOK'  BY <1>1, <1>2, <1>3, <1>4 DEF OperationTypeOK
<1>6. Stages'  BY <1>1, <1>2, <1>3, <1>4 DEF Stages, Sends, vars
<1>7. RepliesTruly'  BY <1>1, <1>3 DEF RepliesTruly, Sends, vars
<1>8. SuccessIsReal'
  <2> SUFFICES ASSUME answer' \in {200, 201}, Sends
               PROVE  Executed = 1
    BY <1>3 DEF SuccessIsReal, Answered2xx, Executed, Sends, vars
  <2>1. CASE call = 2
    BY <2>1 DEF OperationInv, SourceIsExtra, Executed
  <2>2. CASE call = 1
    <3>1. Accepted  BY <1>1, <2>2, FinishFacts
    <3>2. reply.status \in {200, 201} /\ outcome = "response"
      BY <1>1, <3>1, KindFacts DEF Accepted, Methods
    <3>3. effects >= 1  BY <1>1, <2>2, <3>2 DEF RepliesTruly
    <3>4. body # "none"  BY <1>1, <2>2 DEF Stages
    <3>5. effects <= 1 /\ effects \in Nat  BY <3>4 DEF Request, TypeOK, OneCopy
    <3> QED  BY <2>2, <3>3, <3>5 DEF Executed
  <2> QED  BY <1>1, <2>1, <2>2 DEF Stages
<1>9. Honest'
  <2> SUFFICES ASSUME answer' \notin {200, 201}, Sends, outcome = "response",
                      reply.body = "entity"
               PROVE  reply.status >= 300
    BY <1>3 DEF Honest, Answered2xx, Sends, vars
  <2>1. reply.status \in Operation[kind].api.accepts
    BY <1>1 DEF RepliesTruly
  <2>2. Accepted  BY <2>1 DEF Accepted
  <2>3. ~Accepted  BY <1>1, FinishFacts
  <2> QED  BY <2>2, <2>3
<1>10. SourceIsExtra'
  BY <1>1, <1>2, <1>3, FinishFacts DEF OperationInv, SourceIsExtra, vars
<1>11. NotFoundCauses'
  <2>1. /\ failure = NoFailure
        /\ UNCHANGED <<kind, failure, outcome, reply, LooksForWord>>
    BY <1>1, <1>2, <1>3 DEF Stages, vars, LooksForWord
  <2>2. UNCHANGED <<Unknown, Unconfigured, Quoted>>
    BY <2>1 DEF Unknown, Unconfigured, Quoted
  <2>3. CASE kind \in {"updateLead", "getLead", "getTalk"}
    <3>1. kind # "createContact" /\ call = 1
      BY <1>1, <2>3, SourceCalls DEF OperationInv
    <3>2. answer' = 404 <=> Unknown \/ Unconfigured \/ Quoted
      BY <1>1, <2>1, <2>3, <3>1, WordQuoted, FinishFacts
    <3> QED  BY <1>2, <2>1, <2>2, <2>3, <3>2 DEF NotFoundCauses
  <2>4. CASE kind \notin {"updateLead", "getLead", "getTalk"}
    <3>1. answer' = 404 => kind = "getContact"
      BY <1>1, <2>4, FinishFacts
    <3> QED  BY <2>1, <2>4, <3>1 DEF NotFoundCauses
  <2> QED  BY <2>3, <2>4
<1>12. Truthful'
  <2> SUFFICES ASSUME answer' \in {200, 201}
               PROVE  Confirmed'
    BY DEF Truthful, Answered2xx
  <2>1. call = 2 \/ Accepted  BY <1>1, FinishFacts
  <2>2. Confirmed  BY <1>1, <2>1, AcceptedConfirmed DEF Confirmed
  <2> QED  BY <1>3, <2>2 DEF vars, Confirmed, Confirmation
<1> QED
  BY <1>5, <1>6, <1>7, <1>8, <1>9, <1>10, <1>11, <1>12 DEF OperationInv

(* A step that is none of an operation changes none of its variables.      *)
LEMMA StutterInv ==
    ASSUME OperationInv, UNCHANGED allVars
    PROVE  OperationInv'
<1> USE DEF allVars, vars, own
<1>1. OperationTypeOK'  BY DEF OperationInv, OperationTypeOK
<1>2. Stages' /\ RepliesTruly'  BY DEF OperationInv, Stages, RepliesTruly, Sends
<1>3. SuccessIsReal' /\ Honest' /\ SourceIsExtra'
  BY DEF OperationInv, SuccessIsReal, Honest, SourceIsExtra, Answered2xx, Executed, Sends
<1>4. NotFoundCauses'
  BY DEF OperationInv, NotFoundCauses, Unknown, Unconfigured, Quoted, LooksForWord
<1>5. Truthful'
  BY DEF OperationInv, Truthful, Answered2xx, Confirmed, Confirmation
<1> QED  BY <1>1, <1>2, <1>3, <1>4, <1>5 DEF OperationInv

LEMMA Inductive == OperationSpec => []OperationInv
<1>1. Request /\ Request' /\ OperationInv /\ [OperationNext]_allVars => OperationInv'
  <2> SUFFICES ASSUME Request, Request', OperationInv, [OperationNext]_allVars
               PROVE  OperationInv'
    OBVIOUS
  <2>1. TypeOK  BY DEF Request
  <2> QED
    BY <2>1, ValidateInv, PreparedInv, NotPreparedInv, WaitingInv, RepliedInv, CloseInv,
       LateInv, SendSourceInv, FinishInv, StutterInv DEF OperationNext, Work
<1>2. OperationSpec => []Request
  BY Simulation, OneCopyHolds, PTL DEF Request
<1> QED  BY InitInv, <1>1, <1>2, PTL DEF OperationSpec

-----------------------------------------------------------------------------
(* RemoteOperation.                                                        *)

(* What an operation does without executing, confirming or answering.      *)
Quiet == UNCHANGED <<Executions, Confirmed, Told>>

(* An operation is executed at most once, and one that was confirmed was   *)
(* executed - a search or a list at least once.                            *)
Counted ==
    /\ Executions \in {0, 1}
    /\ Confirmed => Executions = 1

(* The shared body and the single marking keep the count at most 1.        *)
LEMMA InvCounted == Request /\ OperationInv => Counted
<1> SUFFICES ASSUME Request, OperationInv  PROVE Counted
  OBVIOUS
<1>1. effects \in Nat /\ created \in Nat
  BY DEF Request, TypeOK, OperationInv, OperationTypeOK
<1>2. Executions \in {0, 1}
  <2>1. CASE ~Sends
    BY <1>1, <2>1 DEF Executions, Sends
  <2>2. CASE Sends /\ call = 1
    <3>1. body = "unread" \/ body = "read"
      BY <2>2 DEF OperationInv, Stages, Request, TypeOK
    <3>2. effects \in {0, 1}
      BY <1>1, <3>1 DEF Request, TypeOK, OneCopy
    <3> QED  BY <2>2, <3>2 DEF Executions, Executed, Sends
  <2>3. CASE Sends /\ call = 2
    BY <2>3 DEF OperationInv, SourceIsExtra, Executions, Executed, Sends
  <2> QED
    BY <2>1, <2>2, <2>3, KindFacts DEF OperationInv, OperationTypeOK, Stages
<1>3. ASSUME Confirmed  PROVE Executions = 1
  <2>1. CASE call = 2
    BY <2>1 DEF OperationInv, SourceIsExtra, Executions, Executed
  <2>2. CASE call = 1
    <3>1. effects >= 1
      BY <1>3, <2>2 DEF Confirmed, Confirmation, OperationInv, RepliesTruly
    <3>2. Executions # 0
      BY <1>1, <2>2, <3>1 DEF Executions, Executed
    <3> QED  BY <1>2, <3>2
  <2> QED  BY <2>1, <2>2 DEF OperationInv, Stages
<1> QED  BY <1>2, <1>3 DEF Counted

-----------------------------------------------------------------------------
(* Every step is one of RemoteOperation or a stutter.                      *)

(* Before the request nothing is confirmed, and the client is told of      *)
(* nothing but a failure.                                                  *)
LEMMA NothingSent ==
    ASSUME OperationInv, stage \in {"handler", "config"}
    PROVE  ~Confirmed
BY DEF OperationInv, Stages, Confirmed, Confirmation

LEMMA ValidateMaps ==
    ASSUME OperationInv, Validate
    PROVE  [Remote!Next]_Remote!vars
<1> USE DEF Validate, AnswerWith, vars, Executions, Executed, Confirmed, Confirmation
<1>1. ~Confirmed  BY NothingSent
<1>2. CASE request.complete
  <2>1. stage = "handler" /\ stage' = "config"  BY <1>2
  <2> QED  BY <1>2, <2>1 DEF Told, Remote!vars
<1>3. CASE ~request.complete
  <2>1. Told = "nothing" /\ Told' = "failure"
    BY <1>3 DEF Told, Answered2xx
  <2>2. Executions' = Executions /\ Confirmed' = Confirmed
    BY <1>3
  <2> QED  BY <1>1, <2>1, <2>2 DEF Remote!Next, Remote!Fail
<1> QED  BY <1>2, <1>3

LEMMA PreparedMaps ==
    ASSUME Prepared
    PROVE  Quiet
BY DEF Prepared, vars, Quiet, Executions, Executed, Confirmed, Confirmation, Told

LEMMA NotPreparedMaps ==
    ASSUME OperationInv, NotPrepared
    PROVE  [Remote!Next]_Remote!vars
<1>1. PICK f \in Failures : Fail(f.words)
  BY DEF NotPrepared
<1>2. stage' = "answered" /\ answer' \in {400, 404, 500}
  BY <1>1, Failed DEF OperationInv, OperationTypeOK
<1>3. stage = "config" /\ UNCHANGED <<vars, kind, request, reply, created>>
  BY DEF NotPrepared
<1>4. ~Confirmed  BY <1>3, NothingSent
<1>5. Told = "nothing" /\ Told' = "failure"
  BY <1>2, <1>3 DEF Told, Answered2xx
<1>6. Executions' = Executions /\ Confirmed' = Confirmed
  BY <1>3 DEF Executions, Executed, Confirmed, Confirmation, vars
<1> QED  BY <1>4, <1>5, <1>6 DEF Remote!Next, Remote!Fail

LEMMA WaitingMaps ==
    ASSUME OperationInv, Waiting
    PROVE  Quiet
<1>1. /\ UNCHANGED <<call, effects>> /\ UNCHANGED own
      /\ outcome' # "response"
  BY WaitingFacts DEF OperationInv
<1>2. outcome # "response"
  BY DEF Waiting, BackOff, Cancelled, ConnectTimesOut, AnswerTimesOut,
         ConnectionFails, Unauthorized, OperationInv, Stages
<1> QED
  BY <1>1, <1>2 DEF own, Quiet, Executions, Executed, Confirmed, Confirmation, Told,
                    Answered2xx

(* A reply is the first execution, the first confirmation, both or         *)
(* neither: only a search or a list can have been executed before.         *)
LEMMA RepliedMaps ==
    ASSUME TypeOK, OperationInv, Counted, Counted', Replied
    PROVE  [Remote!Next]_Remote!vars
<1>1. /\ stage = "call" /\ call' = call
      /\ UNCHANGED <<kind, request, stage, failure, created, answer>>
  BY RepliedFacts DEF OperationInv
<1>2. Told = "nothing" /\ Told' = "nothing"
  BY <1>1 DEF Told
<1>3. outcome # "response"
  BY DEF Replied, Answered, TruncatedRefused, OperationInv, Stages
<1>4. Executions \in {0, 1} /\ Executions' \in {0, 1}
  BY DEF Counted
<1>5. effects \in Nat /\ effects' \in {effects, effects + 1}
  BY DEF Replied, Answered, TruncatedRefused, TypeOK
<1>6. CASE call = 2
  BY <1>1, <1>2, <1>6 DEF Executions, Executed, Confirmed, Remote!vars
<1>7. CASE call = 1
  <2>1. ~Confirmed  BY <1>3, <1>7 DEF Confirmed, Confirmation
  <2>2. CASE Confirmed'
    <3>1. Executions' = 1  BY <2>2 DEF Counted
    <3> QED  BY <1>2, <1>4, <2>1, <2>2, <3>1 DEF Remote!Next, Remote!Confirm
  <2>3. CASE ~Confirmed'
    <3>1. Confirmed' = Confirmed
      BY <2>1, <2>3 DEF Confirmed
    <3>2. CASE Executions' = Executions
      BY <1>2, <3>1, <3>2 DEF Remote!vars
    <3>3. CASE Executions' # Executions
      <4>1. Executions = 0 /\ Executions' = 1
        BY <1>1, <1>4, <1>5, <1>7, <3>3 DEF Executions, Executed
      <4> QED  BY <1>2, <2>1, <3>1, <4>1 DEF Remote!Next, Remote!Execute
    <3> QED  BY <3>2, <3>3
  <2> QED  BY <2>2, <2>3 DEF Confirmed, Confirmation
<1> QED  BY <1>6, <1>7 DEF OperationInv, Stages

LEMMA CloseMaps ==
    ASSUME Close
    PROVE  Quiet
BY DEF Close, CloseBody, own, Quiet, Executions, Executed, Confirmed, Confirmation,
       Told

(* A late execution is the only one, and comes where nothing was confirmed *)
(* and no success was told - before the answer to the client or after it.  *)
LEMMA LateMaps ==
    ASSUME TypeOK, OperationInv, Counted, Counted', Late
    PROVE  [Remote!Next]_Remote!vars
<1>1. UNCHANGED own /\ UNCHANGED <<call, outcome>>
  BY DEF Late, LateExecution
<1>2. Told' = Told /\ Confirmed' = Confirmed
  BY <1>1 DEF own, Told, Answered2xx, Confirmed, Confirmation
<1>3. Executions \in {0, 1} /\ Executions' \in {0, 1}
  BY DEF Counted
<1>4. CASE Executions' = Executions
  BY <1>2, <1>4 DEF Remote!vars
<1>5. CASE Executions' # Executions
  <2>1. effects \in Nat /\ effects' = effects + 1
    BY DEF Late, LateExecution, TypeOK
  <2>2. kind' = kind /\ created' = created /\ call' = call
    BY <1>1 DEF own
  <2>3. call = 1
    BY <1>5, <2>2 DEF Executions, Executed, OperationInv, Stages
  <2>4. effects = 0 \/ Sends
    BY <1>5, <2>1, <2>2, <2>3 DEF Executions, Executed, Sends
  <2>5. Executions = effects /\ Executions' = effects'
    BY <2>1, <2>2, <2>3, <2>4 DEF Executions, Executed, Sends
  <2>6. Executions = 0 /\ Executions' = 1
    BY <1>3, <2>1, <2>5
  <2>7. ~Confirmed  BY <2>6 DEF Counted
  <2>8. Told # "success"
    <3>1. ASSUME Told = "success"  PROVE FALSE
      <4>1. stage = "answered" /\ Answered2xx  BY <3>1 DEF Told
      <4> QED  BY <4>1, <2>7 DEF OperationInv, Truthful
    <3> QED  BY <3>1
  <2> QED  BY <1>2, <2>6, <2>7, <2>8 DEF Remote!Next, Remote!Execute
<1> QED  BY <1>4, <1>5

(* The marking of the source starts from a confirmed contact and leaves it *)
(* confirmed and executed.                                                 *)
LEMMA SendSourceMaps ==
    ASSUME TypeOK, OperationInv, Counted, Counted', SendSource
    PROVE  Quiet
<1>1. UNCHANGED <<kind, stage, answer>>  BY DEF SendSource
<1>2. Confirmed
  BY AcceptedConfirmed DEF SendSource, OperationInv, Confirmed
<1>3. Confirmed'
  <2>1. call' = 2  BY DEF SendSource, NextCall
  <2> QED  BY <2>1 DEF Confirmed
<1>4. Executions = 1 /\ Executions' = 1
  BY <1>2, <1>3 DEF Counted
<1> QED  BY <1>1, <1>2, <1>3, <1>4 DEF Quiet, Told, Answered2xx

(* The client is told of a success if the operation was confirmed and of a *)
(* failure if not.                                                         *)
LEMMA FinishMaps ==
    ASSUME OperationInv, Finish
    PROVE  [Remote!Next]_Remote!vars
<1>1. OperationTypeOK /\ Stages /\ RepliesTruly
  BY DEF OperationInv
<1>2. /\ stage = "call" /\ stage' = "answered"
      /\ UNCHANGED <<vars, kind, request, failure, reply, created>>
      /\ \/ /\ call = 2 \/ Accepted
            /\ answer' \in {200, 201}
         \/ /\ call = 1 /\ ~Accepted
            /\ answer' \in {400, 404, 500}
  BY <1>1, FinishFacts
<1>3. Executions' = Executions /\ Confirmed' = Confirmed
  BY <1>2 DEF vars, Executions, Executed, Confirmed, Confirmation
<1>4. Told = "nothing"  BY <1>2 DEF Told
<1>5. CASE (call = 2 \/ Accepted) /\ answer' \in {200, 201}
  <2>1. Confirmed  BY <1>1, <1>5, AcceptedConfirmed DEF Confirmed
  <2>2. Told' = "success"  BY <1>2, <1>5 DEF Told, Answered2xx
  <2> QED  BY <1>3, <1>4, <2>1, <2>2 DEF Remote!Next, Remote!Succeed
<1>6. CASE call = 1 /\ ~Accepted /\ answer' \in {400, 404, 500}
  <2>1. ~Confirmed  BY <1>1, <1>6, AcceptedConfirmed DEF Confirmed
  <2>2. Told' = "failure"  BY <1>2, <1>6 DEF Told, Answered2xx
  <2> QED  BY <1>3, <1>4, <2>1, <2>2 DEF Remote!Next, Remote!Fail
<1> QED  BY <1>2, <1>5, <1>6

LEMMA NextMaps ==
    ASSUME TypeOK, OperationInv, Counted, Counted',
           [OperationNext]_allVars
    PROVE  [Remote!Next]_Remote!vars
<1>1. ASSUME Quiet  PROVE [Remote!Next]_Remote!vars
  BY <1>1 DEF Quiet, Remote!vars
<1>2. CASE UNCHANGED allVars
  BY <1>1, <1>2 DEF allVars, vars, own, Quiet, Executions, Executed, Confirmed,
                    Confirmation, Told, Answered2xx
<1>3. CASE Prepared \/ Waiting \/ Close \/ SendSource
  BY <1>1, <1>3, PreparedMaps, WaitingMaps, CloseMaps, SendSourceMaps
<1> QED
  BY <1>2, <1>3, ValidateMaps, NotPreparedMaps, RepliedMaps, LateMaps, FinishMaps
  DEF OperationNext, Work

-----------------------------------------------------------------------------
(* How long an operation can take.                                         *)

(* What is left of one request, counted in steps: an attempt and the wait  *)
(* before it for each retry, the response, the result.                     *)
RequestLeft ==
    CASE pc = "send"     -> 2 * (MaxRetries - attempt) + 3
      [] pc = "backoff"  -> 2 * (MaxRetries - attempt) + 4
      [] pc = "received" -> 2
      [] pc = "done"     -> 1

(* What is left of the operation: two steps before the first request, that *)
(* request, and a second one that may follow it.                           *)
StepsLeft ==
    IF stage = "answered" THEN 0
    ELSE (IF stage = "handler" THEN 2 ELSE IF stage = "config" THEN 1 ELSE 0)
         + (IF call = 1 THEN 2 * MaxRetries + 4 ELSE 0)
         + RequestLeft

LEMMA RequestLeftBounded ==
    ASSUME TypeOK
    PROVE  /\ RequestLeft \in Nat
           /\ RequestLeft >= 1
           /\ RequestLeft <= 2 * MaxRetries + 4
<1>1. MaxRetries \in Nat /\ attempt \in 0 .. MaxRetries
  BY RetryAssumption DEF TypeOK
<1> QED  BY <1>1 DEF TypeOK, RequestLeft

(* Every step of the loop brings the request nearer to its end, a retry    *)
(* too: it uses up an attempt.                                             *)
LEMMA RequestLess ==
    ASSUME TypeOK, TypeOK',
           Waiting \/ Answered \/ TruncatedRefused \/ CloseBody
    PROVE  /\ call' = call
           /\ RequestLeft' < RequestLeft
           /\ RequestLeft' \in Nat
<1>1. /\ MaxRetries \in Nat
      /\ attempt \in 0 .. MaxRetries /\ attempt' \in 0 .. MaxRetries
  BY RetryAssumption DEF TypeOK
<1>2. RequestLeft' \in Nat
  BY <1>1 DEF TypeOK, RequestLeft
<1>3. CASE BackOff
  BY <1>1, <1>2, <1>3 DEF BackOff, RequestLeft
<1>4. CASE Cancelled
  BY <1>1, <1>2, <1>4 DEF Cancelled, Return, RequestLeft
<1>5. ASSUME pc = "send", Retry
      PROVE  RequestLeft' < RequestLeft
  <2>1. CASE pc' = "backoff" /\ attempt' = attempt + 1
    BY <1>1, <1>2, <1>5, <2>1 DEF RequestLeft
  <2>2. CASE pc' = "done" /\ attempt' = attempt
    BY <1>1, <1>2, <1>5, <2>2 DEF RequestLeft
  <2> QED  BY <1>5, <2>1, <2>2 DEF Retry, Return
<1>6. CASE ConnectTimesOut
  BY <1>2, <1>5, <1>6 DEF ConnectTimesOut
<1>7. CASE AnswerTimesOut
  BY <1>2, <1>5, <1>7 DEF AnswerTimesOut
<1>8. CASE ConnectionFails
  BY <1>1, <1>2, <1>8 DEF ConnectionFails, Return, RequestLeft
<1>9. CASE Unauthorized
  BY <1>1, <1>2, <1>9 DEF Unauthorized, Return, RequestLeft
<1>10. CASE Answered
  BY <1>1, <1>2, <1>10 DEF Answered, RequestLeft
<1>11. CASE TruncatedRefused
  BY <1>1, <1>2, <1>11 DEF TruncatedRefused, RequestLeft
<1>12. CASE CloseBody
  BY <1>2, <1>12 DEF CloseBody, RequestLeft
<1> QED
  BY <1>3, <1>4, <1>6, <1>7, <1>8, <1>9, <1>10, <1>11, <1>12 DEF Waiting

LEMMA WorkLess ==
    ASSUME TypeOK, TypeOK', OperationInv, OperationInv', Work
    PROVE  StepsLeft' < StepsLeft
<1>1. MaxRetries \in Nat  BY RetryAssumption
<1>2. /\ RequestLeft \in Nat /\ RequestLeft >= 1
      /\ RequestLeft <= 2 * MaxRetries + 4
  BY RequestLeftBounded
<1>3. call \in {1, 2}  BY DEF OperationInv, Stages
<1>4. ASSUME stage' = "answered", stage # "answered"
      PROVE  StepsLeft' < StepsLeft
  <2>1. StepsLeft' = 0  BY <1>4 DEF StepsLeft
  <2>2. StepsLeft >= 1  BY <1>1, <1>2, <1>3, <1>4 DEF StepsLeft
  <2> QED  BY <2>1, <2>2, <1>1, <1>2, <1>3, <1>4 DEF StepsLeft
<1>5. CASE Validate
  <2>1. CASE request.complete
    <3>1. stage = "handler" /\ stage' = "config" /\ call' = call
      BY <1>5, <2>1 DEF Validate, vars
    <3>2. RequestLeft' = RequestLeft
      BY <1>5 DEF Validate, vars, RequestLeft
    <3> QED  BY <1>1, <1>2, <1>3, <3>1, <3>2 DEF StepsLeft
  <2>2. CASE ~request.complete
    BY <1>4, <1>5, <2>2 DEF Validate, AnswerWith
  <2> QED  BY <2>1, <2>2
<1>6. CASE Prepared
  <2>1. stage = "config" /\ stage' = "call" /\ call' = call
    BY <1>6 DEF Prepared, vars
  <2>2. RequestLeft' = RequestLeft
    BY <1>6 DEF Prepared, vars, RequestLeft
  <2> QED  BY <1>1, <1>2, <1>3, <2>1, <2>2 DEF StepsLeft
<1>7. CASE NotPrepared
  BY <1>4, <1>7 DEF NotPrepared, Fail, AnswerWith
<1>8. CASE Waiting \/ Replied \/ Close
  <2>1. stage = "call" /\ stage' = "call"
    BY <1>8 DEF Waiting, Replied, Close, own
  <2>2. Waiting \/ Answered \/ TruncatedRefused \/ CloseBody
    BY <1>8 DEF Replied, Close
  <2>3. call' = call /\ RequestLeft' < RequestLeft /\ RequestLeft' \in Nat
    BY <2>2, RequestLess
  <2>4. PICK w \in Nat : StepsLeft = w + RequestLeft /\ StepsLeft' = w + RequestLeft'
    <3>1. CASE call = 1
      <4>1. /\ StepsLeft = 0 + (2 * MaxRetries + 4) + RequestLeft
            /\ StepsLeft' = 0 + (2 * MaxRetries + 4) + RequestLeft'
        BY <2>1, <2>3, <3>1 DEF StepsLeft
      <4> QED  BY <1>1, <4>1
    <3>2. CASE call = 2
      <4>1. StepsLeft = 0 + 0 + RequestLeft /\ StepsLeft' = 0 + 0 + RequestLeft'
        BY <2>1, <2>3, <3>2 DEF StepsLeft
      <4> QED  BY <4>1
    <3> QED  BY <1>3, <3>1, <3>2
  <2>5. \A a, b, c \in Nat : b < a => c + b < c + a
    OBVIOUS
  <2>6. w + RequestLeft' < w + RequestLeft
    BY <1>2, <2>3, <2>5
  <2> QED  BY <2>4, <2>6
<1>9. CASE SendSource
  <2>1. /\ stage = "call" /\ stage' = "call"
        /\ call = 1 /\ call' = 2
        /\ pc' = "send" /\ attempt' = 0
    BY <1>9 DEF SendSource, NextCall
  <2>2. RequestLeft' = 2 * MaxRetries + 3
    BY <1>1, <2>1 DEF RequestLeft
  <2> QED  BY <1>1, <1>2, <2>1, <2>2 DEF StepsLeft
<1>10. CASE Finish
  <2>1. stage = "call" /\ stage' = "answered"
    BY <1>10, FinishFacts DEF OperationInv
  <2> QED  BY <1>4, <2>1
<1> QED  BY <1>5, <1>6, <1>7, <1>8, <1>9, <1>10 DEF Work

-----------------------------------------------------------------------------
(* The theorems.                                                           *)

(* The variables of an operation keep their types.                         *)
THEOREM OperationTypeCorrect == OperationSpec => []OperationTypeOK
<1>1. OperationInv => OperationTypeOK  BY DEF OperationInv
<1> QED  BY <1>1, Inductive, PTL

(* A client that is told of a success has exactly one contact, lead, note, *)
(* field or update in amoCRM.                                              *)
THEOREM SuccessReal == OperationSpec => []SuccessIsReal
<1>1. OperationInv => SuccessIsReal  BY DEF OperationInv
<1> QED  BY <1>1, Inductive, PTL

(* A complete confirmation is never turned into an error.                  *)
THEOREM FailureHonest == OperationSpec => []FailureIsHonest
<1>1. OperationInv => FailureIsHonest
  BY DEF OperationInv, Honest, FailureIsHonest, Sends
<1> QED  BY <1>1, Inductive, PTL

(* Only a confirmed contact is marked, and it is reported as created       *)
(* however the marking ends.                                               *)
THEOREM SourceExtra == OperationSpec => []SourceIsExtra
<1>1. OperationInv => SourceIsExtra  BY DEF OperationInv
<1> QED  BY <1>1, Inductive, PTL

(* An operation on a lead or a talk is answered 404 for the causes that    *)
(* NotFoundCauses names and for no other.                                  *)
THEOREM NotFoundCaused == OperationSpec => []NotFoundCauses
<1>1. OperationInv => NotFoundCauses  BY DEF OperationInv
<1> QED  BY <1>1, Inductive, PTL
(* Handler, service, provider and retry loop together are one operation of *)
(* RemoteOperation: executed at most once, confirmed at most once and never *)
(* unconfirmed, and answered as it was confirmed.                          *)
THEOREM RemoteRefined == OperationSpec => RemoteSpec
<1>1. OperationInit => Remote!Init
  BY DEF OperationInit, Init, NoReply, Reply, Remote!Init, Executions, Executed, Confirmed,
         Confirmation, Told
<1>2. OperationSpec => []Request
  BY Simulation, OneCopyHolds, PTL DEF Request
<1>3. TypeOK /\ OperationInv /\ Counted /\ Counted' /\ [OperationNext]_allVars
      => [Remote!Next]_Remote!vars
  BY NextMaps
<1>4. Request => TypeOK  BY DEF Request
<1> QED
  BY <1>1, <1>2, <1>3, <1>4, Inductive, InvCounted, PTL DEF OperationSpec, RemoteSpec, Remote!Spec

(* An operation takes at most 4 * MaxRetries + 9 steps, each of which      *)
(* brings it nearer to its answer: no retry, no second request and no late *)
(* execution can keep the client waiting forever.                          *)
THEOREM EveryStepCounts ==
    /\ OperationInit => StepsLeft = 4 * MaxRetries + 9
    /\ OperationSpec => []((StepsLeft \in Nat) /\ (stage # "answered" => StepsLeft > 0))
    /\ OperationSpec => [][IF Work THEN StepsLeft' < StepsLeft
                                   ELSE StepsLeft' = StepsLeft]_allVars
<1>1. OperationInit => StepsLeft = 4 * MaxRetries + 9
  BY RetryAssumption DEF OperationInit, Init, StepsLeft, RequestLeft
<1>2. TypeOK /\ OperationInv
      => StepsLeft \in Nat /\ (stage # "answered" => StepsLeft > 0)
  <2> SUFFICES ASSUME TypeOK, OperationInv
               PROVE  StepsLeft \in Nat /\ (stage # "answered" => StepsLeft > 0)
    OBVIOUS
  <2>1. MaxRetries \in Nat  BY RetryAssumption
  <2>2. RequestLeft \in Nat /\ RequestLeft >= 1  BY RequestLeftBounded
  <2>3. call \in {1, 2}  BY DEF OperationInv, Stages
  <2> QED  BY <2>1, <2>2, <2>3 DEF StepsLeft
<1>3. TypeOK /\ TypeOK' /\ OperationInv /\ OperationInv' /\ [OperationNext]_allVars
      => [IF Work THEN StepsLeft' < StepsLeft ELSE StepsLeft' = StepsLeft]_allVars
  <2> SUFFICES ASSUME TypeOK, TypeOK', OperationInv, OperationInv', OperationNext
               PROVE  IF Work THEN StepsLeft' < StepsLeft ELSE StepsLeft' = StepsLeft
    OBVIOUS
  <2>1. CASE Work
    BY <2>1, WorkLess
  <2>2. CASE ~Work
    <3>1. Late  BY <2>2 DEF OperationNext
    <3>2. UNCHANGED <<stage, call, pc, attempt>>
      BY <3>1 DEF Late, LateExecution, own
    <3> QED  BY <2>2, <3>2 DEF StepsLeft, RequestLeft
  <2> QED  BY <2>1, <2>2
<1>4. OperationSpec => []Request
  BY Simulation, OneCopyHolds, PTL DEF Request
<1>5. Request => TypeOK  BY DEF Request
<1> QED  BY <1>1, <1>2, <1>3, <1>4, <1>5, Inductive, PTL DEF OperationSpec

=============================================================================
