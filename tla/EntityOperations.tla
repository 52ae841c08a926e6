--------------------------- MODULE EntityOperations ---------------------------
(***************************************************************************)
(* One operation on a contact, a lead, a note, a talk, a pipeline or a     *)
(* custom field, from the HTTP handler to the answer of the client: the    *)
(* handler checks the request, CRMService gets configuration and provider, *)
(* the provider sends its request through DoRequestWithRetry (HttpRetry)   *)
(* and reads what amoCRM replied, the handler turns the result into a      *)
(* status.  TokenLifecycle has what happens to the token on the way, of    *)
(* which only the outcome is kept here.                                    *)
(***************************************************************************)
EXTENDS HttpRetry

(* Handlers recognise an error by words in its text: those of leads look   *)
(* for "ne nayden" (not found), that of talks for "ne naydena".  Whoever   *)
(* writes the second has also written the first.  Of a text only this is   *)
(* kept, be it of this program or of amoCRM, whose replies are quoted.     *)
NotFound     == {"ne nayden"}
NotFoundFem  == {"ne nayden", "ne naydena"}
Texts        == {{}, NotFound, NotFoundFem}

(* What a method of the provider does: whether its request has a body,     *)
(* which statuses it takes for success, whether the reply must contain an  *)
(* entity, and the words of its error when amoCRM replies 404.             *)
Method(sends, accepts, needsEntity, missing) ==
    [sends |-> sends, accepts |-> accepts, needsEntity |-> needsEntity,
     missing |-> missing]

FindContactByPhone      == Method(FALSE, {200}, TRUE, {})
FindContactByAltContact == Method(FALSE, {200}, TRUE, {})
CreateContact           == Method(TRUE, {200, 201}, TRUE, {})
GetContact              == Method(FALSE, {200}, FALSE, NotFound)
UpdateContact           == Method(TRUE, {200}, TRUE, {})
GetCustomFields         == Method(FALSE, {200}, FALSE, {})
CreateCustomField       == Method(TRUE, {200, 201}, FALSE, {})
UpdateLead              == Method(TRUE, {200}, TRUE, {})
GetLead                 == Method(FALSE, {200}, FALSE, NotFound)
GetLeadsByContactID     == Method(FALSE, {200}, FALSE, NotFound)
CreateAIDialogLead      == Method(TRUE, {200, 201}, TRUE, {})

(* Defect: only the usual status of a creation is taken for success.       *)
CreateLeadNoteStrict    == Method(TRUE, {201}, TRUE, {})

CreateLeadNote          == Method(TRUE, {200, 201}, TRUE, {})
GetTalk                 == Method(FALSE, {200}, FALSE, NotFoundFem)
GetPipelines            == Method(FALSE, {200}, FALSE, {})

(* What may be wrong before the request to amoCRM, with the words of the   *)
(* error.  Any error of the first read of the configuration, missing row   *)
(* or not, is wrapped as "configuration not found", and so is that of the  *)
(* read in RefreshAmoCRMToken; the last read says "not found" only of a    *)
(* missing row; a refused refresh quotes the body of amoCRM's refusal;     *)
(* everything else has none of the words.                                  *)
Failure(cause, words) == [cause |-> cause, words |-> words]

NoFailure == Failure("none", {})

Failures == {Failure("unread", NotFoundFem), Failure("gone", NotFound),
             Failure("other", {})}
            \cup {Failure("refused", words) : words \in Texts}

(* What a handler does: the status of a failure, that of success, and the  *)
(* words that make it answer 404 instead.                                  *)
Handler(fails, done, looksFor) ==
    [fails |-> fails, done |-> done, looksFor |-> looksFor]

HandleFindContact     == Handler(400, 200, {})
HandleCreateContact   == Handler(500, 201, {})
HandleGetContact      == Handler(404, 200, {})
HandleUpdateContact   == Handler(500, 200, {})
HandleGetFields       == Handler(500, 200, {})
HandleCreateField     == Handler(500, 201, {})
HandleConfigFields    == Handler(500, 200, {})
HandleConfigField     == Handler(500, 201, {})
HandleUpdateLead      == Handler(500, 200, {"ne nayden"})

(* Defect: every error of the service is answered 404.                     *)
HandleGetLeadAny      == Handler(404, 200, {})

HandleGetLead         == Handler(500, 200, {"ne nayden"})
HandleLeadsByContact  == Handler(500, 200, {})
HandleAIDialogLead    == Handler(500, 201, {})
HandleCreateLeadNote  == Handler(500, 201, {})
HandleGetTalk         == Handler(500, 200, {"ne naydena"})
HandleGetPipelines    == Handler(500, 200, {})

(* Each operation of the service: the method and the handler it is called  *)
(* from.                                                                   *)
Operation ==
    [findContactByPhone  |-> [api |-> FindContactByPhone,  http |-> HandleFindContact],
     findContactByAlt    |-> [api |-> FindContactByAltContact, http |-> HandleFindContact],
     createContact       |-> [api |-> CreateContact,       http |-> HandleCreateContact],
     getContact          |-> [api |-> GetContact,          http |-> HandleGetContact],
     updateContact       |-> [api |-> UpdateContact,       http |-> HandleUpdateContact],
     getCustomFields     |-> [api |-> GetCustomFields,     http |-> HandleGetFields],
     createCustomField   |-> [api |-> CreateCustomField,   http |-> HandleCreateField],
     updateLead          |-> [api |-> UpdateLead,          http |-> HandleUpdateLead],
     getConfigFields     |-> [api |-> GetCustomFields,     http |-> HandleConfigFields],
     createConfigField   |-> [api |-> CreateCustomField,   http |-> HandleConfigField],
     getLead             |-> [api |-> GetLead,             http |-> HandleGetLead],
     getLeadsByContact   |-> [api |-> GetLeadsByContactID, http |-> HandleLeadsByContact],
     createAIDialogLead  |-> [api |-> CreateAIDialogLead,  http |-> HandleAIDialogLead],
     createLeadNote      |-> [api |-> CreateLeadNote,      http |-> HandleCreateLeadNote],
     getTalk             |-> [api |-> GetTalk,             http |-> HandleGetTalk],
     getPipelines        |-> [api |-> GetPipelines,        http |-> HandleGetPipelines]]

Kinds == DOMAIN Operation

(* Operations whose handler may find the request incomplete, and those     *)
(* that the service or the provider may refuse to send: an invalid phone   *)
(* number, an identifier that is no number, lead settings never made.      *)
Checked     == {"findContactByPhone", "findContactByAlt", "createContact",
                "updateContact", "createCustomField", "createConfigField",
                "createAIDialogLead", "createLeadNote"}
Conditional == {"findContactByPhone", "updateLead", "createAIDialogLead",
                "createLeadNote"}

VARIABLES
    kind,     (* the operation                                             *)
    request,  (* what matters of the client's request and the settings     *)
    stage,    (* how far it has got                                        *)
    failure,  (* what went wrong before the request to amoCRM, if anything *)
    reply,    (* what amoCRM replied to the request in HttpRetry           *)
    created,  (* contacts amoCRM has created for createContact             *)
    answer    (* the status for the client, 0 before                       *)

own  == <<kind, request, stage, failure, reply, created, answer>>
allVars == <<vars, own>>

Reply(status, contents, words) ==
    [status |-> status, body |-> contents, words |-> words]

NoReply == Reply(0, "none", {})

OperationTypeOK ==
    /\ kind \in Kinds
    /\ request \in [complete : BOOLEAN, usable : BOOLEAN,
                    tagged : BOOLEAN, source : BOOLEAN]
    /\ stage \in {"handler", "config", "call", "answered"}
    /\ failure \in Failures \cup {NoFailure}
    /\ reply \in [status : {0, 200, 201, 204, 400, 404, 502},
                  body : {"none", "entity", "empty", "unreadable"},
                  words : Texts]
    /\ created \in Nat
    /\ answer \in {0, 200, 201, 400, 404, 500}

OperationInit ==
    /\ Init
    /\ kind \in Kinds
    /\ body = IF Operation[kind].api.sends THEN "unread" ELSE "none"
    /\ request \in [complete : BOOLEAN, usable : BOOLEAN,
                    tagged : BOOLEAN, source : BOOLEAN]
    /\ ~request.complete => kind \in Checked
    /\ ~request.usable => kind \in Conditional
    /\ request.tagged \/ request.source => kind = "createContact"
    /\ stage = "handler"
    /\ failure = NoFailure
    /\ reply = NoReply
    /\ created = 0
    /\ answer = 0

-----------------------------------------------------------------------------
(* Helpers.                                                                *)

AnswerWith(status) ==
    /\ stage' = "answered"
    /\ answer' = status

(* Defect: the status of amoCRM's reply is passed on to the client.        *)
FailPassedOn(words) == AnswerWith(reply.status)

(* A handler whose operation failed with these words in the error.         *)
Fail(words) ==
    LET http == Operation[kind].http
    IN  AnswerWith(IF http.looksFor \cap words # {} THEN 404 ELSE http.fails)

Succeed == AnswerWith(Operation[kind].http.done)

(* Defect: the status of a reply is not looked at.                         *)
AcceptedAnyStatus ==
    /\ outcome = "response"
    /\ reply.body # "unreadable"

(* Whether the provider takes the reply for a success.                     *)
Accepted ==
    LET api == Operation[kind].api
    IN  /\ outcome = "response"
        /\ reply.status \in api.accepts
        /\ reply.body # "unreadable"
        /\ api.needsEntity => reply.body = "entity"

(* The words in the provider's error: its own for a 404, if it has some,   *)
(* otherwise whatever the body of the refusal contains, since the error    *)
(* quotes it.  Without a body there are none.                              *)
ErrorWords ==
    LET missing == Operation[kind].api.missing
    IN  IF outcome # "response" \/ reply.body = "unreadable" THEN {}
        ELSE IF reply.status = 404 /\ missing # {} THEN missing
        ELSE reply.words

(* The operations that amoCRM may confirm as a creation.                   *)
Creations == {"createContact", "createCustomField", "createConfigField",
              "createAIDialogLead", "createLeadNote"}

(* What amoCRM may reply: what it has executed it confirms with the        *)
(* entity, though the reply may be cut off or come without the entity; a   *)
(* search or a list may be empty.  A request it has not executed it        *)
(* refuses, with any text, and so may a gateway whatever has become of the *)
(* request.  The text of a refusal may be cut off, too.                    *)
Confirmations ==
    [status : IF kind \in Creations THEN {200, 201} ELSE {200},
     body : {"entity", "empty", "unreadable"}, words : {{}}]

Refusals(statuses) ==
    [status : statuses, body : {"none"}, words : Texts]
    \cup [status : statuses, body : {"unreadable"}, words : {{}}]

Replies(executed) ==
    IF ~executed THEN Refusals({400, 404, 502})
    ELSE Confirmations \cup (IF Operation[kind].api.sends THEN Refusals({502})
                             ELSE {Reply(204, "none", {})})

-----------------------------------------------------------------------------
(* The steps before the request to amoCRM.                                 *)

(* The handler checks the request.                                         *)
Validate ==
    /\ stage = "handler"
    /\ IF request.complete
       THEN stage' = "config" /\ UNCHANGED answer
       ELSE AnswerWith(400)
    /\ UNCHANGED <<vars, kind, request, failure, reply, created>>

(* ensureValidTokenByType, GetOrCreateProvider and the conditions of the   *)
(* service and of the provider.                                            *)
Prepared ==
    /\ stage = "config" /\ request.usable
    /\ stage' = "call"
    /\ UNCHANGED <<vars, kind, request, failure, reply, created, answer>>

(* One of them fails.                                                      *)
NotPrepared ==
    /\ stage = "config"
    /\ \E f \in Failures :
          /\ failure' = f
          /\ Fail(f.words)
    /\ UNCHANGED <<vars, kind, request, reply, created>>

-----------------------------------------------------------------------------
(* The request.                                                            *)

(* The loop of DoRequestWithRetry without an answer.                       *)
Waiting ==
    /\ stage = "call"
    /\ \/ BackOff
       \/ Cancelled
       \/ ConnectTimesOut
       \/ AnswerTimesOut
       \/ ConnectionFails
       \/ Unauthorized
    /\ UNCHANGED own

Replied ==
    /\ stage = "call"
    /\ \/ /\ Answered
          /\ reply' \in Replies(effects' = effects + 1)
       \/ /\ TruncatedRefused
          /\ \E words \in Texts : reply' = Reply(400, "none", words)
    /\ UNCHANGED <<kind, request, stage, failure, created, answer>>

Close ==
    /\ stage = "call"
    /\ CloseBody
    /\ UNCHANGED own

(* amoCRM executes a request nobody waits for any more.                    *)
Late ==
    /\ LateExecution
    /\ UNCHANGED own

(* A contact tagged "MarusiaAI" gets its source by a second request, if    *)
(* the provider knows the field.                                           *)
MarkSource == kind = "createContact" /\ request.tagged

SendSource ==
    /\ stage = "call" /\ call = 1
    /\ Accepted
    /\ MarkSource /\ request.source
    /\ NextCall
    /\ body' = "unread"
    /\ created' = effects
    /\ reply' = NoReply
    /\ UNCHANGED <<kind, request, stage, failure, answer>>

(* Defect: the error of SetMarusiaSource is returned to the client.        *)
FinishStrictly ==
    /\ stage = "call" /\ pc = "done"
    /\ IF Accepted
       THEN (call = 1 /\ MarkSource => ~request.source) /\ Succeed
       ELSE Fail(ErrorWords)
    /\ UNCHANGED <<vars, kind, request, failure, reply, created>>

(* Defect: an operation whose result cannot be used is not answered.       *)
FinishAccepted ==
    /\ stage = "call" /\ pc = "done"
    /\ Accepted \/ call = 2
    /\ (call = 1 /\ MarkSource => ~request.source) /\ Succeed
    /\ UNCHANGED <<vars, kind, request, failure, reply, created>>

(* The result goes back to the client.  Whether the source could be marked *)
(* is only logged.                                                         *)
Finish ==
    /\ stage = "call" /\ pc = "done"
    /\ IF call = 1
       THEN IF Accepted
            THEN (MarkSource => ~request.source) /\ Succeed
            ELSE Fail(ErrorWords)
       ELSE Succeed
    /\ UNCHANGED <<vars, kind, request, failure, reply, created>>

Work ==
    \/ Validate
    \/ Prepared
    \/ NotPrepared
    \/ Waiting
    \/ Replied
    \/ Close
    \/ SendSource
    \/ Finish

OperationNext == Work \/ Late

OperationSpec == OperationInit /\ [][OperationNext]_allVars

(* The goroutine of the request goes on: every attempt has a timeout.      *)
FairOperationSpec == OperationSpec /\ WF_allVars(Work)

-----------------------------------------------------------------------------
(* Properties.                                                             *)

(* How often amoCRM has executed the operation itself, the marking of the  *)
(* source not counted.                                                     *)
Executed == IF call = 1 THEN effects ELSE created

Answered2xx == answer \in {200, 201}

(* A client that is told of a success has exactly one contact, lead, note, *)
(* field or update in amoCRM: the retries have not made a second one, and  *)
(* no refusal is taken for a success.                                      *)
SuccessIsReal ==
    Answered2xx /\ Operation[kind].api.sends => Executed = 1

(* A client that is told of a failure although amoCRM has executed or may  *)
(* still execute the operation is told so because there was no reply at    *)
(* all or an unusable one.  A complete confirmation is never turned into   *)
(* an error, which the client would answer with a second contact.          *)
FailureIsHonest ==
    /\ stage = "answered" /\ ~Answered2xx
    /\ Operation[kind].api.sends
    /\ Executed + inflight > 0
    => \/ outcome # "response"
       \/ reply.status >= 300
       \/ reply.body # "entity"

(* Marking the source is an extra: only a contact amoCRM has confirmed is  *)
(* marked, and a contact that exists is reported as created however the    *)
(* marking ends.                                                           *)
SourceIsExtra ==
    call = 2 => /\ kind = "createContact" /\ created = 1
                /\ stage = "answered" => answer = 201

(* What a handler looks for, and the reasons it can find it.               *)
LooksForWord == IF kind = "getTalk" THEN "ne naydena" ELSE "ne nayden"

Unknown ==
    /\ kind \in {"getLead", "getTalk"}
    /\ outcome = "response" /\ reply.status = 404 /\ reply.body # "unreadable"

Unconfigured ==
    failure.cause = "unread" \/ (failure.cause = "gone" /\ kind # "getTalk")

Quoted ==
    \/ failure.cause = "refused" /\ LooksForWord \in failure.words
    \/ outcome = "response" /\ LooksForWord \in reply.words

(* For leads and talks, what is answered 404: an entity that amoCRM does   *)
(* not know - for an update only if amoCRM says so in the handler's own    *)
(* words -, a configuration that could not be read, for whatever reason,   *)
(* or is gone, and any refusal, of the request or of a refresh of the      *)
(* token, whose text contains the words.  Nothing else is; above all not a *)
(* call that amoCRM has not answered.  Of the other handlers only that of  *)
(* a contact answers 404.                                                  *)
NotFoundCauses ==
    stage = "answered" =>
        IF kind \in {"updateLead", "getLead", "getTalk"}
        THEN answer = 404 <=> Unknown \/ Unconfigured \/ Quoted
        ELSE answer = 404 => kind = "getContact"

(* Every operation is answered, whatever amoCRM and the network do.        *)
OperationEnds == <>(stage = "answered")

(* What is left of an operation without its requests: how often amoCRM has *)
(* executed it - of a search or a list, which may be repeated, only        *)
(* whether -, whether a complete confirmation has arrived, whatever the    *)
(* provider makes of it, and what the client knows.                        *)
Executions ==
    IF Operation[kind].api.sends \/ Executed = 0 THEN Executed ELSE 1

Confirmation ==
    /\ outcome = "response"
    /\ reply.status \in {200, 201}
    /\ reply.body # "unreadable"
    /\ Operation[kind].api.needsEntity => reply.body = "entity"

Confirmed == Confirmation \/ call = 2

Told ==
    IF stage # "answered" THEN "nothing"
    ELSE IF Answered2xx THEN "success" ELSE "failure"

Remote == INSTANCE RemoteOperation WITH executed <- Executions,
                                        confirmed <- Confirmed,
                                        told <- Told

(* Handler, service, provider and retry loop together do no more than one  *)
(* operation of RemoteOperation: one execution, wherever it comes in the   *)
(* order of attempts, confirmations and answers; one confirmation, never   *)
(* taken back by the marking of the source; one answer, which agrees with  *)
(* it.  Only an operation that was not confirmed, and whose client was not *)
(* told of a success, may still be executed.                               *)
RemoteSpec == Remote!Spec
=============================================================================
