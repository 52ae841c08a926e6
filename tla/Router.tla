--------------------------------- MODULE Router --------------------------------
(***************************************************************************)
(* The routes of the HTTP server (Server.Handler in server.go) and the way *)
(* Fiber dispatches a request: it walks through the stack in the order of  *)
(* registration; a middleware of a matching prefix answers or calls Next,  *)
(* the first route that matches answers.                                   *)
(***************************************************************************)
EXTENDS Naturals, Sequences

CONSTANTS
    Values,    (* what a client may put in the place of a parameter         *)
    Headers    (* X-User-ID: subset of {"missing", "malformed", "zero",     *)
               (*   "valid"}                                                *)

(* A parameter of a pattern, as in /configs/:crm_type.                     *)
Param == ":"

Route(method, pattern, handler) ==
    [method |-> method, pattern |-> pattern, handler |-> handler]

(* A group's middleware that looks at the header X-User-ID.                *)
UserID(prefix) == Route("use", prefix, "extractUserID")

-----------------------------------------------------------------------------
(* The stack.                                                              *)

(* The closure routes of Server.Handler, relative to its group.            *)
ConfigRoutes == <<
    Route("GET",    <<"configs">>, "GetCRMConfigs"),
    Route("GET",    <<"configs", Param>>, "GetCRMConfigByType"),
    Route("POST",   <<"configs", Param>>, "SaveCRMConfig"),
    Route("POST",   <<"configs", Param, "active">>, "SetCRMConfigActive"),
    Route("GET",    <<"configs", Param, "custom-fields">>, "GetCustomFields"),
    Route("POST",   <<"configs", Param, "custom-fields">>, "CreateCustomField"),
    Route("POST",   <<"configs", Param, "marusia-source-field">>, "SetMarusiaSourceFieldID"),
    Route("POST",   <<"configs", Param, "default-lead-settings">>, "SetDefaultLeadSettings"),
    Route("GET",    <<"configs", Param, "channels">>, "GetChannelSettings"),
    Route("POST",   <<"configs", Param, "channels">>, "SetChannelSettings"),
    Route("DELETE", <<"configs", Param>>, "DeleteCRMConfigByType"),
    Route("GET",    <<"configs", Param, "test">>, "TestConnectionByType") >>

LeadRoutes == <<
    Route("POST",  <<"leads">>, "CreateLead"),
    Route("POST",  <<"leads", Param, "ai-dialog", Param>>, "CreateAIDialogLead"),
    Route("GET",   <<"leads", Param, "by-contact", Param>>, "GetLeadsByContactID"),
    Route("PATCH", <<"leads", Param, Param>>, "UpdateLead"),
    Route("GET",   <<"leads", Param, Param>>, "GetLead"),
    Route("POST",  <<"leads", Param, Param, "notes">>, "CreateLeadNote"),
    Route("GET",   <<"pipelines", Param>>, "GetPipelines"),
    Route("GET",   <<"talks", Param, Param>>, "GetTalk") >>

(* Here the handlers of the custom fields are those of contactHandler.     *)
ContactRoutes == <<
    Route("GET",   <<"contacts", Param, "custom-fields">>, "GetContactCustomFields"),
    Route("POST",  <<"contacts", Param, "custom-fields">>, "CreateContactCustomField"),
    Route("POST",  <<"contacts", Param>>, "CreateContact"),
    Route("GET",   <<"contacts", Param, Param>>, "GetContact"),
    Route("PATCH", <<"contacts", Param, Param>>, "UpdateContact"),
    Route("GET",   <<"contacts", Param, "search">>, "FindContactByPhone"),
    Route("GET",   <<"contacts", Param, "search-by-alt">>, "FindContactByAltContact") >>

Routes == ConfigRoutes \o LeadRoutes \o ContactRoutes

At(prefix, routes) ==
    [i \in DOMAIN routes |-> [routes[i] EXCEPT !.pattern = prefix \o @]]

CrmPrefix == <<"v1", "crm">>
ApiPrefix == CrmPrefix \o <<"api">>

PublicRoutes == <<
    Route("GET", <<"health">>, "health"),
    Route("GET", <<"metrics">>, "metrics"),
    Route("GET", CrmPrefix \o <<"health">>, "health") >>

CallbackRoutes == <<
    Route("GET", CrmPrefix \o <<"oauth", "amocrm", "callback">>, "AmoCRMCallback"),
    Route("GET", <<"oauth", "amocrm", "callback">>, "AmoCRMCallback") >>

(* An /oauth group, real or mock: its middleware and two routes.           *)
OAuthGroup(prefix, auth, refresh) == <<
    UserID(prefix),
    Route("POST", prefix \o <<"amocrm", "auth">>, auth),
    Route("POST", prefix \o <<"amocrm", "refresh">>, refresh) >>

OAuthRoutes ==
       OAuthGroup(CrmPrefix \o <<"oauth">>, "AmoCRMAuth", "AmoCRMRefreshToken")
    \o OAuthGroup(<<"oauth">>, "AmoCRMAuth", "AmoCRMRefreshToken")
    \o OAuthGroup(CrmPrefix \o <<"mock", "oauth">>, "MockAmoCRMAuth", "MockAmoCRMRefreshToken")
    \o OAuthGroup(<<"mock", "oauth">>, "MockAmoCRMAuth", "MockAmoCRMRefreshToken")

(* Defect: the legacy middleware is registered after the legacy routes.    *)
LateMiddlewareStack ==
    PublicRoutes \o <<UserID(ApiPrefix)>> \o At(ApiPrefix, Routes)
    \o At(<<>>, Routes) \o <<UserID(<<>>)>> \o CallbackRoutes \o OAuthRoutes

(* Defect: the legacy group gets the configurations and leads only.        *)
PartialLegacyStack ==
    PublicRoutes \o <<UserID(ApiPrefix), UserID(<<>>)>> \o At(ApiPrefix, Routes)
    \o At(<<>>, ConfigRoutes \o LeadRoutes) \o CallbackRoutes \o OAuthRoutes

(* Defect: the public routes are registered after the middlewares.         *)
LatePublicStack ==
    <<UserID(ApiPrefix), UserID(<<>>)>> \o PublicRoutes \o At(ApiPrefix, Routes)
    \o At(<<>>, Routes) \o CallbackRoutes \o OAuthRoutes

(* The order in which Server.Handler registers them.                       *)
Stack ==
    PublicRoutes \o <<UserID(ApiPrefix), UserID(<<>>)>> \o At(ApiPrefix, Routes)
    \o At(<<>>, Routes) \o CallbackRoutes \o OAuthRoutes

-----------------------------------------------------------------------------
(* Dispatch.                                                               *)

VARIABLES
    request,   (* [method, path, user]: a request with its header           *)
    position,  (* Fiber's place in the stack                                *)
    user,      (* Locals("user_id") is set                                  *)
    answer     (* the handler that answered, "400", "401" or "404"; "none"  *)
               (*   before                                                  *)

vars == <<request, position, user, answer>>

(* A path for a pattern, and all of them.                                  *)
Path(pattern, fill) ==
    [i \in DOMAIN pattern |-> IF pattern[i] = Param THEN fill[i] ELSE pattern[i]]

PathsOf(pattern) ==
    {Path(pattern, fill) :
        fill \in [{i \in DOMAIN pattern : pattern[i] = Param} -> Values]}

Paths == UNION {PathsOf(Stack[i].pattern) : i \in DOMAIN Stack}

Requests ==
    [method : {"GET", "POST", "PATCH", "DELETE"}, path : Paths, user : Headers]

HasPrefix(path, prefix) ==
    /\ Len(prefix) <= Len(path)
    /\ \A i \in DOMAIN prefix : prefix[i] = path[i]

(* A parameter stands for one segment, whatever it is.                     *)
Fits(path, pattern) ==
    /\ Len(path) = Len(pattern)
    /\ \A i \in DOMAIN path : pattern[i] \in {Param, path[i]}

Matches(route, r) ==
    IF route.method = "use" THEN HasPrefix(r.path, route.pattern)
    ELSE route.method = r.method /\ Fits(r.path, route.pattern)

Handlers == {Stack[i].handler : i \in DOMAIN Stack} \ {"extractUserID"}

TypeOK ==
    /\ request \in Requests
    /\ position \in 1 .. Len(Stack) + 1
    /\ user \in BOOLEAN
    /\ answer \in Handlers \cup {"none", "400", "401", "404"}

Init ==
    /\ request \in Requests
    /\ position = 1
    /\ user = FALSE
    /\ answer = "none"

Current == Stack[position]

(* Fiber looks for the next entry that matches.                            *)
Skip ==
    /\ answer = "none" /\ position <= Len(Stack)
    /\ ~Matches(Current, request)
    /\ position' = position + 1
    /\ UNCHANGED <<request, user, answer>>

(* extractUserID: the header is an unsigned number of 32 bits, not 0.      *)
Identify ==
    /\ answer = "none" /\ position <= Len(Stack)
    /\ Matches(Current, request) /\ Current.method = "use"
    /\ request.user = "valid"
    /\ user' = TRUE
    /\ position' = position + 1
    /\ UNCHANGED <<request, answer>>

Reject ==
    /\ answer = "none" /\ position <= Len(Stack)
    /\ Matches(Current, request) /\ Current.method = "use"
    /\ request.user # "valid"
    /\ answer' = IF request.user = "missing" THEN "401" ELSE "400"
    /\ UNCHANGED <<request, position, user>>

(* Defect: a middleware answers the request itself.                        *)
AnswerAnyway ==
    /\ answer = "none" /\ position <= Len(Stack)
    /\ Matches(Current, request)
    /\ answer' = Current.handler
    /\ UNCHANGED <<request, position, user>>

(* A handler answers and does not call Next.                               *)
Answer ==
    /\ answer = "none" /\ position <= Len(Stack)
    /\ Matches(Current, request) /\ Current.method # "use"
    /\ answer' = Current.handler
    /\ UNCHANGED <<request, position, user>>

NotFound ==
    /\ answer = "none" /\ position > Len(Stack)
    /\ answer' = "404"
    /\ UNCHANGED <<request, position, user>>

Next == Skip \/ Identify \/ Reject \/ Answer \/ NotFound

Spec == Init /\ [][Next]_vars

-----------------------------------------------------------------------------
(* Properties.                                                             *)

Public == {"health", "metrics", "AmoCRMCallback"}

(* Every handler that asks for the user finds one: no route but the public *)
(* ones answers a request without a valid X-User-ID.                       *)
HandlersHaveUser ==
    answer \in Handlers \ Public => user /\ request.user = "valid"

(* The handler that answers a request with a valid header, if any.         *)
FirstFit(method, path) ==
    LET fits == {i \in DOMAIN Stack : Stack[i].method = method /\ Fits(path, Stack[i].pattern)}
    IN  IF fits = {} THEN "404"
        ELSE Stack[CHOOSE i \in fits : \A j \in fits : i <= j].handler

(* A path without the prefix /v1/crm/api gets the answer of the path with  *)
(* it (README: legacy routes are retained for compatibility), although     *)
(* other routes are registered before, between and after the two groups.   *)
LegacyLikeNew ==
    /\ answer \notin {"none", "400", "401"}
    /\ HasPrefix(request.path, ApiPrefix)
    => answer = FirstFit(request.method,
                         SubSeq(request.path, Len(ApiPrefix) + 1, Len(request.path)))

(* The route that is documented to answer r: it writes out the last        *)
(* segment of the path, and it is public or the header is valid.           *)
Documented(i, r) ==
    /\ Stack[i].method = r.method /\ Fits(r.path, Stack[i].pattern)
    /\ Stack[i].pattern[Len(Stack[i].pattern)] # Param
    /\ Stack[i].handler \in Public \/ r.user = "valid"

(* What stands before a documented route: the middleware of the legacy     *)
(* group before the callbacks, GetContact before the searches, a new AI    *)
(* dialog before the note on a lead whose number reads "ai-dialog".        *)
Shadow(i, r) ==
    CASE Stack[i].handler \in {"FindContactByPhone", "FindContactByAltContact"}
           -> "GetContact"
      [] Stack[i].handler = "CreateLeadNote" /\ r.path[Len(r.path) - 1] = "ai-dialog"
           -> "CreateAIDialogLead"
      [] Stack[i].handler = "AmoCRMCallback" /\ r.user # "valid"
           -> IF r.user = "missing" THEN "401" ELSE "400"
      [] OTHER -> Stack[i].handler

(* Every request gets the answer documented for it (README: health check,  *)
(* OAuth callback and metrics are public), with three exceptions: a        *)
(* callback without X-User-ID is refused, the two searches for contacts    *)
(* are answered by GetContact, and the word "ai-dialog" for a lead makes   *)
(* another route answer.  No other route is hidden by one registered       *)
(* before it, whatever stands in the place of a parameter.                 *)
DocumentedUnlessShadowed ==
    answer # "none" =>
        \A i \in DOMAIN Stack :
            Documented(i, request) => answer = Shadow(i, request)
=============================================================================
