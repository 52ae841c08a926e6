----------------------------- MODULE RouterProofs -----------------------------
(***************************************************************************)
(* Proofs about Router for any header values and whatever a client puts in *)
(* the place of a parameter.                                               *)
(***************************************************************************)
EXTENDS Router, SequenceTheorems, TLAPS

-----------------------------------------------------------------------------
(* The stack.                                                              *)

Segments ==
    {":", "configs", "active", "custom-fields", "marusia-source-field",
     "default-lead-settings", "channels", "test", "leads", "ai-dialog",
     "by-contact", "notes", "pipelines", "talks", "contacts", "search",
     "search-by-alt", "health", "metrics", "v1", "crm", "api", "oauth", "amocrm",
     "callback", "auth", "refresh", "mock"}

Names ==
    {"GetCRMConfigs", "GetCRMConfigByType", "SaveCRMConfig", "SetCRMConfigActive",
     "GetCustomFields", "CreateCustomField", "SetMarusiaSourceFieldID",
     "SetDefaultLeadSettings", "GetChannelSettings", "SetChannelSettings",
     "DeleteCRMConfigByType", "TestConnectionByType", "CreateLead",
     "CreateAIDialogLead", "GetLeadsByContactID", "UpdateLead", "GetLead",
     "CreateLeadNote", "GetPipelines", "GetTalk", "GetContactCustomFields",
     "CreateContactCustomField", "CreateContact", "GetContact", "UpdateContact",
     "FindContactByPhone", "FindContactByAltContact", "health", "metrics",
     "AmoCRMCallback", "AmoCRMAuth", "AmoCRMRefreshToken", "MockAmoCRMAuth",
     "MockAmoCRMRefreshToken"}

Patterns    == Seq(Segments)
Endpoints   == [method : {"GET", "POST", "PATCH", "DELETE"},
                pattern : Patterns, handler : Names]
Middlewares == [method : {"use"}, pattern : Patterns, handler : {"extractUserID"}]
Entries     == Endpoints \cup Middlewares

(* A route is an entry if its parts are.                                   *)
LEMMA RouteTyped ==
    ASSUME NEW m \in {"GET", "POST", "PATCH", "DELETE"}, NEW p \in Patterns,
           NEW h \in Names
    PROVE  Route(m, p, h) \in Endpoints
BY DEF Route, Endpoints

(* A prefix before a pattern is a pattern.                                 *)
LEMMA Joined ==
    ASSUME NEW p \in Patterns, NEW q \in Patterns
    PROVE  p \o q \in Patterns
BY ConcatProperties DEF Patterns

(* Routes with a prefix are routes.                                        *)
LEMMA AtTyped ==
    ASSUME NEW prefix \in Patterns, NEW routes \in Seq(Endpoints)
    PROVE  /\ At(prefix, routes) \in Seq(Endpoints)
           /\ Len(At(prefix, routes)) = Len(routes)
<1>1. /\ Len(routes) \in Nat /\ DOMAIN routes = 1 .. Len(routes)
      /\ \A i \in 1 .. Len(routes) : routes[i] \in Endpoints
  BY LenProperties
<1> DEFINE entry(i) == [routes[i] EXCEPT !.pattern = prefix \o @]
<1>2. ASSUME NEW i \in 1 .. Len(routes)  PROVE entry(i) \in Endpoints
  <2>1. routes[i] \in Endpoints  BY <1>1
  <2>2. prefix \o routes[i].pattern \in Patterns  BY <2>1, Joined DEF Endpoints
  <2> QED  BY <2>1, <2>2 DEF Endpoints
<1>3. At(prefix, routes) = [i \in 1 .. Len(routes) |-> entry(i)]
  BY <1>1 DEF At
<1> HIDE DEF entry
<1>4. [i \in 1 .. Len(routes) |-> entry(i)] \in [1 .. Len(routes) -> Endpoints]
  BY <1>2
<1> QED  BY <1>1, <1>3, <1>4

(* The routes of the groups.                                               *)
LEMMA RoutesTyped ==
    /\ ConfigRoutes \in Seq(Endpoints) /\ LeadRoutes \in Seq(Endpoints)
    /\ ContactRoutes \in Seq(Endpoints)
<1> USE DEF Patterns, Segments, Names, Param
<1>1. ConfigRoutes \in Seq(Endpoints)
  <2>1. /\ <<"configs">> \in Patterns
        /\ <<"configs", ":">> \in Patterns
        /\ <<"configs", ":", "active">> \in Patterns
        /\ <<"configs", ":", "custom-fields">> \in Patterns
        /\ <<"configs", ":", "marusia-source-field">> \in Patterns
        /\ <<"configs", ":", "default-lead-settings">> \in Patterns
        /\ <<"configs", ":", "channels">> \in Patterns
        /\ <<"configs", ":", "test">> \in Patterns
    OBVIOUS
  <2> HIDE DEF Patterns
  <2> QED  BY <2>1, RouteTyped DEF ConfigRoutes
<1>2. LeadRoutes \in Seq(Endpoints)
  <2>1. /\ <<"leads">> \in Patterns
        /\ <<"leads", ":", "ai-dialog", ":">> \in Patterns
        /\ <<"leads", ":", "by-contact", ":">> \in Patterns
        /\ <<"leads", ":", ":">> \in Patterns
        /\ <<"leads", ":", ":", "notes">> \in Patterns
        /\ <<"pipelines", ":">> \in Patterns
        /\ <<"talks", ":", ":">> \in Patterns
    OBVIOUS
  <2> HIDE DEF Patterns
  <2> QED  BY <2>1, RouteTyped DEF LeadRoutes
<1>3. ContactRoutes \in Seq(Endpoints)
  <2>1. /\ <<"contacts", ":", "custom-fields">> \in Patterns
        /\ <<"contacts", ":">> \in Patterns
        /\ <<"contacts", ":", ":">> \in Patterns
        /\ <<"contacts", ":", "search">> \in Patterns
        /\ <<"contacts", ":", "search-by-alt">> \in Patterns
    OBVIOUS
  <2> HIDE DEF Patterns
  <2> QED  BY <2>1, RouteTyped DEF ContactRoutes
<1> QED  BY <1>1, <1>2, <1>3

(* The routes outside the groups.                                          *)
LEMMA PublicTyped ==
    /\ PublicRoutes \in Seq(Endpoints) /\ Len(PublicRoutes) = 3
    /\ \A i \in 1 .. 3 : PublicRoutes[i].handler \in Public
<1>1. /\ <<"health">> \in Patterns
      /\ <<"metrics">> \in Patterns
      /\ <<"v1", "crm">> \in Patterns
  BY DEF Patterns, Segments
<1>2. <<"v1", "crm">> \o <<"health">> \in Patterns  BY <1>1, Joined
<1>3. /\ Route("GET", <<"health">>, "health") \in Endpoints
      /\ Route("GET", <<"metrics">>, "metrics") \in Endpoints
      /\ Route("GET", CrmPrefix \o <<"health">>, "health") \in Endpoints
  BY <1>1, <1>2, RouteTyped DEF Names, CrmPrefix
<1>4. PublicRoutes \in Seq(Endpoints) /\ Len(PublicRoutes) = 3
  BY <1>3 DEF PublicRoutes
<1>5. PublicRoutes[1].handler = "health" /\ PublicRoutes[2].handler = "metrics"
      /\ PublicRoutes[3].handler = "health"
  BY DEF PublicRoutes, Route
<1> QED  BY <1>4, <1>5 DEF Public

(* A middleware is one.                                                    *)
LEMMA UserIDTyped ==
    ASSUME NEW p \in Patterns
    PROVE  UserID(p) \in Middlewares
BY DEF UserID, Route, Middlewares

LEMMA PrefixesTyped ==
    /\ CrmPrefix \in Patterns /\ ApiPrefix \in Patterns
    /\ <<>> \in Patterns
<1>1. <<"v1", "crm">> \in Patterns /\ <<"api">> \in Patterns /\ <<>> \in Patterns
  BY DEF Patterns, Segments
<1> QED  BY <1>1, Joined DEF CrmPrefix, ApiPrefix

LEMMA GroupTyped ==
    ASSUME NEW p \in Patterns, NEW auth \in Names, NEW refresh \in Names
    PROVE  OAuthGroup(p, auth, refresh) \in Seq(Entries)
           /\ Len(OAuthGroup(p, auth, refresh)) = 3
<1>1. <<"amocrm", "auth">> \in Patterns /\ <<"amocrm", "refresh">> \in Patterns
  BY DEF Patterns, Segments
<1>2. p \o <<"amocrm", "auth">> \in Patterns /\ p \o <<"amocrm", "refresh">> \in Patterns
  BY <1>1, Joined
<1>3. /\ UserID(p) \in Entries
      /\ Route("POST", p \o <<"amocrm", "auth">>, auth) \in Entries
      /\ Route("POST", p \o <<"amocrm", "refresh">>, refresh) \in Entries
  BY <1>2, RouteTyped, UserIDTyped DEF Entries
<1> QED  BY <1>3 DEF OAuthGroup

(* A concatenation, part by part.                                          *)
LEMMA Joint ==
    ASSUME NEW S, NEW s \in Seq(S), NEW t \in Seq(S)
    PROVE  /\ s \o t \in Seq(S) /\ Len(s \o t) = Len(s) + Len(t)
           /\ \A i \in 1 .. Len(s) : (s \o t)[i] = s[i]
           /\ \A j \in 1 .. Len(t) : (s \o t)[Len(s) + j] = t[j]
<1>1. /\ s \o t \in Seq(S)
      /\ Len(s \o t) = Len(s) + Len(t)
      /\ \A i \in 1 .. Len(s) + Len(t) :
            (s \o t)[i] = IF i <= Len(s) THEN s[i] ELSE t[i - Len(s)]
  BY ConcatProperties, Zenon
<1>2. Len(s) \in Nat /\ Len(t) \in Nat  BY LenProperties
<1>3. ASSUME NEW i \in 1 .. Len(s)  PROVE (s \o t)[i] = s[i]
  <2>1. i \in 1 .. Len(s) + Len(t) /\ i <= Len(s)  BY <1>2
  <2> QED  BY <1>1, <2>1
<1>4. ASSUME NEW j \in 1 .. Len(t)  PROVE (s \o t)[Len(s) + j] = t[j]
  <2>1. /\ Len(s) + j \in 1 .. Len(s) + Len(t) /\ ~(Len(s) + j <= Len(s))
        /\ (Len(s) + j) - Len(s) = j
    BY <1>2
  <2> QED  BY <1>1, <2>1
<1> QED  BY <1>1, <1>3, <1>4

LEMMA JointPatterns ==
    \A s, t \in Seq(Segments) :
       /\ s \o t \in Seq(Segments) /\ Len(s \o t) = Len(s) + Len(t)
       /\ \A i \in 1 .. Len(s) : (s \o t)[i] = s[i]
       /\ \A j \in 1 .. Len(t) : (s \o t)[Len(s) + j] = t[j]
BY Joint

(* A pattern behind /v1/crm or behind /v1/crm/api.                         *)
LEMMA BehindCrm ==
    ASSUME NEW n \in Nat, NEW p \in Patterns, Len(p) = n
    PROVE  LET q == CrmPrefix \o p
           IN  /\ q \in Patterns /\ Len(q) = 2 + n
               /\ q[1] = "v1" /\ q[2] = "crm"
               /\ \A j \in 1 .. n : q[2 + j] = p[j]
<1>1. CrmPrefix \in Seq(Segments) /\ Len(CrmPrefix) = 2
      /\ CrmPrefix[1] = "v1" /\ CrmPrefix[2] = "crm"
  BY DEF CrmPrefix, Segments
<1>2. p \in Seq(Segments) /\ 2 \in Nat  BY DEF Patterns
<1>3. /\ CrmPrefix \o p \in Seq(Segments) /\ Len(CrmPrefix \o p) = 2 + n
      /\ \A i \in 1 .. 2 : (CrmPrefix \o p)[i] = CrmPrefix[i]
      /\ \A j \in 1 .. n : (CrmPrefix \o p)[2 + j] = p[j]
  <2>1. /\ CrmPrefix \o p \in Seq(Segments) /\ Len(CrmPrefix \o p) = Len(CrmPrefix) + Len(p)
        /\ \A i \in 1 .. Len(CrmPrefix) : (CrmPrefix \o p)[i] = CrmPrefix[i]
        /\ \A j \in 1 .. Len(p) : (CrmPrefix \o p)[Len(CrmPrefix) + j] = p[j]
    BY <1>1, <1>2, JointPatterns, Zenon
  <2> QED  BY <1>1, <2>1
<1>4. 1 \in 1 .. 2 /\ 2 \in 1 .. 2  OBVIOUS
<1> QED  BY <1>1, <1>3, <1>4 DEF Patterns

LEMMA ApiPrefixIs ==
    /\ ApiPrefix \in Patterns /\ Len(ApiPrefix) = 3
    /\ ApiPrefix[1] = "v1" /\ ApiPrefix[2] = "crm" /\ ApiPrefix[3] = "api"
<1>1. <<"api">> \in Patterns /\ Len(<<"api">>) = 1 /\ <<"api">>[1] = "api"
  BY DEF Patterns, Segments
<1>2. /\ ApiPrefix \in Patterns /\ Len(ApiPrefix) = 2 + 1
      /\ ApiPrefix[1] = "v1" /\ ApiPrefix[2] = "crm"
      /\ \A j \in 1 .. 1 : ApiPrefix[2 + j] = <<"api">>[j]
  BY <1>1, BehindCrm DEF ApiPrefix
<1>3. ApiPrefix[2 + 1] = <<"api">>[1]
  <2>1. 1 \in 1 .. 1  OBVIOUS
  <2> QED  BY <1>2, <2>1
<1> QED  BY <1>1, <1>2, <1>3

LEMMA BehindApi ==
    ASSUME NEW n \in Nat, NEW p \in Patterns, Len(p) = n
    PROVE  LET q == ApiPrefix \o p
           IN  /\ q \in Patterns /\ Len(q) = 3 + n
               /\ q[1] = "v1" /\ q[2] = "crm" /\ q[3] = "api"
               /\ \A j \in 1 .. n : q[3 + j] = p[j]
<1>1. /\ ApiPrefix \o p \in Seq(Segments) /\ Len(ApiPrefix \o p) = 3 + n
      /\ \A i \in 1 .. 3 : (ApiPrefix \o p)[i] = ApiPrefix[i]
      /\ \A j \in 1 .. n : (ApiPrefix \o p)[3 + j] = p[j]
  <2>1. ApiPrefix \in Seq(Segments) /\ p \in Seq(Segments) /\ 3 \in Nat /\ Len(ApiPrefix) = 3
    BY ApiPrefixIs DEF Patterns
  <2>2. /\ ApiPrefix \o p \in Seq(Segments) /\ Len(ApiPrefix \o p) = Len(ApiPrefix) + Len(p)
        /\ \A i \in 1 .. Len(ApiPrefix) : (ApiPrefix \o p)[i] = ApiPrefix[i]
        /\ \A j \in 1 .. Len(p) : (ApiPrefix \o p)[Len(ApiPrefix) + j] = p[j]
    BY <2>1, JointPatterns, Zenon
  <2> QED  BY <2>1, <2>2
<1>2. 1 \in 1 .. 3 /\ 2 \in 1 .. 3 /\ 3 \in 1 .. 3  OBVIOUS
<1> QED  BY <1>1, <1>2, ApiPrefixIs DEF Patterns

LEMMA JointEntries ==
    \A s, t \in Seq(Entries) :
       /\ s \o t \in Seq(Entries) /\ Len(s \o t) = Len(s) + Len(t)
       /\ \A i \in 1 .. Len(s) : (s \o t)[i] = s[i]
       /\ \A j \in 1 .. Len(t) : (s \o t)[Len(s) + j] = t[j]
BY Joint

LEMMA JointEndpoints ==
    \A s, t \in Seq(Endpoints) :
       /\ s \o t \in Seq(Endpoints) /\ Len(s \o t) = Len(s) + Len(t)
       /\ \A i \in 1 .. Len(s) : (s \o t)[i] = s[i]
       /\ \A j \in 1 .. Len(t) : (s \o t)[Len(s) + j] = t[j]
BY Joint

(* The routes of the OAuth groups, one by one.                              *)
LEMMA OAuthTyped ==
    /\ CallbackRoutes \in Seq(Entries) /\ Len(CallbackRoutes) = 2
    /\ OAuthRoutes \in Seq(Entries) /\ Len(OAuthRoutes) = 12
    /\ LET r1 == OAuthGroup(CrmPrefix \o <<"oauth">>, "AmoCRMAuth", "AmoCRMRefreshToken")
           r2 == OAuthGroup(<<"oauth">>, "AmoCRMAuth", "AmoCRMRefreshToken")
           r3 == OAuthGroup(CrmPrefix \o <<"mock", "oauth">>, "MockAmoCRMAuth",
                            "MockAmoCRMRefreshToken")
           r4 == OAuthGroup(<<"mock", "oauth">>, "MockAmoCRMAuth", "MockAmoCRMRefreshToken")
       IN  \A j \in 1 .. 3 : /\ OAuthRoutes[j] = r1[j]
                             /\ OAuthRoutes[3 + j] = r2[j]
                             /\ OAuthRoutes[6 + j] = r3[j]
                             /\ OAuthRoutes[9 + j] = r4[j]
<1>1. /\ <<"oauth">> \in Patterns /\ <<"mock", "oauth">> \in Patterns
      /\ <<"oauth", "amocrm", "callback">> \in Patterns
  BY DEF Patterns, Segments
<1>2. /\ CrmPrefix \o <<"oauth">> \in Patterns
      /\ CrmPrefix \o <<"mock", "oauth">> \in Patterns
      /\ CrmPrefix \o <<"oauth", "amocrm", "callback">> \in Patterns
  BY <1>1, PrefixesTyped, Joined
<1>3. /\ Route("GET", CrmPrefix \o <<"oauth", "amocrm", "callback">>, "AmoCRMCallback") \in Entries
      /\ Route("GET", <<"oauth", "amocrm", "callback">>, "AmoCRMCallback") \in Entries
  BY <1>1, <1>2, RouteTyped DEF Entries, Names
<1> DEFINE r1 == OAuthGroup(CrmPrefix \o <<"oauth">>, "AmoCRMAuth", "AmoCRMRefreshToken")
           r2 == OAuthGroup(<<"oauth">>, "AmoCRMAuth", "AmoCRMRefreshToken")
           r3 == OAuthGroup(CrmPrefix \o <<"mock", "oauth">>, "MockAmoCRMAuth",
                            "MockAmoCRMRefreshToken")
           r4 == OAuthGroup(<<"mock", "oauth">>, "MockAmoCRMAuth", "MockAmoCRMRefreshToken")
           s2 == r1 \o r2
           s3 == s2 \o r3
<1>4. /\ r1 \in Seq(Entries) /\ r2 \in Seq(Entries)
      /\ r3 \in Seq(Entries) /\ r4 \in Seq(Entries)
      /\ Len(r1) = 3 /\ Len(r2) = 3 /\ Len(r3) = 3 /\ Len(r4) = 3
  BY <1>1, <1>2, GroupTyped DEF Names
<1>5. OAuthRoutes = s3 \o r4  BY DEF OAuthRoutes
<1> HIDE DEF r1, r2, r3, r4
<1>6. /\ s2 \in Seq(Entries) /\ Len(s2) = Len(r1) + Len(r2)
      /\ \A i \in 1 .. Len(r1) : s2[i] = r1[i]
      /\ \A j \in 1 .. Len(r2) : s2[Len(r1) + j] = r2[j]
  BY <1>4, JointEntries, Zenon
<1> HIDE DEF s2
<1>7. /\ s3 \in Seq(Entries) /\ Len(s3) = Len(s2) + Len(r3)
      /\ \A i \in 1 .. Len(s2) : s3[i] = s2[i]
      /\ \A j \in 1 .. Len(r3) : s3[Len(s2) + j] = r3[j]
  BY <1>4, <1>6, JointEntries, Zenon
<1> HIDE DEF s3
<1>8. /\ OAuthRoutes \in Seq(Entries) /\ Len(OAuthRoutes) = Len(s3) + Len(r4)
      /\ \A i \in 1 .. Len(s3) : OAuthRoutes[i] = s3[i]
      /\ \A j \in 1 .. Len(r4) : OAuthRoutes[Len(s3) + j] = r4[j]
  <2>1. /\ s3 \o r4 \in Seq(Entries) /\ Len(s3 \o r4) = Len(s3) + Len(r4)
        /\ \A i \in 1 .. Len(s3) : (s3 \o r4)[i] = s3[i]
        /\ \A j \in 1 .. Len(r4) : (s3 \o r4)[Len(s3) + j] = r4[j]
    BY <1>4, <1>7, JointEntries, Zenon
  <2> QED  BY <1>5, <2>1, Zenon
<1>9. Len(s2) = 6  BY <1>4, <1>6
<1>10. Len(s3) = 9  BY <1>4, <1>7, <1>9
<1>11. Len(OAuthRoutes) = 12  BY <1>4, <1>8, <1>10
<1>12. ASSUME NEW j \in 1 .. 3
       PROVE  /\ OAuthRoutes[j] = r1[j] /\ OAuthRoutes[3 + j] = r2[j]
              /\ OAuthRoutes[6 + j] = r3[j] /\ OAuthRoutes[9 + j] = r4[j]
  <2>1. /\ j \in 1 .. Len(r1) /\ j \in 1 .. Len(r2) /\ j \in 1 .. Len(r3) /\ j \in 1 .. Len(r4)
        /\ Len(r1) + j = 3 + j /\ Len(s2) + j = 6 + j /\ Len(s3) + j = 9 + j
    BY <1>4, <1>9, <1>10
  <2>2. /\ j \in 1 .. Len(s2) /\ 3 + j \in 1 .. Len(s2)
        /\ j \in 1 .. Len(s3) /\ 3 + j \in 1 .. Len(s3) /\ 6 + j \in 1 .. Len(s3)
    BY <1>9, <1>10
  <2>3. s2[j] = r1[j] /\ s2[3 + j] = r2[j]  BY <1>6, <2>1
  <2>4. s3[j] = s2[j] /\ s3[3 + j] = s2[3 + j] /\ s3[6 + j] = r3[j]  BY <1>7, <2>1, <2>2
  <2>5. /\ OAuthRoutes[j] = s3[j] /\ OAuthRoutes[3 + j] = s3[3 + j]
        /\ OAuthRoutes[6 + j] = s3[6 + j] /\ OAuthRoutes[9 + j] = r4[j]
    BY <1>8, <2>1, <2>2
  <2> QED  BY <2>3, <2>4, <2>5
<1>13. CallbackRoutes \in Seq(Entries) /\ Len(CallbackRoutes) = 2
  BY <1>3 DEF CallbackRoutes
<1> QED  BY <1>8, <1>11, <1>12, <1>13 DEF r1, r2, r3, r4

(* The twenty-seven routes of a group.                                     *)
LEMMA RoutesParts ==
    /\ Routes \in Seq(Endpoints) /\ Len(Routes) = 27
    /\ \A i \in 1 .. 12 : Routes[i] = ConfigRoutes[i]
    /\ \A i \in 1 .. 8 : Routes[12 + i] = LeadRoutes[i]
    /\ \A i \in 1 .. 7 : Routes[20 + i] = ContactRoutes[i]
<1>1. /\ ConfigRoutes \in Seq(Endpoints) /\ LeadRoutes \in Seq(Endpoints)
      /\ ContactRoutes \in Seq(Endpoints)
  BY RoutesTyped
<1>2. Len(ConfigRoutes) = 12  BY DEF ConfigRoutes
<1>3. Len(LeadRoutes) = 8  BY DEF LeadRoutes
<1>4. Len(ContactRoutes) = 7  BY DEF ContactRoutes
<1> DEFINE s == ConfigRoutes \o LeadRoutes
<1>5. /\ s \in Seq(Endpoints) /\ Len(s) = Len(ConfigRoutes) + Len(LeadRoutes)
      /\ \A i \in 1 .. Len(ConfigRoutes) : s[i] = ConfigRoutes[i]
      /\ \A j \in 1 .. Len(LeadRoutes) : s[Len(ConfigRoutes) + j] = LeadRoutes[j]
  BY <1>1, JointEndpoints, Zenon
<1>6. Routes = s \o ContactRoutes  BY DEF Routes
<1> HIDE DEF s
<1>7. /\ Routes \in Seq(Endpoints) /\ Len(Routes) = Len(s) + Len(ContactRoutes)
      /\ \A i \in 1 .. Len(s) : Routes[i] = s[i]
      /\ \A j \in 1 .. Len(ContactRoutes) : Routes[Len(s) + j] = ContactRoutes[j]
  BY <1>1, <1>5, <1>6, JointEndpoints, Zenon
<1>8. Len(s) = 20 /\ Len(Routes) = 27  BY <1>2, <1>3, <1>4, <1>5, <1>7
<1>9. ASSUME NEW i \in 1 .. 12  PROVE Routes[i] = ConfigRoutes[i]
  <2>1. i \in 1 .. 20  OBVIOUS
  <2> QED  BY <1>2, <1>5, <1>7, <1>8, <2>1
<1>10. ASSUME NEW i \in 1 .. 8  PROVE Routes[12 + i] = LeadRoutes[i]
  <2>1. 12 + i \in 1 .. 20 /\ i \in 1 .. Len(LeadRoutes)  BY <1>3
  <2>2. Len(ConfigRoutes) + i = 12 + i  BY <1>2
  <2>3. s[12 + i] = LeadRoutes[i]  BY <1>5, <2>1, <2>2
  <2>4. Routes[12 + i] = s[12 + i]  BY <1>7, <1>8, <2>1
  <2> QED  BY <2>3, <2>4
<1> QED  BY <1>4, <1>7, <1>8, <1>9, <1>10

(* The stack, section by section.                                          *)
LEMMA StackSections ==
    /\ Stack \in Seq(Entries) /\ Len(Stack) = 73
    /\ \A i \in 1 .. 3 : Stack[i] = PublicRoutes[i]
    /\ Stack[4] = UserID(ApiPrefix) /\ Stack[5] = UserID(<<>>)
    /\ \A k \in 1 .. 27 : Stack[5 + k] = At(ApiPrefix, Routes)[k]
    /\ \A k \in 1 .. 27 : Stack[32 + k] = At(<<>>, Routes)[k]
    /\ \A j \in 1 .. 2 : Stack[59 + j] = CallbackRoutes[j]
    /\ \A j \in 1 .. 12 : Stack[61 + j] = OAuthRoutes[j]
<1> DEFINE public == PublicRoutes
           groups == <<UserID(ApiPrefix), UserID(<<>>)>>
           api    == At(ApiPrefix, Routes)
           legacy == At(<<>>, Routes)
           s1 == public \o groups
           s2 == s1 \o api
           s3 == s2 \o legacy
           s4 == s3 \o CallbackRoutes
<1>1. public \in Seq(Entries) /\ Len(public) = 3
  BY PublicTyped DEF Entries
<1>2. /\ groups \in Seq(Entries) /\ Len(groups) = 2
      /\ groups[1] = UserID(ApiPrefix) /\ groups[2] = UserID(<<>>)
  <2>1. UserID(ApiPrefix) \in Entries /\ UserID(<<>>) \in Entries
    BY PrefixesTyped, UserIDTyped DEF Entries
  <2> QED  BY <2>1
<1>3. /\ api \in Seq(Entries) /\ legacy \in Seq(Entries)
      /\ Len(api) = 27 /\ Len(legacy) = 27
  <2>1. api \in Seq(Endpoints) /\ legacy \in Seq(Endpoints)
        /\ Len(api) = Len(Routes) /\ Len(legacy) = Len(Routes)
    BY AtTyped, RoutesParts, PrefixesTyped
  <2>2. Len(api) = 27 /\ Len(legacy) = 27  BY <2>1, RoutesParts
  <2>3. api \in Seq(Entries) /\ legacy \in Seq(Entries)  BY <2>1 DEF Entries
  <2> QED  BY <2>2, <2>3
<1>4. /\ CallbackRoutes \in Seq(Entries) /\ OAuthRoutes \in Seq(Entries)
      /\ Len(CallbackRoutes) = 2 /\ Len(OAuthRoutes) = 12
  BY OAuthTyped
<1>5. Stack = s4 \o OAuthRoutes  BY DEF Stack
<1> HIDE DEF public, groups, api, legacy
<1>6. /\ s1 \in Seq(Entries) /\ Len(s1) = Len(public) + Len(groups)
      /\ \A i \in 1 .. Len(public) : s1[i] = public[i]
      /\ \A j \in 1 .. Len(groups) : s1[Len(public) + j] = groups[j]
  BY <1>1, <1>2, JointEntries, Zenon
<1>7. Len(s1) = 5 /\ (\A i \in 1 .. 3 : s1[i] = public[i])
      /\ s1[4] = groups[1] /\ s1[5] = groups[2]
  <2>1. 1 \in 1 .. 2 /\ 2 \in 1 .. 2 /\ 3 + 1 = 4 /\ 3 + 2 = 5  OBVIOUS
  <2> QED  BY <1>1, <1>2, <1>6, <2>1
<1> HIDE DEF s1
<1>8. /\ s2 \in Seq(Entries) /\ Len(s2) = Len(s1) + Len(api)
      /\ \A i \in 1 .. Len(s1) : s2[i] = s1[i]
      /\ \A j \in 1 .. Len(api) : s2[Len(s1) + j] = api[j]
  BY <1>3, <1>6, JointEntries, Zenon
<1>9. /\ Len(s2) = 32
      /\ \A i \in 1 .. 5 : s2[i] = s1[i]
      /\ \A k \in 1 .. 27 : s2[5 + k] = api[k]
  <2>1. Len(s1) = 5 /\ Len(api) = 27  BY <1>3, <1>7, <1>8
  <2>2. Len(s2) = 32  BY <2>1, <1>8
  <2>3. ASSUME NEW k \in 1 .. 27  PROVE s2[5 + k] = api[k]
    <3>1. k \in 1 .. Len(api) /\ Len(s1) + k = 5 + k  BY <2>1
    <3> QED  BY <3>1, <1>8
  <2>4. \A i \in 1 .. 5 : s2[i] = s1[i]  BY <2>1, <1>8
  <2> QED  BY <2>2, <2>3, <2>4
<1> HIDE DEF s2
<1>10. /\ s3 \in Seq(Entries) /\ Len(s3) = Len(s2) + Len(legacy)
       /\ \A i \in 1 .. Len(s2) : s3[i] = s2[i]
       /\ \A j \in 1 .. Len(legacy) : s3[Len(s2) + j] = legacy[j]
  BY <1>3, <1>8, JointEntries, Zenon
<1>11. /\ Len(s3) = 59
      /\ \A i \in 1 .. 32 : s3[i] = s2[i]
      /\ \A k \in 1 .. 27 : s3[32 + k] = legacy[k]
  <2>1. Len(s2) = 32 /\ Len(legacy) = 27  BY <1>3, <1>9, <1>10
  <2>2. Len(s3) = 59  BY <2>1, <1>10
  <2>3. ASSUME NEW k \in 1 .. 27  PROVE s3[32 + k] = legacy[k]
    <3>1. k \in 1 .. Len(legacy) /\ Len(s2) + k = 32 + k  BY <2>1
    <3> QED  BY <3>1, <1>10
  <2>4. \A i \in 1 .. 32 : s3[i] = s2[i]  BY <2>1, <1>10
  <2> QED  BY <2>2, <2>3, <2>4
<1> HIDE DEF s3
<1>12. /\ s4 \in Seq(Entries) /\ Len(s4) = Len(s3) + Len(CallbackRoutes)
       /\ \A i \in 1 .. Len(s3) : s4[i] = s3[i]
       /\ \A j \in 1 .. Len(CallbackRoutes) : s4[Len(s3) + j] = CallbackRoutes[j]
  BY <1>4, <1>10, JointEntries, Zenon
<1>13. /\ Len(s4) = 61
      /\ \A i \in 1 .. 59 : s4[i] = s3[i]
      /\ \A j \in 1 .. 2 : s4[59 + j] = CallbackRoutes[j]
  <2>1. Len(s3) = 59 /\ Len(CallbackRoutes) = 2  BY <1>4, <1>11, <1>12
  <2>2. Len(s4) = 61  BY <2>1, <1>12
  <2>3. ASSUME NEW j \in 1 .. 2  PROVE s4[59 + j] = CallbackRoutes[j]
    <3>1. j \in 1 .. Len(CallbackRoutes) /\ Len(s3) + j = 59 + j  BY <2>1
    <3> QED  BY <3>1, <1>12
  <2>4. \A i \in 1 .. 59 : s4[i] = s3[i]  BY <2>1, <1>12
  <2> QED  BY <2>2, <2>3, <2>4
<1> HIDE DEF s4
<1>14. /\ Stack \in Seq(Entries) /\ Len(Stack) = Len(s4) + Len(OAuthRoutes)
       /\ \A i \in 1 .. Len(s4) : Stack[i] = s4[i]
       /\ \A j \in 1 .. Len(OAuthRoutes) : Stack[Len(s4) + j] = OAuthRoutes[j]
  BY <1>4, <1>5, <1>12, JointEntries, Zenon
<1>15. /\ Len(Stack) = 73
       /\ \A i \in 1 .. 61 : Stack[i] = s4[i]
       /\ \A j \in 1 .. 12 : Stack[61 + j] = OAuthRoutes[j]
  <2>1. Len(s4) = 61 /\ Len(OAuthRoutes) = 12  BY <1>4, <1>13
  <2>2. Len(Stack) = 73  BY <2>1, <1>14
  <2>3. ASSUME NEW j \in 1 .. 12  PROVE Stack[61 + j] = OAuthRoutes[j]
    <3>1. j \in 1 .. Len(OAuthRoutes) /\ Len(s4) + j = 61 + j  BY <2>1
    <3> QED  BY <3>1, <1>14
  <2>4. \A i \in 1 .. 61 : Stack[i] = s4[i]  BY <2>1, <1>14
  <2> QED  BY <2>2, <2>3, <2>4
<1>16. ASSUME NEW i \in 1 .. 5  PROVE Stack[i] = s1[i]
  <2>1. i \in 1 .. 32 /\ i \in 1 .. 59 /\ i \in 1 .. 61  OBVIOUS
  <2> QED  BY <1>9, <1>11, <1>13, <1>15, <2>1
<1>17. ASSUME NEW i \in 1 .. 3  PROVE Stack[i] = PublicRoutes[i]
  <2>1. i \in 1 .. 5  OBVIOUS
  <2> QED  BY <1>7, <1>16, <2>1 DEF public
<1>18. Stack[4] = UserID(ApiPrefix) /\ Stack[5] = UserID(<<>>)
  <2>1. 4 \in 1 .. 5 /\ 5 \in 1 .. 5  OBVIOUS
  <2>2. Stack[4] = s1[4] /\ Stack[5] = s1[5]  BY <1>16, <2>1
  <2> QED  BY <1>2, <1>7, <2>2
<1>19. ASSUME NEW k \in 1 .. 27  PROVE Stack[5 + k] = At(ApiPrefix, Routes)[k]
  <2>1. 5 + k \in 1 .. 32 /\ 5 + k \in 1 .. 59 /\ 5 + k \in 1 .. 61  OBVIOUS
  <2> QED  BY <1>9, <1>11, <1>13, <1>15, <2>1 DEF api
<1>20. ASSUME NEW k \in 1 .. 27  PROVE Stack[32 + k] = At(<<>>, Routes)[k]
  <2>1. 32 + k \in 1 .. 59 /\ 32 + k \in 1 .. 61  OBVIOUS
  <2>2. Stack[32 + k] = s4[32 + k] /\ s4[32 + k] = s3[32 + k]  BY <1>13, <1>15, <2>1
  <2>3. s3[32 + k] = legacy[k]  BY <1>11
  <2> QED  BY <2>2, <2>3 DEF legacy
<1>21. ASSUME NEW j \in 1 .. 2  PROVE Stack[59 + j] = CallbackRoutes[j]
  <2>1. 59 + j \in 1 .. 61  OBVIOUS
  <2> QED  BY <1>13, <1>15, <2>1
<1> QED  BY <1>14, <1>15, <1>17, <1>18, <1>19, <1>20, <1>21

(* The public routes come first, then the middleware of the API group and  *)
(* that of the legacy group, which every path matches.                     *)
LEMMA StackFacts ==
    /\ Stack \in Seq(Entries) /\ Len(Stack) = 73 /\ DOMAIN Stack = 1 .. 73
    /\ \A i \in 1 .. 3 : Stack[i].handler \in Public
    /\ Stack[4].method = "use"
    /\ Stack[5] = UserID(<<>>)
<1>1. Stack \in Seq(Entries) /\ Len(Stack) = 73 /\ DOMAIN Stack = 1 .. 73
  BY StackSections, LenProperties
<1>2. ASSUME NEW i \in 1 .. 3  PROVE Stack[i].handler \in Public
  BY StackSections, PublicTyped
<1>3. Stack[4].method = "use"  BY StackSections DEF UserID, Route
<1> QED  BY <1>1, <1>2, <1>3, StackSections

(* A route of a group, behind the prefix and without it.                   *)
LEMMA GroupEntry ==
    ASSUME NEW k \in 1 .. 27
    PROVE  /\ Routes[k] \in Endpoints
           /\ Stack[5 + k] = Route(Routes[k].method, ApiPrefix \o Routes[k].pattern,
                                   Routes[k].handler)
           /\ Stack[32 + k] = Route(Routes[k].method, Routes[k].pattern,
                                    Routes[k].handler)
<1>1. /\ Routes \in Seq(Endpoints) /\ DOMAIN Routes = 1 .. 27
      /\ Routes[k] \in Endpoints
  BY RoutesParts, LenProperties
<1>2. <<>> \o Routes[k].pattern = Routes[k].pattern
  <2>1. Routes[k].pattern \in Seq(Segments)  BY <1>1 DEF Endpoints, Patterns
  <2> QED  BY <2>1, ConcatEmptySeq
<1>3. ASSUME NEW prefix
      PROVE  At(prefix, Routes)[k]
               = Route(Routes[k].method, prefix \o Routes[k].pattern, Routes[k].handler)
  BY <1>1 DEF At, Route, Endpoints
<1>4. At(ApiPrefix, Routes)[k]
        = Route(Routes[k].method, ApiPrefix \o Routes[k].pattern, Routes[k].handler)
  BY <1>3
<1>5. At(<<>>, Routes)[k]
        = Route(Routes[k].method, <<>> \o Routes[k].pattern, Routes[k].handler)
  BY <1>3
<1> QED  BY <1>1, <1>2, <1>4, <1>5, StackSections

-----------------------------------------------------------------------------
(* The routes outside the two groups.                                      *)

(* First segments of the routes of a group.                                *)
Heads == {"configs", "leads", "pipelines", "talks", "contacts"}

(* No parameter, and neither the first segment of a route of the legacy    *)
(* group nor the first three of one of the API group.                      *)
Plain(p) == \A j \in 1 .. Len(p) : p[j] # Param

Outside(p) ==
    /\ Len(p) >= 1
    /\ \/ p[1] \in {"health", "metrics", "oauth", "mock"}
       \/ p[1] = "v1" /\ Len(p) >= 3 /\ p[3] \in {"health", "oauth", "mock"}

(* What answers there can be read off the pattern.                         *)
InMock(p) == p[1] = "mock" \/ (p[1] = "v1" /\ p[3] = "mock")

PlainHandler(p) ==
    CASE p[Len(p)] = "health" -> "health"
      [] p[Len(p)] = "metrics" -> "metrics"
      [] p[Len(p)] = "callback" -> "AmoCRMCallback"
      [] p[Len(p)] = "auth" -> IF InMock(p) THEN "MockAmoCRMAuth" ELSE "AmoCRMAuth"
      [] OTHER -> IF InMock(p) THEN "MockAmoCRMRefreshToken" ELSE "AmoCRMRefreshToken"

PlainEntry(e) ==
    /\ e.pattern \in Patterns /\ Plain(e.pattern) /\ Outside(e.pattern)
    /\ e.method # "use" => e.handler = PlainHandler(e.pattern)

(* A route of an OAuth group is plain if the prefix is.                    *)
LEMMA PlainRoute ==
    ASSUME NEW p \in Patterns, Plain(p), Outside(p),
           NEW x \in {"auth", "refresh"}
    PROVE  LET q == p \o <<"amocrm", x>>
           IN  /\ q \in Patterns /\ Plain(q) /\ Outside(q)
               /\ q[Len(q)] = x /\ (InMock(q) <=> InMock(p))
<1> DEFINE t == <<"amocrm", x>>
           q == p \o t
<1>1. t \in Seq(Segments) /\ Len(t) = 2 /\ t[1] = "amocrm" /\ t[2] = x
  BY DEF Segments
<1>2. p \in Seq(Segments) /\ Len(p) \in Nat  BY LenProperties DEF Patterns
<1> HIDE DEF t
<1>3. /\ q \in Seq(Segments) /\ Len(q) = Len(p) + Len(t)
      /\ \A i \in 1 .. Len(p) : q[i] = p[i]
      /\ \A j \in 1 .. Len(t) : q[Len(p) + j] = t[j]
  BY <1>1, <1>2, JointPatterns, Zenon
<1> HIDE DEF q
<1>4. Len(q) = Len(p) + 2  BY <1>1, <1>3
<1>5. q[Len(p) + 1] = "amocrm" /\ q[Len(p) + 2] = x
  <2>1. 1 \in 1 .. Len(t) /\ 2 \in 1 .. Len(t)  BY <1>1
  <2> QED  BY <1>1, <1>3, <2>1
<1>6. Plain(q)
  <2> SUFFICES ASSUME NEW j \in 1 .. Len(q)  PROVE q[j] # Param
    BY DEF Plain
  <2>1. CASE j \in 1 .. Len(p)  BY <1>3, <2>1 DEF Plain
  <2>2. CASE j = Len(p) + 1  BY <1>5, <2>2 DEF Param
  <2>3. CASE j = Len(p) + 2  BY <1>5, <2>3 DEF Param
  <2> QED  BY <1>2, <1>4, <2>1, <2>2, <2>3
<1>7. q[1] = p[1] /\ (Len(p) >= 3 => q[3] = p[3])  BY <1>2, <1>3 DEF Outside
<1>8. Outside(q)  BY <1>2, <1>4, <1>7 DEF Outside
<1>9. InMock(q) <=> InMock(p)  BY <1>7 DEF Outside, InMock
<1>10. q[Len(q)] = x  BY <1>4, <1>5
<1> QED  BY <1>3, <1>6, <1>8, <1>9, <1>10 DEF Patterns, q, t

(* The three entries of an OAuth group.                                    *)
LEMMA PlainGroup ==
    ASSUME NEW p \in Patterns, Plain(p), Outside(p), NEW auth, NEW refresh,
           auth = (IF InMock(p) THEN "MockAmoCRMAuth" ELSE "AmoCRMAuth"),
           refresh = (IF InMock(p) THEN "MockAmoCRMRefreshToken" ELSE "AmoCRMRefreshToken")
    PROVE  \A j \in 1 .. 3 : PlainEntry(OAuthGroup(p, auth, refresh)[j])
<1>1. PlainEntry(UserID(p))  BY DEF PlainEntry, UserID, Route
<1>2. PlainEntry(Route("POST", p \o <<"amocrm", "auth">>, auth))
  <2> DEFINE q == p \o <<"amocrm", "auth">>
  <2>1. /\ q \in Patterns /\ Plain(q) /\ Outside(q)
        /\ q[Len(q)] = "auth" /\ (InMock(q) <=> InMock(p))
    BY PlainRoute
  <2> HIDE DEF q
  <2>2. auth = PlainHandler(q)  BY <2>1 DEF PlainHandler
  <2>3. PlainEntry(Route("POST", q, auth))  BY <2>1, <2>2 DEF PlainEntry, Route
  <2> QED  BY <2>3 DEF q
<1>3. PlainEntry(Route("POST", p \o <<"amocrm", "refresh">>, refresh))
  <2> DEFINE q == p \o <<"amocrm", "refresh">>
  <2>1. /\ q \in Patterns /\ Plain(q) /\ Outside(q)
        /\ q[Len(q)] = "refresh" /\ (InMock(q) <=> InMock(p))
    BY PlainRoute
  <2> HIDE DEF q
  <2>2. refresh = PlainHandler(q)  BY <2>1 DEF PlainHandler
  <2>3. PlainEntry(Route("POST", q, refresh))  BY <2>1, <2>2 DEF PlainEntry, Route
  <2> QED  BY <2>3 DEF q
<1>4. /\ OAuthGroup(p, auth, refresh)[1] = UserID(p)
      /\ OAuthGroup(p, auth, refresh)[2] = Route("POST", p \o <<"amocrm", "auth">>, auth)
      /\ OAuthGroup(p, auth, refresh)[3] = Route("POST", p \o <<"amocrm", "refresh">>, refresh)
  BY DEF OAuthGroup
<1> QED  BY <1>1, <1>2, <1>3, <1>4

LEMMA PlainBehindCrm ==
    ASSUME NEW n \in Nat \ {0}, NEW p \in Patterns, Len(p) = n, Plain(p),
           p[1] \in {"health", "oauth", "mock"}
    PROVE  LET q == CrmPrefix \o p
           IN  /\ q \in Patterns /\ Plain(q) /\ Outside(q)
               /\ q[Len(q)] = p[n] /\ (InMock(q) <=> p[1] = "mock")
<1> DEFINE q == CrmPrefix \o p
<1>1. /\ q \in Patterns /\ Len(q) = 2 + n
      /\ q[1] = "v1" /\ q[2] = "crm"
      /\ \A j \in 1 .. n : q[2 + j] = p[j]
  BY BehindCrm
<1> HIDE DEF q
<1>2. q[3] = p[1] /\ q[2 + n] = p[n]
  <2>1. 1 \in 1 .. n /\ n \in 1 .. n /\ 2 + 1 = 3  OBVIOUS
  <2>2. q[2 + 1] = p[1] /\ q[2 + n] = p[n]  BY <1>1, <2>1
  <2> QED  BY <2>1, <2>2
<1>3. Plain(q)
  <2> SUFFICES ASSUME NEW j \in 1 .. Len(q)  PROVE q[j] # Param
    BY DEF Plain
  <2>1. CASE j = 1  BY <1>1, <2>1 DEF Param
  <2>2. CASE j = 2  BY <1>1, <2>2 DEF Param
  <2>3. CASE j >= 3
    <3>1. j - 2 \in 1 .. n /\ 2 + (j - 2) = j  BY <1>1, <2>3
    <3>2. q[2 + (j - 2)] = p[j - 2]  BY <1>1, <3>1
    <3> QED  BY <3>1, <3>2 DEF Plain
  <2> QED  BY <1>1, <2>1, <2>2, <2>3
<1>4. Outside(q)  BY <1>1, <1>2 DEF Outside
<1>5. InMock(q) <=> p[1] = "mock"  BY <1>1, <1>2 DEF InMock
<1> QED  BY <1>1, <1>2, <1>3, <1>4, <1>5 DEF q

(* The entries outside the groups, except the groups' own middlewares.     *)
LEMMA PlainEntries ==
    /\ \A i \in 1 .. 3 : PlainEntry(Stack[i]) /\ Stack[i].handler \in {"health", "metrics"}
    /\ \A i \in 60 .. 73 :
          PlainEntry(Stack[i]) /\ Stack[i].handler \notin {"health", "metrics"}
<1>1. /\ <<"health">> \in Patterns /\ <<"metrics">> \in Patterns
      /\ <<"oauth">> \in Patterns /\ <<"mock", "oauth">> \in Patterns
      /\ <<"oauth", "amocrm", "callback">> \in Patterns
  BY DEF Patterns, Segments
<1>2. /\ Plain(<<"health">>) /\ Plain(<<"metrics">>)
      /\ Plain(<<"oauth">>) /\ Plain(<<"mock", "oauth">>)
      /\ Plain(<<"oauth", "amocrm", "callback">>)
  BY DEF Plain, Param
<1>3. /\ Outside(<<"health">>) /\ Outside(<<"metrics">>)
      /\ Outside(<<"oauth">>) /\ Outside(<<"mock", "oauth">>)
      /\ Outside(<<"oauth", "amocrm", "callback">>)
  BY DEF Outside
<1>4. PlainEntry(PublicRoutes[1]) /\ PublicRoutes[1].handler = "health"
  <2>1. PublicRoutes[1] = Route("GET", <<"health">>, "health")  BY DEF PublicRoutes
  <2> QED  BY <1>1, <1>2, <1>3, <2>1 DEF PlainEntry, Route, PlainHandler
<1>5. PlainEntry(PublicRoutes[2]) /\ PublicRoutes[2].handler = "metrics"
  <2>1. PublicRoutes[2] = Route("GET", <<"metrics">>, "metrics")  BY DEF PublicRoutes
  <2> QED  BY <1>1, <1>2, <1>3, <2>1 DEF PlainEntry, Route, PlainHandler
<1>6. PlainEntry(PublicRoutes[3]) /\ PublicRoutes[3].handler = "health"
  <2> DEFINE q == CrmPrefix \o <<"health">>
  <2>1. PublicRoutes[3] = Route("GET", q, "health")  BY DEF PublicRoutes
  <2>2. q \in Patterns /\ Plain(q) /\ Outside(q) /\ q[Len(q)] = "health"
    <3>1. /\ Len(<<"health">>) = 1 /\ 1 \in Nat \ {0}
          /\ <<"health">>[1] \in {"health", "oauth", "mock"}
      OBVIOUS
    <3> QED  BY <1>1, <1>2, <3>1, PlainBehindCrm
  <2> HIDE DEF q
  <2> QED  BY <2>1, <2>2 DEF PlainEntry, Route, PlainHandler
<1>7. ASSUME NEW i \in 1 .. 3
      PROVE  PlainEntry(Stack[i]) /\ Stack[i].handler \in {"health", "metrics"}
  <2>1. Stack[i] = PublicRoutes[i]  BY StackSections
  <2> QED  BY <1>4, <1>5, <1>6, <2>1
<1>8. PlainEntry(CallbackRoutes[1]) /\ CallbackRoutes[1].handler = "AmoCRMCallback"
  <2> DEFINE q == CrmPrefix \o <<"oauth", "amocrm", "callback">>
  <2>1. CallbackRoutes[1] = Route("GET", q, "AmoCRMCallback")  BY DEF CallbackRoutes
  <2>2. q \in Patterns /\ Plain(q) /\ Outside(q) /\ q[Len(q)] = "callback"
    <3> DEFINE p == <<"oauth", "amocrm", "callback">>
    <3>1. /\ Len(p) = 3 /\ 3 \in Nat \ {0} /\ p[3] = "callback"
          /\ p[1] \in {"health", "oauth", "mock"}
      OBVIOUS
    <3> QED  BY <1>1, <1>2, <3>1, PlainBehindCrm
  <2> HIDE DEF q
  <2> QED  BY <2>1, <2>2 DEF PlainEntry, Route, PlainHandler
<1>9. PlainEntry(CallbackRoutes[2]) /\ CallbackRoutes[2].handler = "AmoCRMCallback"
  <2>1. CallbackRoutes[2] = Route("GET", <<"oauth", "amocrm", "callback">>, "AmoCRMCallback")
    BY DEF CallbackRoutes
  <2> QED  BY <1>1, <1>2, <1>3, <2>1 DEF PlainEntry, Route, PlainHandler
<1> DEFINE p1 == CrmPrefix \o <<"oauth">>
           p3 == CrmPrefix \o <<"mock", "oauth">>
<1>10. p1 \in Patterns /\ Plain(p1) /\ Outside(p1) /\ ~InMock(p1)
  <2>1. /\ Len(<<"oauth">>) = 1 /\ 1 \in Nat \ {0} /\ <<"oauth">>[1] # "mock"
        /\ <<"oauth">>[1] \in {"health", "oauth", "mock"}
    OBVIOUS
  <2> QED  BY <1>1, <1>2, <2>1, PlainBehindCrm
<1>11. p3 \in Patterns /\ Plain(p3) /\ Outside(p3) /\ InMock(p3)
  BY <1>1, <1>2, PlainBehindCrm
<1>12. ~InMock(<<"oauth">>) /\ InMock(<<"mock", "oauth">>)  BY DEF InMock
<1> HIDE DEF p1, p3
<1> DEFINE r1 == OAuthGroup(p1, "AmoCRMAuth", "AmoCRMRefreshToken")
           r2 == OAuthGroup(<<"oauth">>, "AmoCRMAuth", "AmoCRMRefreshToken")
           r3 == OAuthGroup(p3, "MockAmoCRMAuth", "MockAmoCRMRefreshToken")
           r4 == OAuthGroup(<<"mock", "oauth">>, "MockAmoCRMAuth", "MockAmoCRMRefreshToken")
           good(e) == PlainEntry(e) /\ e.handler \notin {"health", "metrics"}
<1>13. ASSUME NEW p, NEW auth \in Names \ {"health", "metrics"},
              NEW refresh \in Names \ {"health", "metrics"}, NEW j \in 1 .. 3
       PROVE  OAuthGroup(p, auth, refresh)[j].handler \notin {"health", "metrics"}
  BY DEF OAuthGroup, UserID, Route
<1>14. ASSUME NEW j \in 1 .. 3  PROVE good(r1[j])
  BY <1>10, <1>13, PlainGroup DEF Names
<1>15. ASSUME NEW j \in 1 .. 3  PROVE good(r2[j])
  BY <1>1, <1>2, <1>3, <1>12, <1>13, PlainGroup DEF Names
<1>16. ASSUME NEW j \in 1 .. 3  PROVE good(r3[j])
  BY <1>11, <1>13, PlainGroup DEF Names
<1>17. ASSUME NEW j \in 1 .. 3  PROVE good(r4[j])
  BY <1>1, <1>2, <1>3, <1>12, <1>13, PlainGroup DEF Names
<1>18. \A j \in 1 .. 3 : /\ OAuthRoutes[j] = r1[j] /\ OAuthRoutes[3 + j] = r2[j]
                         /\ OAuthRoutes[6 + j] = r3[j] /\ OAuthRoutes[9 + j] = r4[j]
  BY OAuthTyped DEF p1, p3
<1> HIDE DEF r1, r2, r3, r4
<1>19. ASSUME NEW j \in 1 .. 12  PROVE good(OAuthRoutes[j])
  <2>1. CASE j \in 1 .. 3  BY <1>14, <1>18, <2>1
  <2>2. CASE j - 3 \in 1 .. 3
    <3>1. OAuthRoutes[3 + (j - 3)] = r2[j - 3] /\ 3 + (j - 3) = j  BY <1>18, <2>2
    <3> QED  BY <1>15, <2>2, <3>1
  <2>3. CASE j - 6 \in 1 .. 3
    <3>1. OAuthRoutes[6 + (j - 6)] = r3[j - 6] /\ 6 + (j - 6) = j  BY <1>18, <2>3
    <3> QED  BY <1>16, <2>3, <3>1
  <2>4. CASE j - 9 \in 1 .. 3
    <3>1. OAuthRoutes[9 + (j - 9)] = r4[j - 9] /\ 9 + (j - 9) = j  BY <1>18, <2>4
    <3> QED  BY <1>17, <2>4, <3>1
  <2> QED  BY <2>1, <2>2, <2>3, <2>4
<1>20. ASSUME NEW i \in 60 .. 73  PROVE good(Stack[i])
  <2>1. CASE i = 60
    <3>1. 1 \in 1 .. 2 /\ 59 + 1 = 60  OBVIOUS
    <3>2. Stack[60] = CallbackRoutes[1]  BY <3>1, StackSections
    <3> QED  BY <1>8, <2>1, <3>2
  <2>2. CASE i = 61
    <3>1. 2 \in 1 .. 2 /\ 59 + 2 = 61  OBVIOUS
    <3>2. Stack[61] = CallbackRoutes[2]  BY <3>1, StackSections
    <3> QED  BY <1>9, <2>2, <3>2
  <2>3. CASE i - 61 \in 1 .. 12
    <3>1. PICK j \in 1 .. 12 : j = i - 61  BY <2>3
    <3>2. 61 + j = i  BY <3>1
    <3>3. Stack[61 + j] = OAuthRoutes[j]  BY StackSections
    <3> QED  BY <1>19, <3>2, <3>3
  <2> QED  BY <2>1, <2>2, <2>3
<1> QED  BY <1>7, <1>20

-----------------------------------------------------------------------------
(* The routes of a group.                                                  *)

(* Which is which.                                                         *)
LEMMA RouteTable ==
    /\ Routes[1] = Route("GET", <<"configs">>, "GetCRMConfigs")
    /\ Routes[2] = Route("GET", <<"configs", Param>>, "GetCRMConfigByType")
    /\ Routes[3] = Route("POST", <<"configs", Param>>, "SaveCRMConfig")
    /\ Routes[4] = Route("POST", <<"configs", Param, "active">>, "SetCRMConfigActive")
    /\ Routes[5] = Route("GET", <<"configs", Param, "custom-fields">>, "GetCustomFields")
    /\ Routes[6] = Route("POST", <<"configs", Param, "custom-fields">>, "CreateCustomField")
    /\ Routes[7] = Route("POST", <<"configs", Param, "marusia-source-field">>, "SetMarusiaSourceFieldID")
    /\ Routes[8] = Route("POST", <<"configs", Param, "default-lead-settings">>, "SetDefaultLeadSettings")
    /\ Routes[9] = Route("GET", <<"configs", Param, "channels">>, "GetChannelSettings")
    /\ Routes[10] = Route("POST", <<"configs", Param, "channels">>, "SetChannelSettings")
    /\ Routes[11] = Route("DELETE", <<"configs", Param>>, "DeleteCRMConfigByType")
    /\ Routes[12] = Route("GET", <<"configs", Param, "test">>, "TestConnectionByType")
    /\ Routes[13] = Route("POST", <<"leads">>, "CreateLead")
    /\ Routes[14] = Route("POST", <<"leads", Param, "ai-dialog", Param>>, "CreateAIDialogLead")
    /\ Routes[15] = Route("GET", <<"leads", Param, "by-contact", Param>>, "GetLeadsByContactID")
    /\ Routes[16] = Route("PATCH", <<"leads", Param, Param>>, "UpdateLead")
    /\ Routes[17] = Route("GET", <<"leads", Param, Param>>, "GetLead")
    /\ Routes[18] = Route("POST", <<"leads", Param, Param, "notes">>, "CreateLeadNote")
    /\ Routes[19] = Route("GET", <<"pipelines", Param>>, "GetPipelines")
    /\ Routes[20] = Route("GET", <<"talks", Param, Param>>, "GetTalk")
    /\ Routes[21] = Route("GET", <<"contacts", Param, "custom-fields">>, "GetContactCustomFields")
    /\ Routes[22] = Route("POST", <<"contacts", Param, "custom-fields">>, "CreateContactCustomField")
    /\ Routes[23] = Route("POST", <<"contacts", Param>>, "CreateContact")
    /\ Routes[24] = Route("GET", <<"contacts", Param, Param>>, "GetContact")
    /\ Routes[25] = Route("PATCH", <<"contacts", Param, Param>>, "UpdateContact")
    /\ Routes[26] = Route("GET", <<"contacts", Param, "search">>, "FindContactByPhone")
    /\ Routes[27] = Route("GET", <<"contacts", Param, "search-by-alt">>, "FindContactByAltContact")
<1>1. /\ Routes[1] = Route("GET", <<"configs">>, "GetCRMConfigs")
      /\ Routes[2] = Route("GET", <<"configs", Param>>, "GetCRMConfigByType")
      /\ Routes[3] = Route("POST", <<"configs", Param>>, "SaveCRMConfig")
      /\ Routes[4] = Route("POST", <<"configs", Param, "active">>, "SetCRMConfigActive")
      /\ Routes[5] = Route("GET", <<"configs", Param, "custom-fields">>, "GetCustomFields")
      /\ Routes[6] = Route("POST", <<"configs", Param, "custom-fields">>, "CreateCustomField")
      /\ Routes[7] = Route("POST", <<"configs", Param, "marusia-source-field">>, "SetMarusiaSourceFieldID")
      /\ Routes[8] = Route("POST", <<"configs", Param, "default-lead-settings">>, "SetDefaultLeadSettings")
      /\ Routes[9] = Route("GET", <<"configs", Param, "channels">>, "GetChannelSettings")
      /\ Routes[10] = Route("POST", <<"configs", Param, "channels">>, "SetChannelSettings")
      /\ Routes[11] = Route("DELETE", <<"configs", Param>>, "DeleteCRMConfigByType")
      /\ Routes[12] = Route("GET", <<"configs", Param, "test">>, "TestConnectionByType")
  <2>1. \A i \in 1 .. 12 : Routes[i] = ConfigRoutes[i]  BY RoutesParts
  <2>2. /\ Routes[1] = ConfigRoutes[1]
        /\ Routes[2] = ConfigRoutes[2]
        /\ Routes[3] = ConfigRoutes[3]
        /\ Routes[4] = ConfigRoutes[4]
        /\ Routes[5] = ConfigRoutes[5]
        /\ Routes[6] = ConfigRoutes[6]
        /\ Routes[7] = ConfigRoutes[7]
        /\ Routes[8] = ConfigRoutes[8]
        /\ Routes[9] = ConfigRoutes[9]
        /\ Routes[10] = ConfigRoutes[10]
        /\ Routes[11] = ConfigRoutes[11]
        /\ Routes[12] = ConfigRoutes[12]
    BY <2>1
  <2> QED  BY <2>2 DEF ConfigRoutes
<1>2. /\ Routes[13] = Route("POST", <<"leads">>, "CreateLead")
      /\ Routes[14] = Route("POST", <<"leads", Param, "ai-dialog", Param>>, "CreateAIDialogLead")
      /\ Routes[15] = Route("GET", <<"leads", Param, "by-contact", Param>>, "GetLeadsByContactID")
      /\ Routes[16] = Route("PATCH", <<"leads", Param, Param>>, "UpdateLead")
      /\ Routes[17] = Route("GET", <<"leads", Param, Param>>, "GetLead")
      /\ Routes[18] = Route("POST", <<"leads", Param, Param, "notes">>, "CreateLeadNote")
      /\ Routes[19] = Route("GET", <<"pipelines", Param>>, "GetPipelines")
      /\ Routes[20] = Route("GET", <<"talks", Param, Param>>, "GetTalk")
  <2>1. \A i \in 1 .. 8 : Routes[12 + i] = LeadRoutes[i]  BY RoutesParts
  <2>3. Routes[13] = LeadRoutes[1]
    <3>1. 1 \in 1 .. 8 /\ 12 + 1 = 13  OBVIOUS
    <3> QED  BY <2>1, <3>1
  <2>4. Routes[14] = LeadRoutes[2]
    <3>1. 2 \in 1 .. 8 /\ 12 + 2 = 14  OBVIOUS
    <3> QED  BY <2>1, <3>1
  <2>5. Routes[15] = LeadRoutes[3]
    <3>1. 3 \in 1 .. 8 /\ 12 + 3 = 15  OBVIOUS
    <3> QED  BY <2>1, <3>1
  <2>6. Routes[16] = LeadRoutes[4]
    <3>1. 4 \in 1 .. 8 /\ 12 + 4 = 16  OBVIOUS
    <3> QED  BY <2>1, <3>1
  <2>7. Routes[17] = LeadRoutes[5]
    <3>1. 5 \in 1 .. 8 /\ 12 + 5 = 17  OBVIOUS
    <3> QED  BY <2>1, <3>1
  <2>8. Routes[18] = LeadRoutes[6]
    <3>1. 6 \in 1 .. 8 /\ 12 + 6 = 18  OBVIOUS
    <3> QED  BY <2>1, <3>1
  <2>9. Routes[19] = LeadRoutes[7]
    <3>1. 7 \in 1 .. 8 /\ 12 + 7 = 19  OBVIOUS
    <3> QED  BY <2>1, <3>1
  <2>10. Routes[20] = LeadRoutes[8]
    <3>1. 8 \in 1 .. 8 /\ 12 + 8 = 20  OBVIOUS
    <3> QED  BY <2>1, <3>1
  <2>2. /\ Routes[13] = LeadRoutes[1]
        /\ Routes[14] = LeadRoutes[2]
        /\ Routes[15] = LeadRoutes[3]
        /\ Routes[16] = LeadRoutes[4]
        /\ Routes[17] = LeadRoutes[5]
        /\ Routes[18] = LeadRoutes[6]
        /\ Routes[19] = LeadRoutes[7]
        /\ Routes[20] = LeadRoutes[8]
    BY <2>3, <2>4, <2>5, <2>6, <2>7, <2>8, <2>9, <2>10
  <2> QED  BY <2>2 DEF LeadRoutes
<1>3. /\ Routes[21] = Route("GET", <<"contacts", Param, "custom-fields">>, "GetContactCustomFields")
      /\ Routes[22] = Route("POST", <<"contacts", Param, "custom-fields">>, "CreateContactCustomField")
      /\ Routes[23] = Route("POST", <<"contacts", Param>>, "CreateContact")
      /\ Routes[24] = Route("GET", <<"contacts", Param, Param>>, "GetContact")
      /\ Routes[25] = Route("PATCH", <<"contacts", Param, Param>>, "UpdateContact")
      /\ Routes[26] = Route("GET", <<"contacts", Param, "search">>, "FindContactByPhone")
      /\ Routes[27] = Route("GET", <<"contacts", Param, "search-by-alt">>, "FindContactByAltContact")
  <2>1. \A i \in 1 .. 7 : Routes[20 + i] = ContactRoutes[i]  BY RoutesParts
  <2>3. Routes[21] = ContactRoutes[1]
    <3>1. 1 \in 1 .. 7 /\ 20 + 1 = 21  OBVIOUS
    <3> QED  BY <2>1, <3>1
  <2>4. Routes[22] = ContactRoutes[2]
    <3>1. 2 \in 1 .. 7 /\ 20 + 2 = 22  OBVIOUS
    <3> QED  BY <2>1, <3>1
  <2>5. Routes[23] = ContactRoutes[3]
    <3>1. 3 \in 1 .. 7 /\ 20 + 3 = 23  OBVIOUS
    <3> QED  BY <2>1, <3>1
  <2>6. Routes[24] = ContactRoutes[4]
    <3>1. 4 \in 1 .. 7 /\ 20 + 4 = 24  OBVIOUS
    <3> QED  BY <2>1, <3>1
  <2>7. Routes[25] = ContactRoutes[5]
    <3>1. 5 \in 1 .. 7 /\ 20 + 5 = 25  OBVIOUS
    <3> QED  BY <2>1, <3>1
  <2>8. Routes[26] = ContactRoutes[6]
    <3>1. 6 \in 1 .. 7 /\ 20 + 6 = 26  OBVIOUS
    <3> QED  BY <2>1, <3>1
  <2>9. Routes[27] = ContactRoutes[7]
    <3>1. 7 \in 1 .. 7 /\ 20 + 7 = 27  OBVIOUS
    <3> QED  BY <2>1, <3>1
  <2>2. /\ Routes[21] = ContactRoutes[1]
        /\ Routes[22] = ContactRoutes[2]
        /\ Routes[23] = ContactRoutes[3]
        /\ Routes[24] = ContactRoutes[4]
        /\ Routes[25] = ContactRoutes[5]
        /\ Routes[26] = ContactRoutes[6]
        /\ Routes[27] = ContactRoutes[7]
    BY <2>3, <2>4, <2>5, <2>6, <2>7, <2>8, <2>9
  <2> QED  BY <2>2 DEF ContactRoutes
<1> QED  BY <1>1, <1>2, <1>3

Words == Segments \cup Values

(* Paths that fit a pattern of one to four segments.                       *)
LEMMA FitsOne ==
    ASSUME NEW s \in Seq(Words), NEW a
    PROVE  Fits(s, <<a>>) <=> Len(s) = 1 /\ a \in {Param, s[1]}
BY LenProperties DEF Fits

LEMMA FitsTwo ==
    ASSUME NEW s \in Seq(Words), NEW a, NEW b
    PROVE  Fits(s, <<a, b>>) <=>
              Len(s) = 2 /\ a \in {Param, s[1]} /\ b \in {Param, s[2]}
BY LenProperties DEF Fits

LEMMA FitsThree ==
    ASSUME NEW s \in Seq(Words), NEW a, NEW b, NEW c
    PROVE  Fits(s, <<a, b, c>>) <=>
              /\ Len(s) = 3 /\ a \in {Param, s[1]} /\ b \in {Param, s[2]}
              /\ c \in {Param, s[3]}
BY LenProperties DEF Fits

LEMMA FitsFour ==
    ASSUME NEW s \in Seq(Words), NEW a, NEW b, NEW c, NEW d
    PROVE  Fits(s, <<a, b, c, d>>) <=>
              /\ Len(s) = 4 /\ a \in {Param, s[1]} /\ b \in {Param, s[2]}
              /\ c \in {Param, s[3]} /\ d \in {Param, s[4]}
BY LenProperties DEF Fits

(* The routes of a group that fit.                                         *)
Fitting(m, s) ==
    {k \in 1 .. 27 : Routes[k].method = m /\ Fits(s, Routes[k].pattern)}

LEMMA FittingMeans ==
    ASSUME NEW m, NEW s \in Seq(Words)
    PROVE
      /\ 1 \in Fitting(m, s) <=> m = "GET" /\ Len(s) = 1 /\ s[1] = "configs"
      /\ 2 \in Fitting(m, s) <=> m = "GET" /\ Len(s) = 2 /\ s[1] = "configs"
      /\ 3 \in Fitting(m, s) <=> m = "POST" /\ Len(s) = 2 /\ s[1] = "configs"
      /\ 4 \in Fitting(m, s) <=> m = "POST" /\ Len(s) = 3 /\ s[1] = "configs" /\ s[3] = "active"
      /\ 5 \in Fitting(m, s) <=> m = "GET" /\ Len(s) = 3 /\ s[1] = "configs" /\ s[3] = "custom-fields"
      /\ 6 \in Fitting(m, s) <=> m = "POST" /\ Len(s) = 3 /\ s[1] = "configs" /\ s[3] = "custom-fields"
      /\ 7 \in Fitting(m, s) <=> m = "POST" /\ Len(s) = 3 /\ s[1] = "configs" /\ s[3] = "marusia-source-field"
      /\ 8 \in Fitting(m, s) <=> m = "POST" /\ Len(s) = 3 /\ s[1] = "configs" /\ s[3] = "default-lead-settings"
      /\ 9 \in Fitting(m, s) <=> m = "GET" /\ Len(s) = 3 /\ s[1] = "configs" /\ s[3] = "channels"
      /\ 10 \in Fitting(m, s) <=> m = "POST" /\ Len(s) = 3 /\ s[1] = "configs" /\ s[3] = "channels"
      /\ 11 \in Fitting(m, s) <=> m = "DELETE" /\ Len(s) = 2 /\ s[1] = "configs"
      /\ 12 \in Fitting(m, s) <=> m = "GET" /\ Len(s) = 3 /\ s[1] = "configs" /\ s[3] = "test"
      /\ 13 \in Fitting(m, s) <=> m = "POST" /\ Len(s) = 1 /\ s[1] = "leads"
      /\ 14 \in Fitting(m, s) <=> m = "POST" /\ Len(s) = 4 /\ s[1] = "leads" /\ s[3] = "ai-dialog"
      /\ 15 \in Fitting(m, s) <=> m = "GET" /\ Len(s) = 4 /\ s[1] = "leads" /\ s[3] = "by-contact"
      /\ 16 \in Fitting(m, s) <=> m = "PATCH" /\ Len(s) = 3 /\ s[1] = "leads"
      /\ 17 \in Fitting(m, s) <=> m = "GET" /\ Len(s) = 3 /\ s[1] = "leads"
      /\ 18 \in Fitting(m, s) <=> m = "POST" /\ Len(s) = 4 /\ s[1] = "leads" /\ s[4] = "notes"
      /\ 19 \in Fitting(m, s) <=> m = "GET" /\ Len(s) = 2 /\ s[1] = "pipelines"
      /\ 20 \in Fitting(m, s) <=> m = "GET" /\ Len(s) = 3 /\ s[1] = "talks"
      /\ 21 \in Fitting(m, s) <=> m = "GET" /\ Len(s) = 3 /\ s[1] = "contacts" /\ s[3] = "custom-fields"
      /\ 22 \in Fitting(m, s) <=> m = "POST" /\ Len(s) = 3 /\ s[1] = "contacts" /\ s[3] = "custom-fields"
      /\ 23 \in Fitting(m, s) <=> m = "POST" /\ Len(s) = 2 /\ s[1] = "contacts"
      /\ 24 \in Fitting(m, s) <=> m = "GET" /\ Len(s) = 3 /\ s[1] = "contacts"
      /\ 25 \in Fitting(m, s) <=> m = "PATCH" /\ Len(s) = 3 /\ s[1] = "contacts"
      /\ 26 \in Fitting(m, s) <=> m = "GET" /\ Len(s) = 3 /\ s[1] = "contacts" /\ s[3] = "search"
      /\ 27 \in Fitting(m, s) <=> m = "GET" /\ Len(s) = 3 /\ s[1] = "contacts" /\ s[3] = "search-by-alt"
<1>1. 1 \in Fitting(m, s) <=> m = "GET" /\ Len(s) = 1 /\ s[1] = "configs"
  <2>1. Routes[1] = Route("GET", <<"configs">>, "GetCRMConfigs")  BY RouteTable
  <2> QED  BY <2>1, FitsOne DEF Fitting, Route, Param
<1>2. 2 \in Fitting(m, s) <=> m = "GET" /\ Len(s) = 2 /\ s[1] = "configs"
  <2>1. Routes[2] = Route("GET", <<"configs", Param>>, "GetCRMConfigByType")  BY RouteTable
  <2> QED  BY <2>1, FitsTwo DEF Fitting, Route, Param
<1>3. 3 \in Fitting(m, s) <=> m = "POST" /\ Len(s) = 2 /\ s[1] = "configs"
  <2>1. Routes[3] = Route("POST", <<"configs", Param>>, "SaveCRMConfig")  BY RouteTable
  <2> QED  BY <2>1, FitsTwo DEF Fitting, Route, Param
<1>4. 4 \in Fitting(m, s) <=> m = "POST" /\ Len(s) = 3 /\ s[1] = "configs" /\ s[3] = "active"
  <2>1. Routes[4] = Route("POST", <<"configs", Param, "active">>, "SetCRMConfigActive")  BY RouteTable
  <2> QED  BY <2>1, FitsThree DEF Fitting, Route, Param
<1>5. 5 \in Fitting(m, s) <=> m = "GET" /\ Len(s) = 3 /\ s[1] = "configs" /\ s[3] = "custom-fields"
  <2>1. Routes[5] = Route("GET", <<"configs", Param, "custom-fields">>, "GetCustomFields")  BY RouteTable
  <2> QED  BY <2>1, FitsThree DEF Fitting, Route, Param
<1>6. 6 \in Fitting(m, s) <=> m = "POST" /\ Len(s) = 3 /\ s[1] = "configs" /\ s[3] = "custom-fields"
  <2>1. Routes[6] = Route("POST", <<"configs", Param, "custom-fields">>, "CreateCustomField")  BY RouteTable
  <2> QED  BY <2>1, FitsThree DEF Fitting, Route, Param
<1>7. 7 \in Fitting(m, s) <=> m = "POST" /\ Len(s) = 3 /\ s[1] = "configs" /\ s[3] = "marusia-source-field"
  <2>1. Routes[7] = Route("POST", <<"configs", Param, "marusia-source-field">>, "SetMarusiaSourceFieldID")  BY RouteTable
  <2> QED  BY <2>1, FitsThree DEF Fitting, Route, Param
<1>8. 8 \in Fitting(m, s) <=> m = "POST" /\ Len(s) = 3 /\ s[1] = "configs" /\ s[3] = "default-lead-settings"
  <2>1. Routes[8] = Route("POST", <<"configs", Param, "default-lead-settings">>, "SetDefaultLeadSettings")  BY RouteTable
  <2> QED  BY <2>1, FitsThree DEF Fitting, Route, Param
<1>9. 9 \in Fitting(m, s) <=> m = "GET" /\ Len(s) = 3 /\ s[1] = "configs" /\ s[3] = "channels"
  <2>1. Routes[9] = Route("GET", <<"configs", Param, "channels">>, "GetChannelSettings")  BY RouteTable
  <2> QED  BY <2>1, FitsThree DEF Fitting, Route, Param
<1>10. 10 \in Fitting(m, s) <=> m = "POST" /\ Len(s) = 3 /\ s[1] = "configs" /\ s[3] = "channels"
  <2>1. Routes[10] = Route("POST", <<"configs", Param, "channels">>, "SetChannelSettings")  BY RouteTable
  <2> QED  BY <2>1, FitsThree DEF Fitting, Route, Param
<1>11. 11 \in Fitting(m, s) <=> m = "DELETE" /\ Len(s) = 2 /\ s[1] = "configs"
  <2>1. Routes[11] = Route("DELETE", <<"configs", Param>>, "DeleteCRMConfigByType")  BY RouteTable
  <2> QED  BY <2>1, FitsTwo DEF Fitting, Route, Param
<1>12. 12 \in Fitting(m, s) <=> m = "GET" /\ Len(s) = 3 /\ s[1] = "configs" /\ s[3] = "test"
  <2>1. Routes[12] = Route("GET", <<"configs", Param, "test">>, "TestConnectionByType")  BY RouteTable
  <2> QED  BY <2>1, FitsThree DEF Fitting, Route, Param
<1>13. 13 \in Fitting(m, s) <=> m = "POST" /\ Len(s) = 1 /\ s[1] = "leads"
  <2>1. Routes[13] = Route("POST", <<"leads">>, "CreateLead")  BY RouteTable
  <2> QED  BY <2>1, FitsOne DEF Fitting, Route, Param
<1>14. 14 \in Fitting(m, s) <=> m = "POST" /\ Len(s) = 4 /\ s[1] = "leads" /\ s[3] = "ai-dialog"
  <2>1. Routes[14] = Route("POST", <<"leads", Param, "ai-dialog", Param>>, "CreateAIDialogLead")  BY RouteTable
  <2> QED  BY <2>1, FitsFour DEF Fitting, Route, Param
<1>15. 15 \in Fitting(m, s) <=> m = "GET" /\ Len(s) = 4 /\ s[1] = "leads" /\ s[3] = "by-contact"
  <2>1. Routes[15] = Route("GET", <<"leads", Param, "by-contact", Param>>, "GetLeadsByContactID")  BY RouteTable
  <2> QED  BY <2>1, FitsFour DEF Fitting, Route, Param
<1>16. 16 \in Fitting(m, s) <=> m = "PATCH" /\ Len(s) = 3 /\ s[1] = "leads"
  <2>1. Routes[16] = Route("PATCH", <<"leads", Param, Param>>, "UpdateLead")  BY RouteTable
  <2> QED  BY <2>1, FitsThree DEF Fitting, Route, Param
<1>17. 17 \in Fitting(m, s) <=> m = "GET" /\ Len(s) = 3 /\ s[1] = "leads"
  <2>1. Routes[17] = Route("GET", <<"leads", Param, Param>>, "GetLead")  BY RouteTable
  <2> QED  BY <2>1, FitsThree DEF Fitting, Route, Param
<1>18. 18 \in Fitting(m, s) <=> m = "POST" /\ Len(s) = 4 /\ s[1] = "leads" /\ s[4] = "notes"
  <2>1. Routes[18] = Route("POST", <<"leads", Param, Param, "notes">>, "CreateLeadNote")  BY RouteTable
  <2> QED  BY <2>1, FitsFour DEF Fitting, Route, Param
<1>19. 19 \in Fitting(m, s) <=> m = "GET" /\ Len(s) = 2 /\ s[1] = "pipelines"
  <2>1. Routes[19] = Route("GET", <<"pipelines", Param>>, "GetPipelines")  BY RouteTable
  <2> QED  BY <2>1, FitsTwo DEF Fitting, Route, Param
<1>20. 20 \in Fitting(m, s) <=> m = "GET" /\ Len(s) = 3 /\ s[1] = "talks"
  <2>1. Routes[20] = Route("GET", <<"talks", Param, Param>>, "GetTalk")  BY RouteTable
  <2> QED  BY <2>1, FitsThree DEF Fitting, Route, Param
<1>21. 21 \in Fitting(m, s) <=> m = "GET" /\ Len(s) = 3 /\ s[1] = "contacts" /\ s[3] = "custom-fields"
  <2>1. Routes[21] = Route("GET", <<"contacts", Param, "custom-fields">>, "GetContactCustomFields")  BY RouteTable
  <2> QED  BY <2>1, FitsThree DEF Fitting, Route, Param
<1>22. 22 \in Fitting(m, s) <=> m = "POST" /\ Len(s) = 3 /\ s[1] = "contacts" /\ s[3] = "custom-fields"
  <2>1. Routes[22] = Route("POST", <<"contacts", Param, "custom-fields">>, "CreateContactCustomField")  BY RouteTable
  <2> QED  BY <2>1, FitsThree DEF Fitting, Route, Param
<1>23. 23 \in Fitting(m, s) <=> m = "POST" /\ Len(s) = 2 /\ s[1] = "contacts"
  <2>1. Routes[23] = Route("POST", <<"contacts", Param>>, "CreateContact")  BY RouteTable
  <2> QED  BY <2>1, FitsTwo DEF Fitting, Route, Param
<1>24. 24 \in Fitting(m, s) <=> m = "GET" /\ Len(s) = 3 /\ s[1] = "contacts"
  <2>1. Routes[24] = Route("GET", <<"contacts", Param, Param>>, "GetContact")  BY RouteTable
  <2> QED  BY <2>1, FitsThree DEF Fitting, Route, Param
<1>25. 25 \in Fitting(m, s) <=> m = "PATCH" /\ Len(s) = 3 /\ s[1] = "contacts"
  <2>1. Routes[25] = Route("PATCH", <<"contacts", Param, Param>>, "UpdateContact")  BY RouteTable
  <2> QED  BY <2>1, FitsThree DEF Fitting, Route, Param
<1>26. 26 \in Fitting(m, s) <=> m = "GET" /\ Len(s) = 3 /\ s[1] = "contacts" /\ s[3] = "search"
  <2>1. Routes[26] = Route("GET", <<"contacts", Param, "search">>, "FindContactByPhone")  BY RouteTable
  <2> QED  BY <2>1, FitsThree DEF Fitting, Route, Param
<1>27. 27 \in Fitting(m, s) <=> m = "GET" /\ Len(s) = 3 /\ s[1] = "contacts" /\ s[3] = "search-by-alt"
  <2>1. Routes[27] = Route("GET", <<"contacts", Param, "search-by-alt">>, "FindContactByAltContact")  BY RouteTable
  <2> QED  BY <2>1, FitsThree DEF Fitting, Route, Param
<1> QED
  BY <1>1, <1>2, <1>3, <1>4, <1>5, <1>6, <1>7, <1>8, <1>9,
     <1>10, <1>11, <1>12, <1>13, <1>14, <1>15, <1>16, <1>17, <1>18,
     <1>19, <1>20, <1>21, <1>22, <1>23, <1>24, <1>25, <1>26, <1>27

-----------------------------------------------------------------------------
(* Paths.                                                                  *)

Methods == {"GET", "POST", "PATCH", "DELETE"}

(* A path is as long as its pattern and repeats what is no parameter.      *)
LEMMA PathKept ==
    ASSUME NEW p \in Patterns, NEW s \in PathsOf(p)
    PROVE  /\ s \in Seq(Words) /\ Len(s) = Len(p)
           /\ \A j \in 1 .. Len(p) : p[j] # Param => s[j] = p[j]
<1>1. /\ Len(p) \in Nat /\ DOMAIN p = 1 .. Len(p)
      /\ \A j \in 1 .. Len(p) : p[j] \in Segments
  BY LenProperties DEF Patterns
<1>2. PICK fill \in [{i \in DOMAIN p : p[i] = Param} -> Values] : s = Path(p, fill)
  BY DEF PathsOf
<1>3. s = [i \in 1 .. Len(p) |-> IF p[i] = Param THEN fill[i] ELSE p[i]]
  BY <1>1, <1>2 DEF Path
<1>4. \A i \in 1 .. Len(p) : (IF p[i] = Param THEN fill[i] ELSE p[i]) \in Words
  BY <1>1, <1>2 DEF Words
<1>5. s \in [1 .. Len(p) -> Words]  BY <1>3, <1>4
<1>6. s \in Seq(Words) /\ Len(s) = Len(p)  BY <1>1, <1>5
<1> QED  BY <1>3, <1>6

(* Every route of a group has a first segment of its own and is not public.*)
LEMMA RouteHeads ==
    ASSUME NEW k \in 1 .. 27
    PROVE  /\ Routes[k].method \in Methods /\ Routes[k].pattern \in Patterns
           /\ Len(Routes[k].pattern) \in Nat \ {0}
           /\ Routes[k].pattern[1] \in Heads
           /\ Routes[k].handler \notin Public
           /\ Routes[k].handler = "CreateLeadNote" => Len(Routes[k].pattern) = 4
<1>1. Routes[k].method \in Methods /\ Routes[k].pattern \in Patterns
  BY GroupEntry DEF Endpoints, Methods
<1>2. Len(Routes[k].pattern) \in Nat  BY <1>1, LenProperties DEF Patterns
<1> DEFINE headed(e) ==
              /\ e.pattern[1] \in Heads /\ Len(e.pattern) # 0
              /\ e.handler \notin Public
              /\ e.handler = "CreateLeadNote" => Len(e.pattern) = 4
<1>3. ASSUME NEW i \in 1 .. 12  PROVE headed(Routes[i])
  <2>1. headed(Routes[1])  BY RouteTable DEF Route, Heads, Public
  <2>2. headed(Routes[2])  BY RouteTable DEF Route, Heads, Public
  <2>3. headed(Routes[3])  BY RouteTable DEF Route, Heads, Public
  <2>4. headed(Routes[4])  BY RouteTable DEF Route, Heads, Public
  <2>5. headed(Routes[5])  BY RouteTable DEF Route, Heads, Public
  <2>6. headed(Routes[6])  BY RouteTable DEF Route, Heads, Public
  <2>7. headed(Routes[7])  BY RouteTable DEF Route, Heads, Public
  <2>8. headed(Routes[8])  BY RouteTable DEF Route, Heads, Public
  <2>9. headed(Routes[9])  BY RouteTable DEF Route, Heads, Public
  <2>10. headed(Routes[10])  BY RouteTable DEF Route, Heads, Public
  <2>11. headed(Routes[11])  BY RouteTable DEF Route, Heads, Public
  <2>12. headed(Routes[12])  BY RouteTable DEF Route, Heads, Public
  <2> HIDE DEF headed
  <2> QED  BY <2>1, <2>2, <2>3, <2>4, <2>5, <2>6, <2>7, <2>8, <2>9, <2>10, <2>11, <2>12
<1>4. ASSUME NEW i \in 1 .. 8  PROVE headed(LeadRoutes[i])
  BY DEF LeadRoutes, Route, Heads, Public
<1>5. ASSUME NEW i \in 1 .. 7  PROVE headed(ContactRoutes[i])
  BY DEF ContactRoutes, Route, Heads, Public
<1> HIDE DEF headed
<1>6. headed(Routes[k])
  <2>1. CASE k \in 1 .. 12  BY <1>3, <2>1
  <2>2. CASE k \in 13 .. 20
    <3>1. PICK i \in 1 .. 8 : i = k - 12  BY <2>2
    <3>2. 12 + i = k  BY <3>1
    <3>3. Routes[12 + i] = LeadRoutes[i]  BY RoutesParts
    <3> QED  BY <1>4, <3>2, <3>3
  <2>3. CASE k \in 21 .. 27
    <3>1. PICK i \in 1 .. 7 : i = k - 20  BY <2>3
    <3>2. 20 + i = k  BY <3>1
    <3>3. Routes[20 + i] = ContactRoutes[i]  BY RoutesParts
    <3> QED  BY <1>5, <3>2, <3>3
  <2> QED  BY <2>1, <2>2, <2>3
<1> QED  BY <1>1, <1>2, <1>6 DEF headed

(* The paths of requests are of three kinds: behind the prefix of the API  *)
(* group, those of the legacy group, and those of the other entries.       *)
ApiPath(s) ==
    /\ Len(s) >= 3 /\ s[1] = "v1" /\ s[2] = "crm" /\ s[3] = "api"
    /\ Len(s) > 3 => s[4] \in Heads

LegacyPath(s) == Len(s) > 0 => s[1] \in Heads

(* The entries of the stack, again.                                        *)
LEMMA EntryKinds ==
    ASSUME NEW i \in 1 .. 73
    PROVE  \/ i \in 1 .. 3 \cup 60 .. 73 /\ PlainEntry(Stack[i])
           \/ i = 4 /\ Stack[i].method = "use" /\ Stack[i].pattern = ApiPrefix
           \/ i = 5 /\ Stack[i].method = "use" /\ Stack[i].pattern = <<>>
           \/ \E k \in 1 .. 27 : i = 5 + k
           \/ \E k \in 1 .. 27 : i = 32 + k
<1>1. CASE i \in 1 .. 3 \cup 60 .. 73  BY <1>1, PlainEntries
<1>2. CASE i = 4  BY <1>2, StackSections DEF UserID, Route
<1>3. CASE i = 5  BY <1>3, StackSections DEF UserID, Route
<1>4. CASE i \in 6 .. 32
  <2>1. i - 5 \in 1 .. 27 /\ i = 5 + (i - 5)  BY <1>4
  <2> QED  BY <2>1
<1>5. CASE i \in 33 .. 59
  <2>1. i - 32 \in 1 .. 27 /\ i = 32 + (i - 32)  BY <1>5
  <2> QED  BY <2>1
<1> QED  BY <1>1, <1>2, <1>3, <1>4, <1>5

LEMMA RequestPaths ==
    ASSUME NEW r \in Requests
    PROVE  /\ r.path \in Seq(Words) /\ r.method \in Methods
           /\ ApiPath(r.path) \/ LegacyPath(r.path) \/ Outside(r.path)
<1>1. r.method \in Methods /\ r.path \in Paths  BY DEF Requests, Methods
<1>2. PICK i \in DOMAIN Stack : r.path \in PathsOf(Stack[i].pattern)
  BY <1>1 DEF Paths
<1>3. i \in 1 .. 73  BY StackSections, LenProperties
<1> DEFINE p == Stack[i].pattern
           s == r.path
<1>4. p \in Patterns
  <2>1. Stack \in Seq(Entries) /\ Len(Stack) = 73  BY StackSections
  <2>2. Stack[i] \in Entries  BY <1>3, <2>1, ElementOfSeq
  <2> QED  BY <2>2 DEF Entries, Endpoints, Middlewares
<1>5. /\ s \in Seq(Words) /\ Len(s) = Len(p)
      /\ \A j \in 1 .. Len(p) : p[j] # Param => s[j] = p[j]
  BY <1>2, <1>4, PathKept
<1> HIDE DEF s
<1>6. CASE PlainEntry(Stack[i])
  <2>1. Plain(p) /\ Outside(p)  BY <1>6 DEF PlainEntry
  <2>2. Len(p) \in Nat  BY <1>4, LenProperties DEF Patterns
  <2> HIDE DEF p
  <2>3. s[1] = p[1] /\ (Len(p) >= 3 => s[3] = p[3])
    BY <1>5, <2>1, <2>2 DEF Plain, Outside
  <2>4. Outside(s)  BY <1>5, <2>1, <2>3 DEF Outside
  <2> QED  BY <1>1, <1>5, <2>4 DEF s
<1>7. CASE p = ApiPrefix
  <2>1. Len(p) = 3 /\ p[1] = "v1" /\ p[2] = "crm" /\ p[3] = "api"
    BY <1>7, ApiPrefixIs
  <2> HIDE DEF p
  <2>2. s[1] = "v1" /\ s[2] = "crm" /\ s[3] = "api"  BY <1>5, <2>1 DEF Param
  <2>3. ApiPath(s)  BY <1>5, <2>1, <2>2 DEF ApiPath
  <2> QED  BY <1>1, <1>5, <2>3 DEF s
<1>8. CASE p = <<>>
  <2>1. Len(p) = 0  BY <1>8
  <2>2. LegacyPath(s)  BY <1>5, <2>1 DEF LegacyPath
  <2> QED  BY <1>1, <1>5, <2>2 DEF s
<1>9. ASSUME NEW k \in 1 .. 27, i = 5 + k
      PROVE  ApiPath(s)
  <2> DEFINE n == Len(Routes[k].pattern)
  <2>1. /\ Routes[k].pattern \in Patterns /\ n \in Nat \ {0}
        /\ Routes[k].pattern[1] \in Heads
    BY RouteHeads
  <2>2. p = ApiPrefix \o Routes[k].pattern
    <3>1. Stack[i] = Route(Routes[k].method, ApiPrefix \o Routes[k].pattern, Routes[k].handler)
      BY <1>9, GroupEntry
    <3> QED  BY <3>1 DEF Route
  <2> HIDE DEF p
  <2>3. /\ Len(p) = 3 + n /\ p[1] = "v1" /\ p[2] = "crm" /\ p[3] = "api"
        /\ \A j \in 1 .. n : p[3 + j] = Routes[k].pattern[j]
    BY <2>1, <2>2, BehindApi
  <2> HIDE DEF n
  <2>4. p[4] = Routes[k].pattern[1]
    <3>1. 1 \in 1 .. n /\ 3 + 1 = 4  BY <2>1
    <3> QED  BY <2>3, <3>1
  <2>5. /\ 1 \in 1 .. Len(p) /\ 2 \in 1 .. Len(p) /\ 3 \in 1 .. Len(p) /\ 4 \in 1 .. Len(p)
    BY <2>1, <2>3
  <2>6. p[4] # Param  BY <2>1, <2>4 DEF Heads, Param
  <2>7. s[1] = "v1" /\ s[2] = "crm" /\ s[3] = "api" /\ s[4] \in Heads
    BY <1>5, <2>1, <2>3, <2>4, <2>5, <2>6 DEF Param
  <2> QED  BY <1>5, <2>1, <2>3, <2>7 DEF ApiPath
<1>10. ASSUME NEW k \in 1 .. 27, i = 32 + k
       PROVE  LegacyPath(s)
  <2>1. p = Routes[k].pattern
    <3>1. Stack[i] = Route(Routes[k].method, Routes[k].pattern, Routes[k].handler)
      BY <1>10, GroupEntry
    <3> QED  BY <3>1 DEF Route
  <2>2. Len(p) \in Nat \ {0} /\ p[1] \in Heads  BY <2>1, RouteHeads
  <2> HIDE DEF p
  <2>3. s[1] = p[1]  BY <1>5, <2>2 DEF Heads, Param
  <2> QED  BY <2>2, <2>3 DEF LegacyPath
<1> QED
  BY <1>1, <1>3, <1>5, <1>6, <1>7, <1>8, <1>9, <1>10, EntryKinds DEF s

(* What is behind the prefix fits the route without it.                    *)
LEMMA FitsBehind ==
    ASSUME NEW s \in Seq(Words), ApiPath(s), NEW p \in Patterns
    PROVE  LET t == SubSeq(s, 4, Len(s))
           IN  /\ t \in Seq(Words) /\ LegacyPath(t)
               /\ Len(t) = Len(s) - 3 /\ \A j \in 1 .. Len(t) : t[j] = s[3 + j]
               /\ Fits(s, ApiPrefix \o p) <=> Fits(t, p)
<1> DEFINE t == SubSeq(s, 4, Len(s))
           q == ApiPrefix \o p
           n == Len(p)
<1>1. /\ Len(s) \in Nat /\ Len(s) >= 3 /\ DOMAIN s = 1 .. Len(s)
      /\ \A i \in 1 .. Len(s) : s[i] \in Words
  BY LenProperties DEF ApiPath
<1>2. \A i \in 4 .. Len(s) : s[i] \in Words  BY <1>1
<1>3. /\ t \in Seq(Words)
      /\ Len(t) = IF 4 <= Len(s) THEN Len(s) - 4 + 1 ELSE 0
      /\ \A i \in 1 .. Len(s) - 4 + 1 : t[i] = s[4 + i - 1]
  BY <1>1, <1>2, SubSeqProperties
<1> HIDE DEF t
<1>4. Len(t) = Len(s) - 3
  <2>1. Len(s) \in Nat /\ Len(s) >= 3  BY <1>1
  <2>2. Len(t) = IF 4 <= Len(s) THEN Len(s) - 4 + 1 ELSE 0  BY <1>3
  <2>3. \A l \in Nat : l >= 3 => (IF 4 <= l THEN l - 4 + 1 ELSE 0) = l - 3
    OBVIOUS
  <2> QED  BY <2>1, <2>2, <2>3, Zenon
<1>5. ASSUME NEW j \in 1 .. Len(t)  PROVE t[j] = s[3 + j]
  <2>1. j \in 1 .. Len(s) - 4 + 1 /\ 4 + j - 1 = 3 + j  BY <1>1, <1>4
  <2> QED  BY <1>3, <2>1
<1>6. LegacyPath(t)
  <2> SUFFICES ASSUME Len(t) > 0  PROVE t[1] \in Heads
    BY DEF LegacyPath
  <2>1. t[1] = s[3 + 1] /\ Len(s) > 3  BY <1>1, <1>4, <1>5
  <2> QED  BY <2>1 DEF ApiPath
<1>7. n \in Nat /\ Len(p) = n  BY LenProperties DEF Patterns
<1>8. /\ q \in Patterns /\ Len(q) = 3 + n
      /\ q[1] = "v1" /\ q[2] = "crm" /\ q[3] = "api"
      /\ \A j \in 1 .. n : q[3 + j] = p[j]
  BY <1>7, BehindApi
<1> HIDE DEF n, q
<1>9. DOMAIN t = 1 .. Len(t)  BY <1>3, LenProperties
<1>10. ASSUME Fits(s, q)  PROVE Fits(t, p)
  <2>1. Len(s) = 3 + n /\ \A i \in 1 .. Len(s) : q[i] \in {Param, s[i]}
    BY <1>1, <1>8, <1>10 DEF Fits
  <2>2. Len(t) = Len(p)  BY <1>1, <1>4, <1>7, <2>1
  <2>3. ASSUME NEW j \in 1 .. Len(t)  PROVE p[j] \in {Param, t[j]}
    <3>1. 3 + j \in 1 .. Len(s) /\ j \in 1 .. n  BY <1>1, <1>4, <1>7, <2>1
    <3>2. q[3 + j] \in {Param, s[3 + j]}  BY <2>1, <3>1
    <3>3. q[3 + j] = p[j] /\ t[j] = s[3 + j]  BY <1>5, <1>8, <3>1
    <3> QED  BY <3>2, <3>3
  <2> QED  BY <1>9, <2>2, <2>3 DEF Fits
<1>11. ASSUME Fits(t, p)  PROVE Fits(s, q)
  <2>1. Len(t) = n /\ \A j \in 1 .. Len(t) : p[j] \in {Param, t[j]}
    BY <1>7, <1>9, <1>11 DEF Fits
  <2>2. Len(s) = Len(q)
    <3>1. Len(s) \in Nat /\ n \in Nat  BY <1>1, <1>7
    <3>2. Len(t) = n /\ Len(t) = Len(s) - 3 /\ Len(q) = 3 + n  BY <1>4, <1>8, <2>1
    <3>3. \A l, k \in Nat : k = l - 3 => l = 3 + k  OBVIOUS
    <3> QED  BY <3>1, <3>2, <3>3, Zenon
  <2>3. ASSUME NEW i \in 1 .. Len(s)  PROVE q[i] \in {Param, s[i]}
    <3>1. CASE i \in 1 .. 3  BY <1>8, <3>1 DEF ApiPath
    <3>2. CASE i > 3
      <4>1. PICK j \in 1 .. n : i = 3 + j
        <5>1. i - 3 \in 1 .. n /\ i = 3 + (i - 3)  BY <1>1, <1>4, <1>7, <2>1, <3>2
        <5> QED  BY <5>1
      <4>2. q[i] = p[j] /\ t[j] = s[i] /\ p[j] \in {Param, t[j]}
        BY <1>5, <1>8, <2>1, <4>1
      <4> QED  BY <4>2
    <3> QED  BY <3>1, <3>2
  <2> QED  BY <1>1, <2>2, <2>3 DEF Fits
<1> QED  BY <1>3, <1>4, <1>5, <1>6, <1>10, <1>11 DEF t, q

-----------------------------------------------------------------------------
(* Which route answers.                                                    *)

LEMMA FitsWhere ==
    ASSUME NEW s \in Seq(Words), NEW p \in Patterns, Fits(s, p)
    PROVE  /\ Len(s) \in Nat /\ Len(p) = Len(s)
           /\ \A j \in 1 .. Len(s) : p[j] = Param \/ p[j] = s[j]
BY LenProperties DEF Fits

LEMMA PlainFits ==
    ASSUME NEW s \in Seq(Words), NEW p \in Patterns, Plain(p), Fits(s, p)
    PROVE  s = p
<1>1. /\ DOMAIN s = 1 .. Len(s) /\ DOMAIN p = 1 .. Len(p)
      /\ s = [i \in DOMAIN s |-> s[i]] /\ p = [i \in DOMAIN p |-> p[i]]
  BY LenProperties DEF Patterns
<1>2. /\ Len(p) = Len(s) /\ \A j \in 1 .. Len(s) : p[j] = s[j]
  BY FitsWhere DEF Plain
<1> QED  BY <1>1, <1>2

(* The entries of the stack that would answer.                             *)
OnStack(m, s) ==
    {i \in DOMAIN Stack : Stack[i].method = m /\ Fits(s, Stack[i].pattern)}

(* What an entry that fits is, by the kind of its path.                    *)
LEMMA FitsKinds ==
    ASSUME NEW m \in Methods, NEW s \in Seq(Words), NEW i \in OnStack(m, s)
    PROVE  \/ /\ i \in 1 .. 3 \cup 60 .. 73
              /\ Outside(s) /\ Stack[i].handler = PlainHandler(s)
           \/ /\ \E k \in 1 .. 27 : i = 5 + k
              /\ Len(s) > 3 /\ s[1] = "v1" /\ s[2] = "crm" /\ s[3] = "api"
           \/ /\ \E k \in 1 .. 27 : i = 32 + k
              /\ Len(s) > 0 /\ s[1] \in Heads
<1>1. i \in 1 .. 73 /\ Stack[i].method = m /\ Fits(s, Stack[i].pattern)
  BY StackFacts DEF OnStack
<1>2. m # "use"  BY DEF Methods
<1> DEFINE p == Stack[i].pattern
<1>3. CASE i \in 1 .. 3 \cup 60 .. 73 /\ PlainEntry(Stack[i])
  <2>1. p \in Patterns /\ Plain(p) /\ Outside(p) /\ Stack[i].handler = PlainHandler(p)
    BY <1>1, <1>2, <1>3 DEF PlainEntry
  <2>2. s = p  BY <1>1, <2>1, PlainFits
  <2> QED  BY <1>3, <2>1, <2>2
<1>4. CASE \E k \in 1 .. 27 : i = 5 + k
  <2>1. PICK k \in 1 .. 27 : i = 5 + k  BY <1>4
  <2> DEFINE n == Len(Routes[k].pattern)
  <2>2. p = ApiPrefix \o Routes[k].pattern
    <3>1. Stack[i] = Route(Routes[k].method, ApiPrefix \o Routes[k].pattern, Routes[k].handler)
      BY <2>1, GroupEntry
    <3> QED  BY <3>1 DEF Route
  <2>3. Routes[k].pattern \in Patterns /\ n \in Nat \ {0}  BY RouteHeads
  <2> HIDE DEF p
  <2>4. p \in Patterns /\ Len(p) = 3 + n /\ p[1] = "v1" /\ p[2] = "crm" /\ p[3] = "api"
    BY <2>2, <2>3, BehindApi
  <2>5. /\ Len(s) \in Nat /\ Len(p) = Len(s)
        /\ \A j \in 1 .. Len(s) : p[j] = Param \/ p[j] = s[j]
    BY <1>1, <2>4, FitsWhere DEF p
  <2> HIDE DEF n
  <2>6. Len(s) = 3 + n /\ 1 \in 1 .. Len(s) /\ 2 \in 1 .. Len(s) /\ 3 \in 1 .. Len(s)
    BY <2>3, <2>4, <2>5
  <2>7. s[1] = "v1" /\ s[2] = "crm" /\ s[3] = "api"
    BY <2>4, <2>5, <2>6 DEF Param
  <2>8. Len(s) > 3  BY <2>3, <2>6
  <2> QED  BY <1>4, <2>7, <2>8
<1>5. CASE \E k \in 1 .. 27 : i = 32 + k
  <2>1. PICK k \in 1 .. 27 : i = 32 + k  BY <1>5
  <2>2. p = Routes[k].pattern
    <3>1. Stack[i] = Route(Routes[k].method, Routes[k].pattern, Routes[k].handler)
      BY <2>1, GroupEntry
    <3> QED  BY <3>1 DEF Route
  <2>3. p \in Patterns /\ Len(p) \in Nat \ {0} /\ p[1] \in Heads
    BY <2>2, RouteHeads
  <2> HIDE DEF p
  <2>4. /\ Len(s) \in Nat /\ Len(p) = Len(s)
        /\ \A j \in 1 .. Len(s) : p[j] = Param \/ p[j] = s[j]
    BY <1>1, <2>3, FitsWhere DEF p
  <2>5. Len(s) > 0 /\ 1 \in 1 .. Len(s)  BY <2>3, <2>4
  <2>6. s[1] = p[1]  BY <2>3, <2>4, <2>5 DEF Heads, Param
  <2> QED  BY <1>5, <2>3, <2>5, <2>6
<1> QED  BY <1>1, <1>2, <1>3, <1>4, <1>5, EntryKinds

LEMMA KindsDiffer ==
    ASSUME NEW s, Len(s) \in Nat
    PROVE  /\ ApiPath(s) => ~Outside(s) /\ ~(Len(s) > 0 /\ s[1] \in Heads)
           /\ LegacyPath(s) => ~Outside(s) /\ ~(Len(s) > 0 /\ s[1] = "v1")
           /\ Outside(s) => ~(s[1] = "v1" /\ s[3] = "api") /\ s[1] \notin Heads
BY DEF ApiPath, LegacyPath, Outside, Heads

(* Behind the prefix of the API group only its routes answer.              *)
LEMMA OnStackApi ==
    ASSUME NEW m \in Methods, NEW s \in Seq(Words), ApiPath(s)
    PROVE  OnStack(m, s) = {5 + k : k \in Fitting(m, SubSeq(s, 4, Len(s)))}
<1> DEFINE t == SubSeq(s, 4, Len(s))
<1>1. Len(s) \in Nat  BY LenProperties
<1>2. ASSUME NEW k \in 1 .. 27
      PROVE  5 + k \in OnStack(m, s) <=> k \in Fitting(m, t)
  <2>1. Stack[5 + k] = Route(Routes[k].method, ApiPrefix \o Routes[k].pattern, Routes[k].handler)
    BY GroupEntry
  <2>2. Fits(s, ApiPrefix \o Routes[k].pattern) <=> Fits(t, Routes[k].pattern)
    <3>1. Routes[k].pattern \in Patterns  BY RouteHeads
    <3> QED  BY <3>1, FitsBehind, Zenon
  <2>3. 5 + k \in DOMAIN Stack
    <3>1. DOMAIN Stack = 1 .. 73  BY StackFacts
    <3> QED  BY <3>1
  <2>4. /\ Stack[5 + k].method = Routes[k].method
        /\ Stack[5 + k].pattern = ApiPrefix \o Routes[k].pattern
    BY <2>1 DEF Route
  <2> HIDE DEF t
  <2> QED  BY <2>2, <2>3, <2>4, Zenon DEF OnStack, Fitting
<1>3. ASSUME NEW i \in OnStack(m, s)  PROVE \E k \in 1 .. 27 : i = 5 + k
  <2>1. ~Outside(s) /\ ~(Len(s) > 0 /\ s[1] \in Heads)  BY <1>1, KindsDiffer
  <2> QED  BY <2>1, FitsKinds
<1> HIDE DEF t
<1>4. Fitting(m, t) \subseteq 1 .. 27  BY DEF Fitting
<1>5. OnStack(m, s) = {5 + k : k \in Fitting(m, t)}  BY <1>2, <1>3, <1>4
<1> QED  BY <1>5 DEF t

(* Among the paths of the legacy group only its routes answer.             *)
LEMMA OnStackLegacy ==
    ASSUME NEW m \in Methods, NEW s \in Seq(Words), LegacyPath(s)
    PROVE  OnStack(m, s) = {32 + k : k \in Fitting(m, s)}
<1>1. Len(s) \in Nat  BY LenProperties
<1>2. ASSUME NEW k \in 1 .. 27
      PROVE  32 + k \in OnStack(m, s) <=> k \in Fitting(m, s)
  <2>1. Stack[32 + k] = Route(Routes[k].method, Routes[k].pattern, Routes[k].handler)
    BY GroupEntry
  <2>2. 32 + k \in DOMAIN Stack
    <3>1. DOMAIN Stack = 1 .. 73  BY StackFacts
    <3> QED  BY <3>1
  <2>3. /\ Stack[32 + k].method = Routes[k].method
        /\ Stack[32 + k].pattern = Routes[k].pattern
    BY <2>1 DEF Route
  <2> QED  BY <2>2, <2>3, Zenon DEF OnStack, Fitting
<1>3. ASSUME NEW i \in OnStack(m, s)  PROVE \E k \in 1 .. 27 : i = 32 + k
  <2>1. ~Outside(s) /\ ~(Len(s) > 0 /\ s[1] = "v1")  BY <1>1, KindsDiffer
  <2>2. Len(s) > 3 => Len(s) > 0  BY <1>1
  <2> QED  BY <2>1, <2>2, FitsKinds, Zenon
<1>4. Fitting(m, s) \subseteq 1 .. 27  BY DEF Fitting
<1> QED  BY <1>2, <1>3, <1>4

(* Outside the groups the path itself names the handler.                   *)
LEMMA OnStackOutside ==
    ASSUME NEW m \in Methods, NEW s \in Seq(Words), Outside(s), NEW i \in OnStack(m, s)
    PROVE  i \in 1 .. 3 \cup 60 .. 73 /\ Stack[i].handler = PlainHandler(s)
<1>1. Len(s) \in Nat  BY LenProperties
<1> QED  BY <1>1, FitsKinds, KindsDiffer

(* The handler of the first entry that fits, or none.                      *)
FirstAnswer(m, s, h) ==
    \/ OnStack(m, s) = {} /\ h = "404"
    \/ \E i \in OnStack(m, s) :
          (\A j \in OnStack(m, s) : i <= j) /\ h = Stack[i].handler

GroupAnswer(m, s, h) ==
    \/ Fitting(m, s) = {} /\ h = "404"
    \/ \E k \in Fitting(m, s) :
          (\A j \in Fitting(m, s) : k <= j) /\ h = Routes[k].handler

LEMMA FirstFitIs ==
    ASSUME NEW m, NEW s, NEW h, FirstAnswer(m, s, h)
    PROVE  FirstFit(m, s) = h
<1> DEFINE fits == OnStack(m, s)
           first == CHOOSE i \in fits : \A j \in fits : i <= j
<1>1. fits \subseteq Int
  <2>1. DOMAIN Stack = 1 .. 73  BY StackFacts
  <2> QED  BY <2>1 DEF OnStack
<1>2. FirstFit(m, s) = IF fits = {} THEN "404" ELSE Stack[first].handler
  BY DEF FirstFit, OnStack
<1>3. \/ fits = {} /\ h = "404"
      \/ \E i \in fits : (\A j \in fits : i <= j) /\ h = Stack[i].handler
  BY DEF FirstAnswer
<1> HIDE DEF fits
<1>4. CASE fits = {} /\ h = "404"  BY <1>2, <1>4
<1>5. ASSUME NEW i \in fits, \A j \in fits : i <= j, h = Stack[i].handler
      PROVE  FirstFit(m, s) = h
  <2>1. first \in fits /\ \A j \in fits : first <= j  BY <1>5
  <2> HIDE DEF first
  <2>2. first = i  BY <1>1, <1>5, <2>1
  <2> QED  BY <1>2, <1>5, <2>2
<1> QED  BY <1>3, <1>4, <1>5

LEMMA GroupAnswers ==
    ASSUME NEW m, NEW s, NEW t, NEW base \in {5, 32}, NEW h,
           OnStack(m, s) = {base + k : k \in Fitting(m, t)}
    PROVE  FirstAnswer(m, s, h) <=> GroupAnswer(m, t, h)
<1>1. Fitting(m, t) \subseteq 1 .. 27  BY DEF Fitting
<1>2. ASSUME NEW k \in 1 .. 27  PROVE Stack[base + k].handler = Routes[k].handler
  <2>1. /\ Stack[5 + k] = Route(Routes[k].method, ApiPrefix \o Routes[k].pattern, Routes[k].handler)
        /\ Stack[32 + k] = Route(Routes[k].method, Routes[k].pattern, Routes[k].handler)
    BY GroupEntry
  <2>2. Stack[5 + k].handler = Routes[k].handler  BY <2>1 DEF Route
  <2>3. Stack[32 + k].handler = Routes[k].handler  BY <2>1 DEF Route
  <2> QED  BY <2>2, <2>3
<1>3. OnStack(m, s) = {} <=> Fitting(m, t) = {}  OBVIOUS
<1>4. ASSUME NEW i \in OnStack(m, s), \A j \in OnStack(m, s) : i <= j,
             h = Stack[i].handler
      PROVE  GroupAnswer(m, t, h)
  <2>1. PICK k \in Fitting(m, t) : i = base + k  OBVIOUS
  <2>2. ASSUME NEW l \in Fitting(m, t)  PROVE k <= l
    <3>1. base + k <= base + l  BY <1>4, <2>1
    <3> QED  BY <1>1, <3>1
  <2>3. h = Routes[k].handler  BY <1>1, <1>2, <1>4, <2>1
  <2> QED  BY <2>2, <2>3 DEF GroupAnswer
<1>5. ASSUME NEW k \in Fitting(m, t), \A l \in Fitting(m, t) : k <= l,
             h = Routes[k].handler
      PROVE  FirstAnswer(m, s, h)
  <2>1. base + k \in OnStack(m, s)  OBVIOUS
  <2>2. ASSUME NEW j \in OnStack(m, s)  PROVE base + k <= j
    <3>1. PICK l \in Fitting(m, t) : j = base + l  OBVIOUS
    <3> QED  BY <1>1, <1>5, <3>1
  <2>3. h = Stack[base + k].handler  BY <1>1, <1>2, <1>5
  <2> QED  BY <2>1, <2>2, <2>3 DEF FirstAnswer
<1> QED  BY <1>3, <1>4, <1>5 DEF FirstAnswer, GroupAnswer

(* The legacy path is answered like the one behind the prefix.             *)
LEMMA SameAnswer ==
    ASSUME NEW m \in Methods, NEW s \in Seq(Words), ApiPath(s), NEW h,
           FirstAnswer(m, s, h)
    PROVE  FirstAnswer(m, SubSeq(s, 4, Len(s)), h)
<1> DEFINE t == SubSeq(s, 4, Len(s))
<1>1. t \in Seq(Words) /\ LegacyPath(t)
  <2>1. <<>> \in Patterns  BY DEF Patterns
  <2> QED  BY <2>1, FitsBehind
<1>2. OnStack(m, s) = {5 + k : k \in Fitting(m, t)}  BY OnStackApi
<1> HIDE DEF t
<1>3. OnStack(m, t) = {32 + k : k \in Fitting(m, t)}  BY <1>1, OnStackLegacy
<1>4. GroupAnswer(m, t, h)  BY <1>2, GroupAnswers
<1>5. FirstAnswer(m, t, h)  BY <1>3, <1>4, GroupAnswers
<1> QED  BY <1>5 DEF t

(* What the first route of a group that fits answers instead of route k.   *)
HiddenBy(k, s) ==
    CASE Routes[k].handler \in {"FindContactByPhone", "FindContactByAltContact"}
           -> "GetContact"
      [] Routes[k].handler = "CreateLeadNote" /\ s[Len(s) - 1] = "ai-dialog"
           -> "CreateAIDialogLead"
      [] OTHER -> Routes[k].handler

(* The first segment, the method and the length leave few routes.         *)
LEMMA FittingShape ==
    ASSUME NEW m, NEW s \in Seq(Words), NEW f \in Fitting(m, s)
    PROVE  /\ f \in 1 .. 27
           /\ s[1] = "configs" /\ m = "GET" /\ Len(s) = 1 => f = 1
           /\ s[1] = "configs" /\ m = "GET" /\ Len(s) = 3 => f \in {5, 9, 12}
           /\ s[1] = "configs" /\ m = "POST" /\ Len(s) = 3 => f \in {4, 6, 7, 8, 10}
           /\ s[1] = "leads" /\ m = "POST" /\ Len(s) = 1 => f = 13
           /\ s[1] = "leads" /\ m = "POST" /\ Len(s) = 4 => f \in {14, 18}
           /\ s[1] = "contacts" /\ m = "GET" /\ Len(s) = 3 => f \in {21, 24, 26, 27}
           /\ s[1] = "contacts" /\ m = "POST" /\ Len(s) = 3 => f = 22
<1>1. f = 1 => m = "GET" /\ Len(s) = 1 /\ s[1] = "configs"  BY FittingMeans
<1>2. f = 2 => m = "GET" /\ Len(s) = 2 /\ s[1] = "configs"  BY FittingMeans
<1>3. f = 3 => m = "POST" /\ Len(s) = 2 /\ s[1] = "configs"  BY FittingMeans
<1>4. f = 4 => m = "POST" /\ Len(s) = 3 /\ s[1] = "configs"  BY FittingMeans
<1>5. f = 5 => m = "GET" /\ Len(s) = 3 /\ s[1] = "configs"  BY FittingMeans
<1>6. f = 6 => m = "POST" /\ Len(s) = 3 /\ s[1] = "configs"  BY FittingMeans
<1>7. f = 7 => m = "POST" /\ Len(s) = 3 /\ s[1] = "configs"  BY FittingMeans
<1>8. f = 8 => m = "POST" /\ Len(s) = 3 /\ s[1] = "configs"  BY FittingMeans
<1>9. f = 9 => m = "GET" /\ Len(s) = 3 /\ s[1] = "configs"  BY FittingMeans
<1>10. f = 10 => m = "POST" /\ Len(s) = 3 /\ s[1] = "configs"  BY FittingMeans
<1>11. f = 11 => m = "DELETE" /\ Len(s) = 2 /\ s[1] = "configs"  BY FittingMeans
<1>12. f = 12 => m = "GET" /\ Len(s) = 3 /\ s[1] = "configs"  BY FittingMeans
<1>13. f = 13 => m = "POST" /\ Len(s) = 1 /\ s[1] = "leads"  BY FittingMeans
<1>14. f = 14 => m = "POST" /\ Len(s) = 4 /\ s[1] = "leads"  BY FittingMeans
<1>15. f = 15 => m = "GET" /\ Len(s) = 4 /\ s[1] = "leads"  BY FittingMeans
<1>16. f = 16 => m = "PATCH" /\ Len(s) = 3 /\ s[1] = "leads"  BY FittingMeans
<1>17. f = 17 => m = "GET" /\ Len(s) = 3 /\ s[1] = "leads"  BY FittingMeans
<1>18. f = 18 => m = "POST" /\ Len(s) = 4 /\ s[1] = "leads"  BY FittingMeans
<1>19. f = 19 => m = "GET" /\ Len(s) = 2 /\ s[1] = "pipelines"  BY FittingMeans
<1>20. f = 20 => m = "GET" /\ Len(s) = 3 /\ s[1] = "talks"  BY FittingMeans
<1>21. f = 21 => m = "GET" /\ Len(s) = 3 /\ s[1] = "contacts"  BY FittingMeans
<1>22. f = 22 => m = "POST" /\ Len(s) = 3 /\ s[1] = "contacts"  BY FittingMeans
<1>23. f = 23 => m = "POST" /\ Len(s) = 2 /\ s[1] = "contacts"  BY FittingMeans
<1>24. f = 24 => m = "GET" /\ Len(s) = 3 /\ s[1] = "contacts"  BY FittingMeans
<1>25. f = 25 => m = "PATCH" /\ Len(s) = 3 /\ s[1] = "contacts"  BY FittingMeans
<1>26. f = 26 => m = "GET" /\ Len(s) = 3 /\ s[1] = "contacts"  BY FittingMeans
<1>27. f = 27 => m = "GET" /\ Len(s) = 3 /\ s[1] = "contacts"  BY FittingMeans
<1>28. f \in 1 .. 27  BY DEF Fitting
<1>29. ASSUME s[1] = "configs", m = "GET", Len(s) = 1  PROVE f \in {1}
  <2>1. f \notin {2, 3, 4, 5, 6, 7, 8, 9, 10}
    BY <1>29, <1>2, <1>3, <1>4, <1>5, <1>6, <1>7, <1>8, <1>9, <1>10
  <2>2. f \notin {11, 12, 13, 14, 15, 16, 17, 18, 19}
    BY <1>29, <1>11, <1>12, <1>13, <1>14, <1>15, <1>16, <1>17, <1>18, <1>19
  <2>3. f \notin {20, 21, 22, 23, 24, 25, 26, 27}
    BY <1>29, <1>20, <1>21, <1>22, <1>23, <1>24, <1>25, <1>26, <1>27
  <2> QED  BY <1>28, <2>1, <2>2, <2>3
<1>30. ASSUME s[1] = "configs", m = "GET", Len(s) = 3  PROVE f \in {5, 9, 12}
  <2>1. f \notin {1, 2, 3, 4, 6, 7, 8, 10, 11}
    BY <1>30, <1>1, <1>2, <1>3, <1>4, <1>6, <1>7, <1>8, <1>10, <1>11
  <2>2. f \notin {13, 14, 15, 16, 17, 18, 19, 20, 21}
    BY <1>30, <1>13, <1>14, <1>15, <1>16, <1>17, <1>18, <1>19, <1>20, <1>21
  <2>3. f \notin {22, 23, 24, 25, 26, 27}
    BY <1>30, <1>22, <1>23, <1>24, <1>25, <1>26, <1>27
  <2> QED  BY <1>28, <2>1, <2>2, <2>3
<1>31. ASSUME s[1] = "configs", m = "POST", Len(s) = 3  PROVE f \in {4, 6, 7, 8, 10}
  <2>1. f \notin {1, 2, 3, 5, 9, 11, 12, 13, 14}
    BY <1>31, <1>1, <1>2, <1>3, <1>5, <1>9, <1>11, <1>12, <1>13, <1>14
  <2>2. f \notin {15, 16, 17, 18, 19, 20, 21, 22, 23}
    BY <1>31, <1>15, <1>16, <1>17, <1>18, <1>19, <1>20, <1>21, <1>22, <1>23
  <2>3. f \notin {24, 25, 26, 27}
    BY <1>31, <1>24, <1>25, <1>26, <1>27
  <2> QED  BY <1>28, <2>1, <2>2, <2>3
<1>32. ASSUME s[1] = "leads", m = "POST", Len(s) = 1  PROVE f \in {13}
  <2>1. f \notin {1, 2, 3, 4, 5, 6, 7, 8, 9}
    BY <1>32, <1>1, <1>2, <1>3, <1>4, <1>5, <1>6, <1>7, <1>8, <1>9
  <2>2. f \notin {10, 11, 12, 14, 15, 16, 17, 18, 19}
    BY <1>32, <1>10, <1>11, <1>12, <1>14, <1>15, <1>16, <1>17, <1>18, <1>19
  <2>3. f \notin {20, 21, 22, 23, 24, 25, 26, 27}
    BY <1>32, <1>20, <1>21, <1>22, <1>23, <1>24, <1>25, <1>26, <1>27
  <2> QED  BY <1>28, <2>1, <2>2, <2>3
<1>33. ASSUME s[1] = "leads", m = "POST", Len(s) = 4  PROVE f \in {14, 18}
  <2>1. f \notin {1, 2, 3, 4, 5, 6, 7, 8, 9}
    BY <1>33, <1>1, <1>2, <1>3, <1>4, <1>5, <1>6, <1>7, <1>8, <1>9
  <2>2. f \notin {10, 11, 12, 13, 15, 16, 17, 19, 20}
    BY <1>33, <1>10, <1>11, <1>12, <1>13, <1>15, <1>16, <1>17, <1>19, <1>20
  <2>3. f \notin {21, 22, 23, 24, 25, 26, 27}
    BY <1>33, <1>21, <1>22, <1>23, <1>24, <1>25, <1>26, <1>27
  <2> QED  BY <1>28, <2>1, <2>2, <2>3
<1>34. ASSUME s[1] = "contacts", m = "GET", Len(s) = 3  PROVE f \in {21, 24, 26, 27}
  <2>1. f \notin {1, 2, 3, 4, 5, 6, 7, 8, 9}
    BY <1>34, <1>1, <1>2, <1>3, <1>4, <1>5, <1>6, <1>7, <1>8, <1>9
  <2>2. f \notin {10, 11, 12, 13, 14, 15, 16, 17, 18}
    BY <1>34, <1>10, <1>11, <1>12, <1>13, <1>14, <1>15, <1>16, <1>17, <1>18
  <2>3. f \notin {19, 20, 22, 23, 25}
    BY <1>34, <1>19, <1>20, <1>22, <1>23, <1>25
  <2> QED  BY <1>28, <2>1, <2>2, <2>3
<1>35. ASSUME s[1] = "contacts", m = "POST", Len(s) = 3  PROVE f \in {22}
  <2>1. f \notin {1, 2, 3, 4, 5, 6, 7, 8, 9}
    BY <1>35, <1>1, <1>2, <1>3, <1>4, <1>5, <1>6, <1>7, <1>8, <1>9
  <2>2. f \notin {10, 11, 12, 13, 14, 15, 16, 17, 18}
    BY <1>35, <1>10, <1>11, <1>12, <1>13, <1>14, <1>15, <1>16, <1>17, <1>18
  <2>3. f \notin {19, 20, 21, 23, 24, 25, 26, 27}
    BY <1>35, <1>19, <1>20, <1>21, <1>23, <1>24, <1>25, <1>26, <1>27
  <2> QED  BY <1>28, <2>1, <2>2, <2>3
<1> QED  BY <1>28, <1>29, <1>30, <1>31, <1>32, <1>33, <1>34, <1>35

(* Two routes with the same last word differ in the method or before it.   *)
LEMMA GroupHidden ==
    ASSUME NEW m, NEW s \in Seq(Words), NEW k \in Fitting(m, s),
           Routes[k].pattern[Len(Routes[k].pattern)] # Param,
           NEW h, GroupAnswer(m, s, h)
    PROVE  h = HiddenBy(k, s)
<1>1. PICK f \in Fitting(m, s) :
         (\A j \in Fitting(m, s) : f <= j) /\ h = Routes[f].handler
  BY DEF GroupAnswer
<1>2. f \in 1 .. 27 /\ k \in 1 .. 27 /\ f <= k  BY <1>1 DEF Fitting
<1>3. CASE k = 1
  <2>1. m = "GET" /\ Len(s) = 1 /\ s[1] = "configs"  BY <1>3, FittingMeans
  <2>2. f \in {1}  BY <2>1, FittingShape
  <2>3. f = 1  BY <1>1, <1>2, <1>3, <2>2
  <2>4. Routes[1].handler = "GetCRMConfigs"  BY RouteTable DEF Route
  <2> QED  BY <1>1, <1>3, <2>3, <2>4 DEF HiddenBy
<1>4. k # 2
  <2>1. Routes[2] = Route("GET", <<"configs", Param>>, "GetCRMConfigByType")  BY RouteTable
  <2>2. Routes[2].pattern = <<"configs", Param>>  BY <2>1 DEF Route
  <2>3. Routes[2].pattern[Len(Routes[2].pattern)] = Param  BY <2>2
  <2> QED  BY <2>3
<1>5. k # 3
  <2>1. Routes[3] = Route("POST", <<"configs", Param>>, "SaveCRMConfig")  BY RouteTable
  <2>2. Routes[3].pattern = <<"configs", Param>>  BY <2>1 DEF Route
  <2>3. Routes[3].pattern[Len(Routes[3].pattern)] = Param  BY <2>2
  <2> QED  BY <2>3
<1>6. CASE k = 4
  <2>1. m = "POST" /\ Len(s) = 3 /\ s[1] = "configs" /\ s[3] = "active"  BY <1>6, FittingMeans
  <2>2. f \in {4, 6, 7, 8, 10}  BY <2>1, FittingShape
  <2>3. f = 4  BY <1>1, <1>2, <1>6, <2>2
  <2>4. Routes[4].handler = "SetCRMConfigActive"  BY RouteTable DEF Route
  <2> QED  BY <1>1, <1>6, <2>3, <2>4 DEF HiddenBy
<1>7. CASE k = 5
  <2>1. m = "GET" /\ Len(s) = 3 /\ s[1] = "configs" /\ s[3] = "custom-fields"  BY <1>7, FittingMeans
  <2>2. f \in {5, 9, 12}  BY <2>1, FittingShape
  <2>3. f = 5  BY <1>1, <1>2, <1>7, <2>2
  <2>4. Routes[5].handler = "GetCustomFields"  BY RouteTable DEF Route
  <2> QED  BY <1>1, <1>7, <2>3, <2>4 DEF HiddenBy
<1>8. CASE k = 6
  <2>1. m = "POST" /\ Len(s) = 3 /\ s[1] = "configs" /\ s[3] = "custom-fields"  BY <1>8, FittingMeans
  <2>2. f \in {4, 6, 7, 8, 10}  BY <2>1, FittingShape
  <2>3. 4 \notin Fitting(m, s)  BY <2>1, FittingMeans
  <2>4. f = 6  BY <1>1, <1>2, <1>8, <2>2, <2>3
  <2>5. Routes[6].handler = "CreateCustomField"  BY RouteTable DEF Route
  <2> QED  BY <1>1, <1>8, <2>4, <2>5 DEF HiddenBy
<1>9. CASE k = 7
  <2>1. m = "POST" /\ Len(s) = 3 /\ s[1] = "configs" /\ s[3] = "marusia-source-field"  BY <1>9, FittingMeans
  <2>2. f \in {4, 6, 7, 8, 10}  BY <2>1, FittingShape
  <2>3. 4 \notin Fitting(m, s) /\ 6 \notin Fitting(m, s)  BY <2>1, FittingMeans
  <2>4. f = 7  BY <1>1, <1>2, <1>9, <2>2, <2>3
  <2>5. Routes[7].handler = "SetMarusiaSourceFieldID"  BY RouteTable DEF Route
  <2> QED  BY <1>1, <1>9, <2>4, <2>5 DEF HiddenBy
<1>10. CASE k = 8
  <2>1. m = "POST" /\ Len(s) = 3 /\ s[1] = "configs" /\ s[3] = "default-lead-settings"  BY <1>10, FittingMeans
  <2>2. f \in {4, 6, 7, 8, 10}  BY <2>1, FittingShape
  <2>3. 4 \notin Fitting(m, s) /\ 6 \notin Fitting(m, s)  BY <2>1, FittingMeans
  <2>4. 7 \notin Fitting(m, s)  BY <2>1, FittingMeans
  <2>5. f = 8  BY <1>1, <1>2, <1>10, <2>2, <2>3, <2>4
  <2>6. Routes[8].handler = "SetDefaultLeadSettings"  BY RouteTable DEF Route
  <2> QED  BY <1>1, <1>10, <2>5, <2>6 DEF HiddenBy
<1>11. CASE k = 9
  <2>1. m = "GET" /\ Len(s) = 3 /\ s[1] = "configs" /\ s[3] = "channels"  BY <1>11, FittingMeans
  <2>2. f \in {5, 9, 12}  BY <2>1, FittingShape
  <2>3. 5 \notin Fitting(m, s)  BY <2>1, FittingMeans
  <2>4. f = 9  BY <1>1, <1>2, <1>11, <2>2, <2>3
  <2>5. Routes[9].handler = "GetChannelSettings"  BY RouteTable DEF Route
  <2> QED  BY <1>1, <1>11, <2>4, <2>5 DEF HiddenBy
<1>12. CASE k = 10
  <2>1. m = "POST" /\ Len(s) = 3 /\ s[1] = "configs" /\ s[3] = "channels"  BY <1>12, FittingMeans
  <2>2. f \in {4, 6, 7, 8, 10}  BY <2>1, FittingShape
  <2>3. 4 \notin Fitting(m, s) /\ 6 \notin Fitting(m, s)  BY <2>1, FittingMeans
  <2>4. 7 \notin Fitting(m, s) /\ 8 \notin Fitting(m, s)  BY <2>1, FittingMeans
  <2>5. f = 10  BY <1>1, <1>2, <1>12, <2>2, <2>3, <2>4
  <2>6. Routes[10].handler = "SetChannelSettings"  BY RouteTable DEF Route
  <2> QED  BY <1>1, <1>12, <2>5, <2>6 DEF HiddenBy
<1>13. k # 11
  <2>1. Routes[11] = Route("DELETE", <<"configs", Param>>, "DeleteCRMConfigByType")  BY RouteTable
  <2>2. Routes[11].pattern = <<"configs", Param>>  BY <2>1 DEF Route
  <2>3. Routes[11].pattern[Len(Routes[11].pattern)] = Param  BY <2>2
  <2> QED  BY <2>3
<1>14. CASE k = 12
  <2>1. m = "GET" /\ Len(s) = 3 /\ s[1] = "configs" /\ s[3] = "test"  BY <1>14, FittingMeans
  <2>2. f \in {5, 9, 12}  BY <2>1, FittingShape
  <2>3. 5 \notin Fitting(m, s) /\ 9 \notin Fitting(m, s)  BY <2>1, FittingMeans
  <2>4. f = 12  BY <1>1, <1>2, <1>14, <2>2, <2>3
  <2>5. Routes[12].handler = "TestConnectionByType"  BY RouteTable DEF Route
  <2> QED  BY <1>1, <1>14, <2>4, <2>5 DEF HiddenBy
<1>15. CASE k = 13
  <2>1. m = "POST" /\ Len(s) = 1 /\ s[1] = "leads"  BY <1>15, FittingMeans
  <2>2. f \in {13}  BY <2>1, FittingShape
  <2>3. f = 13  BY <1>1, <1>2, <1>15, <2>2
  <2>4. Routes[13].handler = "CreateLead"  BY RouteTable DEF Route
  <2> QED  BY <1>1, <1>15, <2>3, <2>4 DEF HiddenBy
<1>16. k # 14
  <2>1. Routes[14] = Route("POST", <<"leads", Param, "ai-dialog", Param>>, "CreateAIDialogLead")  BY RouteTable
  <2>2. Routes[14].pattern = <<"leads", Param, "ai-dialog", Param>>  BY <2>1 DEF Route
  <2>3. Routes[14].pattern[Len(Routes[14].pattern)] = Param  BY <2>2
  <2> QED  BY <2>3
<1>17. k # 15
  <2>1. Routes[15] = Route("GET", <<"leads", Param, "by-contact", Param>>, "GetLeadsByContactID")  BY RouteTable
  <2>2. Routes[15].pattern = <<"leads", Param, "by-contact", Param>>  BY <2>1 DEF Route
  <2>3. Routes[15].pattern[Len(Routes[15].pattern)] = Param  BY <2>2
  <2> QED  BY <2>3
<1>18. k # 16
  <2>1. Routes[16] = Route("PATCH", <<"leads", Param, Param>>, "UpdateLead")  BY RouteTable
  <2>2. Routes[16].pattern = <<"leads", Param, Param>>  BY <2>1 DEF Route
  <2>3. Routes[16].pattern[Len(Routes[16].pattern)] = Param  BY <2>2
  <2> QED  BY <2>3
<1>19. k # 17
  <2>1. Routes[17] = Route("GET", <<"leads", Param, Param>>, "GetLead")  BY RouteTable
  <2>2. Routes[17].pattern = <<"leads", Param, Param>>  BY <2>1 DEF Route
  <2>3. Routes[17].pattern[Len(Routes[17].pattern)] = Param  BY <2>2
  <2> QED  BY <2>3
<1>20. CASE k = 18
  <2>1. m = "POST" /\ Len(s) = 4 /\ s[1] = "leads" /\ s[4] = "notes"  BY <1>20, FittingMeans
  <2>2. f \in {14, 18}  BY <2>1, FittingShape
  <2>3. Routes[18].handler = "CreateLeadNote" /\ Routes[14].handler = "CreateAIDialogLead"
    BY RouteTable DEF Route
  <2>4. Len(s) - 1 = 3  BY <2>1
  <2>5. CASE s[3] = "ai-dialog"
    <3>1. 14 \in Fitting(m, s)  BY <2>1, <2>5, FittingMeans
    <3>2. f \in 1 .. 14  BY <1>1, <1>2, <3>1
    <3>3. f = 14  BY <1>1, <1>2, <1>20, <2>2, <3>2
    <3> QED  BY <1>1, <1>20, <2>3, <2>4, <2>5, <3>3 DEF HiddenBy
  <2>6. CASE s[3] # "ai-dialog"
    <3>1. 14 \notin Fitting(m, s)  BY <2>6, FittingMeans
    <3>2. f = 18  BY <1>1, <1>2, <1>20, <2>2, <3>1
    <3> QED  BY <1>1, <1>20, <2>3, <2>4, <2>6, <3>2 DEF HiddenBy
  <2> QED  BY <2>5, <2>6
<1>21. k # 19
  <2>1. Routes[19] = Route("GET", <<"pipelines", Param>>, "GetPipelines")  BY RouteTable
  <2>2. Routes[19].pattern = <<"pipelines", Param>>  BY <2>1 DEF Route
  <2>3. Routes[19].pattern[Len(Routes[19].pattern)] = Param  BY <2>2
  <2> QED  BY <2>3
<1>22. k # 20
  <2>1. Routes[20] = Route("GET", <<"talks", Param, Param>>, "GetTalk")  BY RouteTable
  <2>2. Routes[20].pattern = <<"talks", Param, Param>>  BY <2>1 DEF Route
  <2>3. Routes[20].pattern[Len(Routes[20].pattern)] = Param  BY <2>2
  <2> QED  BY <2>3
<1>23. CASE k = 21
  <2>1. m = "GET" /\ Len(s) = 3 /\ s[1] = "contacts" /\ s[3] = "custom-fields"  BY <1>23, FittingMeans
  <2>2. f \in {21, 24, 26, 27}  BY <2>1, FittingShape
  <2>3. f = 21  BY <1>1, <1>2, <1>23, <2>2
  <2>4. Routes[21].handler = "GetContactCustomFields"  BY RouteTable DEF Route
  <2> QED  BY <1>1, <1>23, <2>3, <2>4 DEF HiddenBy
<1>24. CASE k = 22
  <2>1. m = "POST" /\ Len(s) = 3 /\ s[1] = "contacts" /\ s[3] = "custom-fields"  BY <1>24, FittingMeans
  <2>2. f \in {22}  BY <2>1, FittingShape
  <2>3. f = 22  BY <1>1, <1>2, <1>24, <2>2
  <2>4. Routes[22].handler = "CreateContactCustomField"  BY RouteTable DEF Route
  <2> QED  BY <1>1, <1>24, <2>3, <2>4 DEF HiddenBy
<1>25. k # 23
  <2>1. Routes[23] = Route("POST", <<"contacts", Param>>, "CreateContact")  BY RouteTable
  <2>2. Routes[23].pattern = <<"contacts", Param>>  BY <2>1 DEF Route
  <2>3. Routes[23].pattern[Len(Routes[23].pattern)] = Param  BY <2>2
  <2> QED  BY <2>3
<1>26. k # 24
  <2>1. Routes[24] = Route("GET", <<"contacts", Param, Param>>, "GetContact")  BY RouteTable
  <2>2. Routes[24].pattern = <<"contacts", Param, Param>>  BY <2>1 DEF Route
  <2>3. Routes[24].pattern[Len(Routes[24].pattern)] = Param  BY <2>2
  <2> QED  BY <2>3
<1>27. k # 25
  <2>1. Routes[25] = Route("PATCH", <<"contacts", Param, Param>>, "UpdateContact")  BY RouteTable
  <2>2. Routes[25].pattern = <<"contacts", Param, Param>>  BY <2>1 DEF Route
  <2>3. Routes[25].pattern[Len(Routes[25].pattern)] = Param  BY <2>2
  <2> QED  BY <2>3
<1>28. CASE k = 26
  <2>1. m = "GET" /\ Len(s) = 3 /\ s[1] = "contacts" /\ s[3] = "search"  BY <1>28, FittingMeans
  <2>2. f \in {21, 24, 26, 27}  BY <2>1, FittingShape
  <2>3. 21 \notin Fitting(m, s)  BY <2>1, FittingMeans
  <2>4. Routes[26].handler = "FindContactByPhone" /\ Routes[24].handler = "GetContact"
    BY RouteTable DEF Route
  <2>5. 24 \in Fitting(m, s)  BY <2>1, FittingMeans
  <2>6. f \in 1 .. 24  BY <1>1, <1>2, <2>5
  <2>7. f = 24  BY <1>1, <1>2, <1>28, <2>2, <2>3, <2>6
  <2> QED  BY <1>1, <1>28, <2>4, <2>7 DEF HiddenBy
<1>29. CASE k = 27
  <2>1. m = "GET" /\ Len(s) = 3 /\ s[1] = "contacts" /\ s[3] = "search-by-alt"  BY <1>29, FittingMeans
  <2>2. f \in {21, 24, 26, 27}  BY <2>1, FittingShape
  <2>3. 21 \notin Fitting(m, s) /\ 26 \notin Fitting(m, s)  BY <2>1, FittingMeans
  <2>4. Routes[27].handler = "FindContactByAltContact" /\ Routes[24].handler = "GetContact"
    BY RouteTable DEF Route
  <2>5. 24 \in Fitting(m, s)  BY <2>1, FittingMeans
  <2>6. f \in 1 .. 24  BY <1>1, <1>2, <2>5
  <2>7. f = 24  BY <1>1, <1>2, <1>29, <2>2, <2>3, <2>6
  <2> QED  BY <1>1, <1>29, <2>4, <2>7 DEF HiddenBy
<1> QED
  BY <1>2, <1>3, <1>4, <1>5, <1>6, <1>7, <1>8, <1>9, <1>10, <1>11,
     <1>12, <1>13, <1>14, <1>15, <1>16, <1>17, <1>18, <1>19, <1>20,
     <1>21, <1>22, <1>23, <1>24, <1>25, <1>26, <1>27, <1>28, <1>29

-----------------------------------------------------------------------------
(* Dispatch.                                                               *)

Refusals == {"none", "400", "401"}

(* No entry that was passed fits the request.                              *)
Passed ==
    \A j \in 1 .. position - 1 : j \notin OnStack(request.method, request.path)

(* What answers is the first that fits, and only the first three routes    *)
(* answer before there is a user.                                          *)
Answered ==
    answer \notin Refusals =>
        /\ FirstAnswer(request.method, request.path, answer)
        /\ user \/ answer \in {"health", "metrics"}

(* A refusal comes from a middleware that found no valid header.           *)
Refused ==
    answer \in {"400", "401"} =>
        /\ request.user # "valid" /\ position > 3
        /\ answer = IF request.user = "missing" THEN "401" ELSE "400"

(* Whoever has passed the fifth entry has a user, and whoever has a user   *)
(* has sent a valid header.                                                *)
Inv ==
    /\ TypeOK
    /\ position > 5 => user
    /\ user => request.user = "valid"
    /\ HandlersHaveUser
    /\ Passed
    /\ Answered
    /\ Refused

(* An entry with a method other than "use" is an endpoint.                 *)
LEMMA CurrentFacts ==
    ASSUME TypeOK, position <= Len(Stack)
    PROVE  /\ position \in 1 .. 73
           /\ Current \in Entries /\ Current.handler \in Names \cup {"extractUserID"}
           /\ Current.method # "use" => Current.handler \in Handlers
           /\ position <= 3 => Current.method # "use" /\ Current.handler \in {"health", "metrics"}
           /\ position = 4 => Current.method = "use"
           /\ position = 5 => Current.method = "use" /\ Matches(Current, request)
<1>1. position \in 1 .. 73 /\ DOMAIN Stack = 1 .. 73 /\ Len(Stack) = 73
  BY StackFacts DEF TypeOK
<1>2. Current \in Entries
  <2>1. Stack \in Seq(Entries)  BY StackFacts
  <2> QED  BY <1>1, <2>1, ElementOfSeq DEF Current
<1>3. Current.method # "use" => Current.handler \in Names
  BY <1>2 DEF Entries, Middlewares, Endpoints
<1>4. Current.method # "use" => Current.handler \in Handlers
  BY <1>1, <1>3 DEF Handlers, Current, Names
<1>5. position = 5 => Current.method = "use" /\ Matches(Current, request)
  <2> SUFFICES ASSUME position = 5
               PROVE  Current.method = "use" /\ Matches(Current, request)
    OBVIOUS
  <2>1. Current = [method |-> "use", pattern |-> <<>>, handler |-> "extractUserID"]
    BY StackFacts DEF Current, UserID, Route
  <2>2. Len(request.path) \in Nat
    <3>1. request.path \in Seq(Words)  BY RequestPaths DEF TypeOK
    <3> QED  BY <3>1, LenProperties
  <2>3. HasPrefix(request.path, <<>>)  BY <2>2 DEF HasPrefix
  <2> QED  BY <2>1, <2>3 DEF Matches
<1>6. position <= 3 => Current.method # "use" /\ Current.handler \in {"health", "metrics"}
  <2> SUFFICES ASSUME position <= 3
               PROVE  Current.method # "use" /\ Current.handler \in {"health", "metrics"}
    OBVIOUS
  <2>1. Current.handler \in {"health", "metrics"}  BY <1>1, PlainEntries DEF Current
  <2>2. Current \notin Middlewares  BY <2>1 DEF Middlewares
  <2> QED  BY <1>2, <2>1, <2>2 DEF Entries, Endpoints
<1>7. Current.handler \in Names \cup {"extractUserID"}
  BY <1>2 DEF Entries, Middlewares, Endpoints
<1>8. position = 4 => Current.method = "use"  BY StackFacts DEF Current
<1> QED  BY <1>1, <1>2, <1>4, <1>5, <1>6, <1>7, <1>8

(* A refusal is the name of no handler.                                    *)
LEMMA RefusalsDiffer ==
    /\ "none" \notin Handlers /\ "400" \notin Handlers
    /\ "401" \notin Handlers /\ "404" \notin Handlers
<1>1. \A i \in DOMAIN Stack : Stack[i] \in Entries
  <2>1. Stack \in Seq(Entries) /\ DOMAIN Stack = 1 .. Len(Stack)
    BY StackFacts
  <2> QED  BY <2>1, ElementOfSeq
<1>2. Handlers \subseteq Names \cup {"extractUserID"}
  BY <1>1 DEF Handlers, Entries, Endpoints, Middlewares
<1> QED  BY <1>2 DEF Names

(* The entry that answers is on the stack of the request, and the entry    *)
(* that is passed is not.                                                  *)
LEMMA CurrentOnStack ==
    ASSUME TypeOK, position <= Len(Stack)
    PROVE  position \in OnStack(request.method, request.path)
              <=> Current.method # "use" /\ Matches(Current, request)
<1>1. request.method # "use"  BY RequestPaths DEF TypeOK, Methods
<1>2. position \in DOMAIN Stack  BY StackFacts DEF TypeOK
<1> QED  BY <1>1, <1>2 DEF OnStack, Matches, Current

LEMMA InvHolds == Spec => []Inv
<1>1. Init => Inv
  <2> SUFFICES ASSUME Init  PROVE Inv
    OBVIOUS
  <2>1. 1 \in 1 .. Len(Stack) + 1  BY StackFacts
  <2>2. TypeOK  BY <2>1 DEF Init, TypeOK
  <2>3. HandlersHaveUser  BY RefusalsDiffer DEF Init, HandlersHaveUser
  <2>4. Passed /\ Answered /\ Refused
    BY DEF Init, Passed, Answered, Refused, Refusals
  <2> QED  BY <2>2, <2>3, <2>4 DEF Init, Inv
<1>2. Inv /\ [Next]_vars => Inv'
  <2> SUFFICES ASSUME Inv, [Next]_vars  PROVE Inv'
    OBVIOUS
  <2>1. Len(Stack) = 73  BY StackFacts
  <2>2. /\ TypeOK /\ position \in 1 .. 74 /\ HandlersHaveUser
        /\ position > 5 => user
        /\ user => request.user = "valid"
        /\ Passed
    BY <2>1 DEF Inv, TypeOK
  <2>3. ASSUME position <= Len(Stack), position \notin OnStack(request.method, request.path),
               position' = position + 1, UNCHANGED request
        PROVE  Passed'
    <3> SUFFICES ASSUME NEW j \in 1 .. position' - 1
                 PROVE  j \notin OnStack(request.method, request.path)
      BY <2>3 DEF Passed
    <3>1. j \in 1 .. position - 1 \/ j = position  BY <2>2, <2>3
    <3> QED  BY <2>2, <2>3, <3>1 DEF Passed
  <2>4. CASE Skip
    <3>1. position \notin OnStack(request.method, request.path)
      BY <2>2, <2>4, CurrentOnStack DEF Skip
    <3>2. position # 5  BY <2>2, <2>4, CurrentFacts DEF Skip
    <3>3. Passed'  BY <2>3, <2>4, <3>1 DEF Skip
    <3>4. TypeOK'  BY <2>1, <2>2, <2>4 DEF Skip, TypeOK
    <3>5. HandlersHaveUser'  BY <2>4, RefusalsDiffer DEF Skip, HandlersHaveUser
    <3>6. Answered' /\ Refused'
      BY <2>4 DEF Skip, Answered, Refused, Refusals
    <3>7. (position > 5 => user)' /\ (user => request.user = "valid")'
      BY <2>2, <2>4, <3>2 DEF Skip
    <3> QED  BY <3>3, <3>4, <3>5, <3>6, <3>7 DEF Inv
  <2>5. CASE Identify
    <3>1. position \notin OnStack(request.method, request.path)
      BY <2>2, <2>5, CurrentOnStack DEF Identify
    <3>2. Passed'  BY <2>3, <2>5, <3>1 DEF Identify
    <3>3. TypeOK'  BY <2>1, <2>2, <2>5 DEF Identify, TypeOK
    <3>4. HandlersHaveUser'  BY <2>5, RefusalsDiffer DEF Identify, HandlersHaveUser
    <3>5. Answered' /\ Refused'
      BY <2>5 DEF Identify, Answered, Refused, Refusals
    <3>6. (position > 5 => user)' /\ (user => request.user = "valid")'
      BY <2>5 DEF Identify
    <3> QED  BY <3>2, <3>3, <3>4, <3>5, <3>6 DEF Inv
  <2>6. CASE Reject
    <3>1. position > 3  BY <2>2, <2>6, CurrentFacts DEF Reject
    <3>2. TypeOK'  BY <2>2, <2>6 DEF Reject, TypeOK
    <3>3. HandlersHaveUser'  BY <2>6, RefusalsDiffer DEF Reject, HandlersHaveUser
    <3>4. Passed'  BY <2>2, <2>6 DEF Reject, Passed
    <3>5. Answered' /\ Refused'
      BY <2>6, <3>1 DEF Reject, Answered, Refused, Refusals
    <3>6. (position > 5 => user)' /\ (user => request.user = "valid")'
      BY <2>2, <2>6 DEF Reject
    <3> QED  BY <3>2, <3>3, <3>4, <3>5, <3>6 DEF Inv
  <2>7. CASE Answer
    <3>1. /\ Current.handler \in Handlers
          /\ position <= 3 => Current.handler \in {"health", "metrics"}
          /\ position > 3 => position > 5
      BY <2>2, <2>7, CurrentFacts DEF Answer
    <3>2. position > 3 => user  BY <2>2, <3>1
    <3>3. TypeOK'  BY <2>2, <2>7, <3>1 DEF Answer, TypeOK
    <3>4. HandlersHaveUser'
      BY <2>2, <2>7, <3>1, <3>2 DEF Answer, HandlersHaveUser, Public
    <3>5. Passed'  BY <2>2, <2>7 DEF Answer, Passed
    <3>6. FirstAnswer(request.method, request.path, Current.handler)
      <4>1. position \in OnStack(request.method, request.path)
        BY <2>2, <2>7, CurrentOnStack DEF Answer
      <4>2. ASSUME NEW j \in OnStack(request.method, request.path)
            PROVE  position <= j
        <5>1. j \in 1 .. 73  BY StackFacts DEF OnStack
        <5>2. j \notin 1 .. position - 1  BY <2>2 DEF Passed
        <5> QED  BY <2>2, <5>1, <5>2
      <4> QED  BY <4>1, <4>2 DEF FirstAnswer, Current
    <3>7. Answered'  BY <2>2, <2>7, <3>1, <3>2, <3>6 DEF Answer, Answered
    <3>8. Refused'  BY <2>7, <3>1, RefusalsDiffer DEF Answer, Refused
    <3>9. (position > 5 => user)' /\ (user => request.user = "valid")'
      BY <2>2, <2>7 DEF Answer
    <3> QED  BY <3>3, <3>4, <3>5, <3>7, <3>8, <3>9 DEF Inv
  <2>8. CASE NotFound
    <3>1. position = 74 /\ user  BY <2>1, <2>2, <2>8 DEF NotFound
    <3>2. OnStack(request.method, request.path) = {}
      <4>1. OnStack(request.method, request.path) \subseteq 1 .. 73
        BY StackFacts DEF OnStack
      <4>2. 1 .. position - 1 = 1 .. 73  BY <3>1
      <4> QED  BY <2>2, <4>1, <4>2 DEF Passed
    <3>3. TypeOK'  BY <2>2, <2>8 DEF NotFound, TypeOK
    <3>4. HandlersHaveUser'  BY <2>8, RefusalsDiffer DEF NotFound, HandlersHaveUser
    <3>5. Passed'  BY <2>2, <2>8 DEF NotFound, Passed
    <3>6. Answered' /\ Refused'
      BY <2>8, <3>1, <3>2 DEF NotFound, Answered, Refused, FirstAnswer
    <3>7. (position > 5 => user)' /\ (user => request.user = "valid")'
      BY <2>2, <2>8 DEF NotFound
    <3> QED  BY <3>3, <3>4, <3>5, <3>6, <3>7 DEF Inv
  <2>9. CASE UNCHANGED vars
    BY <2>9 DEF vars, Inv, TypeOK, HandlersHaveUser, Passed, Answered, Refused
  <2> QED  BY <2>4, <2>5, <2>6, <2>7, <2>8, <2>9 DEF Next
<1> QED  BY <1>1, <1>2, PTL DEF Spec

(* An entry that fits a request: outside the groups it answers by its      *)
(* path; a route of a group is known by what follows the prefix.           *)
LEMMA DocumentedOutside ==
    ASSUME NEW r \in Requests, NEW i \in OnStack(r.method, r.path),
           i \in 1 .. 3 \cup 60 .. 73, NEW h, FirstAnswer(r.method, r.path, h)
    PROVE  /\ h = Stack[i].handler
           /\ r.user = "valid" \/ Stack[i].handler # "AmoCRMCallback" => h = Shadow(i, r)
<1>1. r.method \in Methods /\ r.path \in Seq(Words) /\ Len(r.path) \in Nat
  <2>1. r.path \in Seq(Words)  BY RequestPaths
  <2> QED  BY <2>1, RequestPaths, LenProperties
<1>2. Outside(r.path) /\ Stack[i].handler = PlainHandler(r.path)
  <2>1. ASSUME NEW k \in 1 .. 27  PROVE i # 5 + k /\ i # 32 + k  OBVIOUS
  <2> QED  BY <1>1, <2>1, FitsKinds
<1>3. h = PlainHandler(r.path)
  <2>1. PICK f \in OnStack(r.method, r.path) : h = Stack[f].handler
    BY DEF FirstAnswer
  <2> QED  BY <1>1, <1>2, <2>1, OnStackOutside
<1>4. Stack[i].handler \notin
        {"FindContactByPhone", "FindContactByAltContact", "CreateLeadNote"}
  BY <1>2 DEF PlainHandler
<1> QED  BY <1>2, <1>3, <1>4 DEF Shadow

LEMMA DocumentedGroup ==
    ASSUME NEW r \in Requests, NEW i \in OnStack(r.method, r.path),
           NEW k \in 1 .. 27, i \in {5 + k, 32 + k},
           Stack[i].pattern[Len(Stack[i].pattern)] # Param,
           NEW h, FirstAnswer(r.method, r.path, h)
    PROVE  h = Shadow(i, r)
<1> DEFINE m == r.method
           s == r.path
           p == Routes[k].pattern
           n == Len(p)
<1>1. m \in Methods /\ s \in Seq(Words)  BY RequestPaths
<1>2. Len(s) \in Nat  BY <1>1, LenProperties
<1>3. /\ p \in Patterns /\ n \in Nat \ {0}
      /\ Routes[k].handler \notin Public
      /\ Routes[k].handler = "CreateLeadNote" => n = 4
  BY RouteHeads
<1>4. CASE i = 5 + k
  <2> DEFINE t == SubSeq(s, 4, Len(s))
  <2>1. /\ Stack[i].pattern = ApiPrefix \o p /\ Stack[i].handler = Routes[k].handler
        /\ Stack[i].method = Routes[k].method
    <3>1. Stack[i] = Route(Routes[k].method, ApiPrefix \o p, Routes[k].handler)
      BY <1>4, GroupEntry
    <3> QED  BY <3>1 DEF Route
  <2>2. ApiPath(s)
    <3>1. ~Outside(s) /\ ~LegacyPath(s)
      <4>1. i \notin 1 .. 3 \cup 60 .. 73 /\ \A l \in 1 .. 27 : i # 32 + l \/ l = k - 27
        BY <1>4
      <4>2. Len(s) > 3 /\ s[1] = "v1" /\ s[3] = "api"
        <5>1. \A l \in 1 .. 27 : i # 32 + l  BY <1>4
        <5> QED  BY <1>1, <1>4, <4>1, <5>1, FitsKinds
      <4> QED  BY <1>2, <4>2, KindsDiffer
    <3> QED  BY <3>1, RequestPaths
  <2>3. /\ t \in Seq(Words) /\ Len(t) = Len(s) - 3
        /\ \A j \in 1 .. Len(t) : t[j] = s[3 + j]
        /\ Fits(s, ApiPrefix \o p) <=> Fits(t, p)
    BY <1>1, <1>3, <2>2, FitsBehind
  <2>4. GroupAnswer(m, t, h)
    <3>1. OnStack(m, s) = {5 + l : l \in Fitting(m, t)}  BY <1>1, <2>2, OnStackApi
    <3> HIDE DEF t
    <3> QED  BY <3>1, GroupAnswers
  <2>5. k \in Fitting(m, t) /\ Len(t) = n
    <3>1. Stack[i].method = m /\ Fits(s, Stack[i].pattern)  BY DEF OnStack
    <3>2. Fits(t, p)  BY <2>1, <2>3, <3>1
    <3>3. Len(t) = n  BY <3>2 DEF Fits
    <3> QED  BY <2>1, <3>1, <3>2, <3>3 DEF Fitting
  <2>6. p[n] # Param
    <3> DEFINE q == ApiPrefix \o p
    <3>1. Len(q) = 3 + n /\ \A j \in 1 .. n : q[3 + j] = p[j]
      BY <1>3, BehindApi
    <3> HIDE DEF q
    <3>2. n \in 1 .. n  BY <1>3
    <3>3. q[Len(q)] = p[n]  BY <3>1, <3>2
    <3>4. q[Len(q)] # Param  BY <2>1 DEF q
    <3> QED  BY <3>3, <3>4
  <2> HIDE DEF t
  <2>7. h = HiddenBy(k, t)  BY <2>3, <2>4, <2>5, <2>6, GroupHidden
  <2>8. n = 4 => t[Len(t) - 1] = s[Len(s) - 1]
    <3> SUFFICES ASSUME n = 4  PROVE t[Len(t) - 1] = s[Len(s) - 1]
      OBVIOUS
    <3>1. Len(t) - 1 = 3 /\ 3 \in 1 .. Len(t) /\ 3 + 3 = 6  BY <2>5
    <3>2. Len(s) - 1 = 6
      <4>1. Len(s) - 3 = 4  BY <2>3, <2>5
      <4>2. \A l \in Nat : l - 3 = 4 => l - 1 = 6  OBVIOUS
      <4> QED  BY <1>2, <4>1, <4>2, Zenon
    <3>3. t[3] = s[3 + 3]  BY <2>3, <3>1
    <3> QED  BY <3>1, <3>2, <3>3
  <2> QED  BY <1>3, <2>1, <2>7, <2>8 DEF Shadow, HiddenBy, Public
<1>5. CASE i = 32 + k
  <2>1. /\ Stack[i].pattern = p /\ Stack[i].handler = Routes[k].handler
        /\ Stack[i].method = Routes[k].method
    <3>1. Stack[i] = Route(Routes[k].method, p, Routes[k].handler)
      BY <1>5, GroupEntry
    <3> QED  BY <3>1 DEF Route
  <2>2. LegacyPath(s)
    <3>1. \A l \in 1 .. 27 : i # 5 + l  BY <1>5
    <3>2. i \notin 1 .. 3 \cup 60 .. 73  BY <1>5
    <3>3. Len(s) > 0 /\ s[1] \in Heads  BY <1>1, <3>1, <3>2, FitsKinds
    <3> QED  BY <3>3 DEF LegacyPath
  <2>3. GroupAnswer(m, s, h)
    <3>1. OnStack(m, s) = {32 + l : l \in Fitting(m, s)}  BY <1>1, <2>2, OnStackLegacy
    <3> QED  BY <3>1, GroupAnswers
  <2>4. k \in Fitting(m, s)  BY <2>1 DEF OnStack, Fitting
  <2>5. h = HiddenBy(k, s)  BY <1>1, <2>1, <2>3, <2>4, GroupHidden
  <2> QED  BY <1>3, <2>1, <2>5 DEF Shadow, HiddenBy, Public
<1> QED  BY <1>4, <1>5

LEMMA AnswersDocumented == Inv => DocumentedUnlessShadowed
<1> SUFFICES ASSUME Inv, answer # "none",
                    NEW i \in DOMAIN Stack, Documented(i, request)
             PROVE  answer = Shadow(i, request)
  BY DEF DocumentedUnlessShadowed
<1>1. request \in Requests /\ request.method \in Methods /\ request.path \in Seq(Words)
  <2>1. request \in Requests  BY DEF Inv, TypeOK
  <2> QED  BY <2>1, RequestPaths
<1>2. i \in OnStack(request.method, request.path)  BY DEF Documented, OnStack
<1>3. \/ i \in 1 .. 3 \cup 60 .. 73
      \/ \E k \in 1 .. 27 : i \in {5 + k, 32 + k}
  <2>1. \/ i \in 1 .. 3 \cup 60 .. 73
        \/ \E k \in 1 .. 27 : i = 5 + k
        \/ \E k \in 1 .. 27 : i = 32 + k
    BY <1>1, <1>2, FitsKinds, Zenon
  <2> QED  BY <2>1
<1>4. CASE answer \in {"400", "401"}
  <2>1. /\ request.user # "valid" /\ position > 3
        /\ answer = IF request.user = "missing" THEN "401" ELSE "400"
    BY <1>4 DEF Inv, Refused
  <2>2. Stack[i].handler \in Public  BY <2>1 DEF Documented
  <2>3. i \notin 1 .. 3
    <3>1. position \in Nat  BY StackFacts DEF Inv, TypeOK
    <3>2. i \notin 1 .. position - 1  BY <1>2 DEF Inv, Passed
    <3> QED  BY <2>1, <3>1, <3>2
  <2>4. ASSUME NEW k \in 1 .. 27  PROVE i # 5 + k /\ i # 32 + k
    <3>1. Routes[k].handler \notin Public  BY RouteHeads
    <3>2. /\ Stack[5 + k] = Route(Routes[k].method, ApiPrefix \o Routes[k].pattern, Routes[k].handler)
          /\ Stack[32 + k] = Route(Routes[k].method, Routes[k].pattern, Routes[k].handler)
      BY GroupEntry
    <3>3. Stack[5 + k].handler = Routes[k].handler  BY <3>2 DEF Route
    <3>4. Stack[32 + k].handler = Routes[k].handler  BY <3>2 DEF Route
    <3> QED  BY <2>2, <3>1, <3>3, <3>4
  <2>5. i \in 60 .. 73  BY <1>3, <2>3, <2>4
  <2>6. Stack[i].handler = "AmoCRMCallback"  BY <2>2, <2>5, PlainEntries DEF Public
  <2> QED  BY <2>1, <2>6 DEF Shadow
<1>5. CASE answer \notin Refusals
  <2>1. /\ FirstAnswer(request.method, request.path, answer)
        /\ request.user = "valid" \/ answer \in {"health", "metrics"}
    BY <1>5 DEF Inv, Answered
  <2>2. CASE i \in 1 .. 3 \cup 60 .. 73
    <3>1. answer = Stack[i].handler  BY <1>1, <1>2, <2>1, <2>2, DocumentedOutside
    <3>2. request.user = "valid" \/ Stack[i].handler # "AmoCRMCallback"
      BY <2>1, <3>1
    <3> QED  BY <1>1, <1>2, <2>1, <2>2, <3>2, DocumentedOutside
  <2>3. ASSUME NEW k \in 1 .. 27, i \in {5 + k, 32 + k}
        PROVE  answer = Shadow(i, request)
    <3>1. Stack[i].pattern[Len(Stack[i].pattern)] # Param  BY DEF Documented
    <3> QED  BY <1>1, <1>2, <2>1, <2>3, <3>1, DocumentedGroup
  <2> QED  BY <1>3, <2>2, <2>3
<1> QED  BY <1>4, <1>5 DEF Refusals

LEMMA AnswersLegacy == Inv => LegacyLikeNew
<1> SUFFICES ASSUME Inv, answer \notin Refusals, HasPrefix(request.path, ApiPrefix)
             PROVE  answer = FirstFit(request.method,
                               SubSeq(request.path, Len(ApiPrefix) + 1, Len(request.path)))
  BY DEF LegacyLikeNew, Refusals
<1> DEFINE m == request.method
           s == request.path
<1>1. request \in Requests  BY DEF Inv, TypeOK
<1>2. /\ m \in Methods /\ s \in Seq(Words)
      /\ ApiPath(s) \/ LegacyPath(s) \/ Outside(s)
  BY <1>1, RequestPaths
<1>3. Len(s) \in Nat  BY <1>2, LenProperties
<1>4. Len(s) >= 3 /\ s[1] = "v1" /\ s[2] = "crm" /\ s[3] = "api"
  <2>1. DOMAIN ApiPrefix = 1 .. 3
    BY ApiPrefixIs, LenProperties DEF Patterns
  <2>2. 3 <= Len(s) /\ \A j \in 1 .. 3 : ApiPrefix[j] = s[j]
    BY <2>1, ApiPrefixIs DEF HasPrefix
  <2>3. ApiPrefix[1] = s[1] /\ ApiPrefix[2] = s[2] /\ ApiPrefix[3] = s[3]  BY <2>2
  <2> QED  BY <1>3, <2>2, <2>3, ApiPrefixIs
<1>5. ApiPath(s)
  <2>1. ~LegacyPath(s) /\ ~Outside(s)  BY <1>3, <1>4, KindsDiffer
  <2> QED  BY <1>2, <2>1
<1>6. FirstAnswer(m, s, answer)  BY DEF Inv, Answered
<1>7. Len(ApiPrefix) + 1 = 4  BY ApiPrefixIs
<1>8. FirstAnswer(m, SubSeq(s, 4, Len(s)), answer)
  BY <1>2, <1>5, <1>6, SameAnswer
<1> QED  BY <1>7, <1>8, FirstFitIs

-----------------------------------------------------------------------------
(* The theorems.                                                           *)

(* The place in the stack, the user and the answer keep their types.       *)
THEOREM TypeCorrect == Spec => []TypeOK
<1>1. Inv => TypeOK  BY DEF Inv
<1> QED  BY <1>1, InvHolds, PTL

(* No route but the public ones answers a request without a valid          *)
(* X-User-ID, whatever the client puts in the place of a parameter.        *)
THEOREM UserKnown == Spec => []HandlersHaveUser
<1>1. Inv => HandlersHaveUser  BY DEF Inv
<1> QED  BY <1>1, InvHolds, PTL

(* A path behind /v1/crm/api and the same path without the prefix are      *)
(* answered by the same handler, whatever stands for a parameter: a method *)
(* or a word that one group lacks, the other lacks too.                    *)
THEOREM LegacyKept == Spec => []LegacyLikeNew
<1> QED  BY AnswersLegacy, InvHolds, PTL

(* Every request gets the answer documented for it, with the exceptions    *)
(* that Shadow lists and no other, whatever the client puts in the place   *)
(* of a parameter, the words of other routes included.                     *)
THEOREM DocumentedAnswer == Spec => []DocumentedUnlessShadowed
<1> QED  BY AnswersDocumented, InvHolds, PTL
=============================================================================
