------------------------------- MODULE Access -------------------------------
(* The way of a request through the API (adapter/http): authentication by a  *)
(* session of Redis or by an API key, rate limit, Pro gate, handler; while   *)
(* sessions end, keys are revoked or expire and the user's plan changes.     *)
(* Of the service calls only those on sessions and keys are modelled here.   *)
(*                                                                           *)
(* All sessions and keys belong to one user.  A path is the sequence of its  *)
(* parts.  The router takes a path in any case and with or without a slash   *)
(* at its end; the middlewares compare the path as it was sent.              *)
EXTENDS Integers, Sequences

CONSTANTS Calls,      \* requests under way
          Asks(_, _, _), \* bound: which calls are for which handlers, with what
          Sent(_, _), \* bound: the spellings in which a call may send a path
          Sessions,   \* session ids
          Keys,       \* API keys
          Scopes,     \* Keys -> the scopes they were created with
          Nobody      \* no credential

ASSUME NobodyAssumption == Nobody \notin Sessions \cup Keys
(* A session id comes in a cookie, a key in a bearer header.                 *)
ASSUME CredentialsAssumption == Sessions \cap Keys = {}

VARIABLES session,    \* the entries of Redis
          apiKey,     \* api_keys, with those whose expires_at has passed
          ownerPlan,  \* users.plan of the user
          call,       \* the requests
          ended       \* history: sessions that were logged out or ran out

accessVars == <<session, apiKey, ownerPlan, call, ended>>

Handler(method, path, asks, op) ==
    [method |-> method, path |-> path, asks |-> asks, op |-> op]
Api(path) == <<"api">> \o path

(* The handlers, file by file.  "asks" says that the first thing a handler   *)
(* does is to ask for the user (requireUser).                                *)
AccountHandlers ==
    {Handler("POST", Api(<<"auth", "register">>), FALSE, "Register"),
     Handler("POST", Api(<<"auth", "login">>), FALSE, "Login"),
     Handler("POST", Api(<<"auth", "logout">>), FALSE, "Logout"),
     Handler("GET", Api(<<"auth", "me">>), TRUE, "GetMe")}

MonitorHandlers ==
    {Handler("GET", Api(<<"monitors">>), TRUE, "ListMonitorsWithUptime"),
     Handler("POST", Api(<<"monitors">>), TRUE, "CreateMonitor"),
     Handler("GET", Api(<<"monitor-types">>), FALSE, "Types"),
     Handler("GET", Api(<<"monitors", ":id">>), TRUE, "GetMonitorDetail"),
     Handler("PUT", Api(<<"monitors", ":id">>), TRUE, "UpdateMonitor"),
     Handler("DELETE", Api(<<"monitors", ":id">>), TRUE, "DeleteMonitor"),
     Handler("POST", Api(<<"monitors", ":id", "pause">>), TRUE, "TogglePause")}

PageHandlers ==
    {Handler("GET", Api(<<"status", ":slug">>), FALSE, "GetStatusPage"),
     Handler("GET", Api(<<"me", "branding">>), TRUE, "GetBranding"),
     Handler("PATCH", Api(<<"me", "branding">>), TRUE, "UpdateBranding")}

StatsHandlers ==
    {Handler("GET", Api(<<"billing", "founder-status">>), FALSE, "FounderStatus"),
     Handler("GET", Api(<<"stats", "public">>), FALSE, "GetPublic")}

ChannelHandlers ==
    {Handler("GET", Api(<<"channel-types">>), FALSE, "Types"),
     Handler("GET", Api(<<"channels">>), TRUE, "ListChannels"),
     Handler("POST", Api(<<"channels">>), TRUE, "CreateChannel"),
     Handler("GET", Api(<<"channels", ":id">>), TRUE, "GetChannelByID"),
     Handler("PUT", Api(<<"channels", ":id">>), TRUE, "UpdateChannel"),
     Handler("DELETE", Api(<<"channels", ":id">>), TRUE, "DeleteChannel"),
     Handler("POST", Api(<<"monitors", ":id", "channels">>), TRUE, "BindChannel"),
     Handler("DELETE", Api(<<"monitors", ":id", "channels", ":id">>), TRUE, "UnbindChannel")}

KeyHandlers ==
    {Handler("GET", Api(<<"api-keys">>), TRUE, "ListByUser"),
     Handler("POST", Api(<<"api-keys">>), TRUE, "CreateAPIKey"),
     Handler("DELETE", Api(<<"api-keys", ":id">>), TRUE, "RevokeAPIKey")}

IncidentHandlers ==
    {Handler("POST", Api(<<"incidents">>), TRUE, "CreateManualIncident"),
     Handler("PATCH", Api(<<"incidents", ":id", "state">>), TRUE, "ChangeIncidentState"),
     Handler("GET", Api(<<"incidents", ":id", "updates">>), FALSE, "ListIncidentUpdates")}

SubscriptionHandlers ==
    {Handler("GET", Api(<<"me", "subscribers">>), TRUE, "ListConfirmed"),
     Handler("POST", Api(<<"status", ":slug", "subscribe">>), FALSE, "Subscribe"),
     Handler("GET", Api(<<"status", ":slug", "confirm">>), FALSE, "Confirm"),
     Handler("GET", Api(<<"status", ":slug", "unsubscribe">>), FALSE, "Unsubscribe")}

NewsletterHandlers ==
    {Handler("POST", Api(<<"newsletter", "subscribe">>), FALSE, "Subscribe"),
     Handler("GET", Api(<<"newsletter", "confirm">>), FALSE, "Confirm"),
     Handler("GET", Api(<<"newsletter", "unsubscribe">>), FALSE, "Unsubscribe")}

GroupHandlers ==
    {Handler("GET", Api(<<"monitor-groups">>), TRUE, "ListMonitorGroups"),
     Handler("POST", Api(<<"monitor-groups">>), TRUE, "CreateMonitorGroup"),
     Handler("PUT", Api(<<"monitor-groups", ":id">>), TRUE, "UpdateMonitorGroup"),
     Handler("DELETE", Api(<<"monitor-groups", ":id">>), TRUE, "DeleteMonitorGroup"),
     Handler("PUT", Api(<<"monitors", ":id", "group">>), TRUE, "AssignMonitorGroup")}

MaintenanceHandlers ==
    {Handler("GET", Api(<<"maintenance-windows">>), TRUE, "ListMaintenanceWindows"),
     Handler("POST", Api(<<"maintenance-windows">>), TRUE, "ScheduleMaintenance"),
     Handler("DELETE", Api(<<"maintenance-windows", ":id">>), TRUE, "DeleteMaintenanceWindow")}

DomainHandlers ==
    {Handler("GET", Api(<<"custom-domains">>), TRUE, "ListDomains"),
     Handler("POST", Api(<<"custom-domains">>), TRUE, "RequestDomain"),
     Handler("DELETE", Api(<<"custom-domains", ":id">>), TRUE, "DeleteDomain")}

LookupHandler == Handler("GET", Api(<<"public", "lookup-domain">>), FALSE, "LookupHostname")
ImportHandler == Handler("POST", Api(<<"import", "atlassian">>), TRUE, "Import")
ExportHandler == Handler("GET", Api(<<"incidents", "export.csv">>), TRUE, "ListIncidentsForExport")
BadgeHandler == Handler("GET", <<"status", ":slug", "badge.svg">>, FALSE, "GetStatusPage")
FeedHandler == Handler("GET", <<"status", ":slug", "feed.xml">>, FALSE, "GetStatusPage")

(* RegisterHandlersWithOptions puts these behind the three middlewares.      *)
Routed ==
    UNION {AccountHandlers, MonitorHandlers, PageHandlers, StatsHandlers, ChannelHandlers,
           KeyHandlers, IncidentHandlers, SubscriptionHandlers, NewsletterHandlers,
           GroupHandlers, MaintenanceHandlers, DomainHandlers, {LookupHandler, ImportHandler}}
Handlers == Routed \cup {ExportHandler, BadgeHandler, FeedHandler}

-----------------------------------------------------------------------------
(* The spellings of a path that the router takes to its handler: some parts  *)
(* in another case, and perhaps a slash at the end, which leaves an empty    *)
(* last part.  A part in another case equals none that a middleware names.   *)

OtherCase == "OTHER CASE"
Spelled(path, odd, slash) ==
    [i \in 1..(IF slash THEN Len(path) + 1 ELSE Len(path)) |->
        IF i > Len(path) THEN "" ELSE IF i \in odd THEN OtherCase ELSE path[i]]
Spellings(path) ==
    {Spelled(path, odd, slash) : odd \in SUBSET (1..Len(path)), slash \in BOOLEAN}

ASSUME SentAssumption ==
    \A c \in Calls, h \in Handlers : Sent(c, h.path) \subseteq Spellings(h.path)

-----------------------------------------------------------------------------
(* What the middlewares read off a request.                                  *)

Under(path, prefix) ==
    Len(path) >= Len(prefix) /\ SubSeq(path, 1, Len(prefix)) = prefix
EndsIn(path, part) == path[Len(path)] = part
Below(path, prefix) == Under(path, prefix) /\ Len(path) > Len(prefix)
Reads(method) == method \in {"GET", "HEAD"}

(* authMiddlewareSelector lets these pass.                                   *)
IsPublic(method, path) ==
    \/ ~Under(path, Api(<<>>))
    \/ path \in {Api(<<"auth", "register">>), Api(<<"auth", "login">>),
                 Api(<<"stats", "public">>), Api(<<"billing", "founder-status">>),
                 Api(<<"public", "lookup-domain">>)}
    \/ Below(path, Api(<<"newsletter">>)) \/ Below(path, Api(<<"status">>))
    \/ method = "GET" /\ Below(path, Api(<<"incidents">>)) /\ EndsIn(path, "updates")

(* proGateSelector.  Mutant: it looks at POST requests only.                 *)
IsGatedPost(method, path) ==
    method = "POST" /\ path \in {Api(<<"incidents">>), Api(<<"maintenance-windows">>),
                                 Api(<<"import", "atlassian">>), Api(<<"custom-domains">>)}
IsGated(method, path) ==
    \/ method = "POST" /\ path \in {Api(<<"incidents">>), Api(<<"maintenance-windows">>),
                                    Api(<<"import", "atlassian">>), Api(<<"custom-domains">>)}
    \/ method = "PATCH" /\ path = Api(<<"me", "branding">>)
    \/ method = "PATCH" /\ Below(path, Api(<<"incidents">>)) /\ EndsIn(path, "state")
    \/ method = "DELETE" /\ (\/ Below(path, Api(<<"maintenance-windows">>))
                             \/ Below(path, Api(<<"custom-domains">>)))

(* What they come to for a path as sent, with the chain of the export, which *)
(* is attached to its route (setup.go).                                      *)
Open(h, path) == h \in Routed /\ IsPublic(h.method, path)
Gated(h, path) == h = ExportHandler \/ (h \in Routed /\ IsGated(h.method, path))

RequiredScope(method, path) ==
    <<IF path[1] = "api" /\ path[2] \in {"channels", "incidents"} THEN path[2] ELSE "monitors",
      IF Reads(method) THEN "read" ELSE "write">>

(* apiRateLimitSelector.  A user's bucket needs a user.                      *)
Bucket(h, path, user) ==
    IF \/ h \notin Routed \/ ~Under(path, Api(<<>>))
       \/ path \in {Api(<<"auth", "register">>), Api(<<"auth", "login">>)}
    THEN "none"
    ELSE IF \/ Below(path, Api(<<"status">>)) \/ Below(path, Api(<<"newsletter">>))
            \/ path = Api(<<"stats", "public">>)
    THEN "status"
    ELSE IF user = "none" THEN "none" ELSE IF Reads(h.method) THEN "read" ELSE "write"

(* Handlers whose comments say they are for Pro users.                       *)
ForPro ==
    {h \in Handlers : h.op \in
        {"CreateManualIncident", "ChangeIncidentState", "UpdateBranding", "ScheduleMaintenance",
         "DeleteMaintenanceWindow", "Import", "RequestDomain", "DeleteDomain",
         "ListIncidentsForExport", "CreateMonitorGroup", "UpdateMonitorGroup",
         "DeleteMonitorGroup", "AssignMonitorGroup"}}

-----------------------------------------------------------------------------
Stages == {"idle", "auth", "load", "touch", "limit", "handler"}
NoCall == [at |-> "idle", handler |-> LookupHandler, path |-> LookupHandler.path,
           with |-> Nobody, user |-> "none", late |-> FALSE]

(* Only well-formed rows, entries and requests exist.                        *)
AccessTypeOK ==
    /\ session \subseteq Sessions
    /\ ended \subseteq Sessions
    /\ apiKey \in [Keys -> {"unused", "live", "expired", "deleted"}]
    /\ ownerPlan \in {"free", "pro"}
    /\ \A c \in Calls :
          /\ call[c].at \in Stages
          /\ call[c].handler \in Handlers
          /\ call[c].path \in Spellings(call[c].handler.path)
          /\ call[c].with \in Sessions \cup Keys \cup {Nobody}
          /\ call[c].user \in {"none", "free", "pro"}
          /\ call[c].late \in BOOLEAN

AccessInit ==
    /\ session = {}
    /\ ended = {}
    /\ apiKey = [k \in Keys |-> "unused"]
    /\ ownerPlan = "free"
    /\ call = [c \in Calls |-> NoCall]

CallAt(c, stage) == call[c].at = stage
Refused(c) == call' = [call EXCEPT ![c] = NoCall]
Proceed(c, stage) == call' = [call EXCEPT ![c].at = stage]

Spent(w) == w \in ended \/ (w \in Keys /\ apiKey[w] \in {"expired", "deleted"})
HandedOut == session \cup ended \cup {k \in Keys : apiKey[k] # "unused"}

(* A request comes in; badge and feed have no middleware, and the selector   *)
(* lets public paths pass.                                                   *)
BeginCall(c, h, w) ==
    /\ CallAt(c, "idle")
    /\ Asks(c, h, w)
    /\ \E path \in Sent(c, h.path) :
          call' = [call EXCEPT ![c] =
             [at |-> IF h \in {BadgeHandler, FeedHandler} THEN "handler"
                     ELSE IF Open(h, path) THEN "limit" ELSE "auth",
              handler |-> h, path |-> path, with |-> w, user |-> "none", late |-> Spent(w)]]
    /\ UNCHANGED <<session, apiKey, ownerPlan, ended>>

-----------------------------------------------------------------------------
(* AuthMiddleware.                                                           *)

GetUserID(w) == w \in session
GetByHash(w) == w \in Keys /\ apiKey[w] \in {"live", "expired"}
IsExpired(w) == apiKey[w] = "expired"
HasScope(w, scope) == scope \in Scopes[w]

AuthenticateWithAPIKey(w, method, path) ==
    GetByHash(w) /\ ~IsExpired(w) /\ HasScope(w, RequiredScope(method, path))

Authenticate(c) ==
    /\ CallAt(c, "auth")
    /\ IF \/ GetUserID(call[c].with)
          \/ AuthenticateWithAPIKey(call[c].with, call[c].handler.method, call[c].path)
       THEN Proceed(c, "load")
       ELSE Refused(c)
    /\ UNCHANGED <<session, apiKey, ownerPlan, ended>>

(* GetByID, for both kinds of credentials.                                   *)
LoadUser(c) ==
    /\ CallAt(c, "load")
    /\ \/ call' = [call EXCEPT ![c].user = ownerPlan,
                              ![c].at = IF call[c].with \in Keys THEN "limit" ELSE "touch"]
       \/ Refused(c)
    /\ UNCHANGED <<session, apiKey, ownerPlan, ended>>

(* Touch is EXPIRE, which creates nothing; the mutant is a SET.              *)
TouchedBySet(w) == session \cup {w}
Touched(w) == session

ValidateSession(c) ==
    /\ CallAt(c, "touch")
    /\ session' = Touched(call[c].with)
    /\ Proceed(c, "limit")
    /\ UNCHANGED <<apiKey, ownerPlan, ended>>

-----------------------------------------------------------------------------
(* The other two middlewares and the handler.                                *)

RequirePro(c) == call[c].user = "pro"

(* The limiter may refuse when the request has a bucket, and lets it pass    *)
(* when Redis fails.                                                         *)
LimitAndGate(c) ==
    /\ CallAt(c, "limit")
    /\ \/ Bucket(call[c].handler, call[c].path, call[c].user) # "none" /\ Refused(c)
       \/ IF Gated(call[c].handler, call[c].path) /\ ~RequirePro(c)
          THEN Refused(c)
          ELSE Proceed(c, "handler")
    /\ UNCHANGED <<session, apiKey, ownerPlan, ended>>

(* Register and Login have a limiter of their own and end in createSession.  *)
CreateSession(c) ==
    /\ call[c].handler.op \in {"Register", "Login"}
    /\ \E w \in Sessions \ (session \cup ended) : session' = session \cup {w}
    /\ UNCHANGED <<apiKey, ownerPlan, ended>>

Logout(c) ==
    /\ call[c].handler.op = "Logout"
    /\ call[c].with \in Sessions
    /\ session' = session \ {call[c].with}
    /\ ended' = ended \cup {call[c].with}
    /\ UNCHANGED <<apiKey, ownerPlan>>

CreateAPIKey(c) ==
    /\ call[c].handler.op = "CreateAPIKey"
    /\ \E k \in Keys : /\ apiKey[k] = "unused"
                       /\ apiKey' = [apiKey EXCEPT ![k] = "live"]
    /\ UNCHANGED <<session, ownerPlan, ended>>

RevokeAPIKey(c) ==
    /\ call[c].handler.op = "RevokeAPIKey"
    /\ \E k \in Keys : /\ apiKey[k] \in {"live", "expired"}
                       /\ apiKey' = [apiKey EXCEPT ![k] = "deleted"]
    /\ UNCHANGED <<session, ownerPlan, ended>>

(* The handler answers: without its user 401; or the body, a limiter or the  *)
(* service refuses; or the service does its work.                            *)
Handle(c) ==
    /\ CallAt(c, "handler")
    /\ call' = [call EXCEPT ![c] = NoCall]
    /\ \/ UNCHANGED <<session, apiKey, ownerPlan, ended>>
       \/ /\ call[c].handler.asks => call[c].user # "none"
          /\ CreateSession(c) \/ Logout(c) \/ CreateAPIKey(c) \/ RevokeAPIKey(c)

(* The rest of the world: Redis drops a session, a key's time comes, a       *)
(* webhook changes the plan.                                                 *)
SessionExpires(w) ==
    /\ w \in session
    /\ session' = session \ {w}
    /\ ended' = ended \cup {w}
    /\ UNCHANGED <<apiKey, ownerPlan, call>>

KeyExpires(k) ==
    /\ apiKey[k] = "live"
    /\ apiKey' = [apiKey EXCEPT ![k] = "expired"]
    /\ UNCHANGED <<session, ownerPlan, call, ended>>

PlanChanges ==
    /\ ownerPlan' \in {"free", "pro"} \ {ownerPlan}
    /\ UNCHANGED <<session, apiKey, call, ended>>

AccessNext ==
    \/ \E c \in Calls : \/ \E h \in Handlers, w \in HandedOut \cup {Nobody} : BeginCall(c, h, w)
                        \/ Authenticate(c) \/ LoadUser(c) \/ ValidateSession(c)
                        \/ LimitAndGate(c) \/ Handle(c)
    \/ \E w \in Sessions : SessionExpires(w)
    \/ \E k \in Keys : KeyExpires(k)
    \/ PlanChanges

AccessSpec == AccessInit /\ [][AccessNext]_accessVars

-----------------------------------------------------------------------------
(* Properties.                                                               *)

(* What the chain has done for a handler by the time it runs.  A request     *)
(* whose path begins with /api/, whatever the rest of its spelling, has the  *)
(* user that its handler asks for; one spelled as in the route table meets   *)
(* the Pro gate when its handler is for Pro users, and the export meets it   *)
(* in any spelling; a key had the scope of the resource if the path names    *)
(* that as the table does.  The lists are kept by hand in four selectors     *)
(* (setup.go:92-215, middleware.go:54-70) beside the handlers.  No rule of   *)
(* the gate names the group handlers, whose comments call them Pro-gated.    *)
HandlerTrustsChain ==
    \A c \in Calls : CallAt(c, "handler") =>
        LET h == call[c].handler
            path == call[c].path
        IN  /\ h.asks /\ path[1] = "api" => call[c].user # "none"
            /\ h \in ForPro \ GroupHandlers /\ (path = h.path \/ h = ExportHandler)
                  => call[c].user = "pro"
            /\ (call[c].with \in Keys /\ call[c].user # "none"
                   /\ path[1] = h.path[1] /\ path[2] = h.path[2])
                  => RequiredScope(h.method, h.path) \in Scopes[call[c].with]

(* A session that was logged out or ran out, and a key that was revoked or   *)
(* expired, serves no request that comes in later: the Touch of a request    *)
(* that passed GetUserID before does not bring it back (auth.go:108-128,     *)
(* session.go:41-51).                                                        *)
SpentStaysSpent ==
    \A c \in Calls : call[c].late => call[c].user = "none"
=============================================================================
