--------------------------------- MODULE Api --------------------------------
(***************************************************************************)
(* The HTTP contract between the browser, platform-service and the         *)
(* controller: the routes and handlers of platform-service, the calls of   *)
(* its controller client, and the routes and handlers of the controller,   *)
(* each a table with a row per function.  One request travels through      *)
(* them; the controller may be unreachable, and may answer too late: the   *)
(* platform then has its error, and what was asked for may still be done.  *)
(*                                                                         *)
(* Paths are sequences of segments, without the leading "api".  The value  *)
(* of a URL parameter is written as the parameter's name, ":id": a path    *)
(* template therefore also is a URL that fits it.                          *)
(***************************************************************************)
EXTENDS Integers, Sequences, FiniteSets, SequencesExt

CONSTANT None

\* Names of URL parameters, and the catch-all of ObserveForward.
Params == {":id", ":buildId", ":branch", ":credentialId", ":instanceId", ":orderId", ":gameId"}
CatchAll == "*path"
-----------------------------------------------------------------------------
(* platform-service: a row has the route (middlewares, method, path), whose *)
(* resource it is (own), the refusals of the local checks before the first  *)
(* call (pre), the calls with their arguments, the mapping of their errors  *)
(* (errs), the refusals of the local work after them (post) and the success *)
(* status.  A call is a name, its arguments and perhaps a tag: "maybe" if   *)
(* the handler may do without it, "each" if it is one of a loop that goes   *)
(* on after an error, "check" if another local check precedes it.  The argument "instance" is the instance of the loaded order or      *)
(* subscription.                                                            *)

Row(h, mw, m, p, own, pre, calls, errs, post, ok) ==
  [h |-> h, mw |-> mw, m |-> m, p |-> p, own |-> own, pre |-> pre, calls |-> calls,
   errs |-> errs, post |-> post, ok |-> ok]

\* The group /api/admin.
Admin(h, m, p, pre, calls, ok) ==
  Row(h, {"auth", "admin"}, m, <<"admin">> \o p, "", pre, calls, "fail", {}, ok)

AdminNodes == {
  Admin("ListNodes", "GET", <<"nodes">>, {}, << <<"ListNodes", <<>> >> >>, 200),
  Admin("CreateNode", "POST", <<"nodes">>, {400}, << <<"CreateNode", <<>> >> >>, 201),
  Admin("GetNode", "GET", <<"nodes", ":id">>, {}, << <<"GetNode", <<":id">> >> >>, 200),
  Admin("UpdateNode", "PUT", <<"nodes", ":id">>, {400}, << <<"UpdateNode", <<":id">> >> >>, 200),
  [Admin("DeleteNode", "DELETE", <<"nodes", ":id">>, {}, << <<"DeleteNode", <<":id">> >> >>, 200)
     EXCEPT !.errs = "conflict"],
  Admin("ListNodeAgents", "GET", <<"node-agents">>, {}, << <<"ListNodeAgents", <<>> >> >>, 200),
  Admin("CreateNodeAgent", "POST", <<"node-agents">>, {400}, << <<"CreateNodeAgent", <<>> >> >>, 201),
  Admin("EnableNodeAgent", "POST", <<"node-agents", ":id", "enable">>, {},
        << <<"SetNodeAgentEnabled", <<":id", "enable">> >> >>, 200),
  Admin("DisableNodeAgent", "POST", <<"node-agents", ":id", "disable">>, {},
        << <<"SetNodeAgentEnabled", <<":id", "disable">> >> >>, 200)}

AdminReleases == {
  Admin("UploadAgentRelease", "POST", <<"node-agents", "releases">>, {400, 500},
        << <<"UploadAgentRelease", <<>> >> >>, 201),
  Admin("ListAgentReleases", "GET", <<"node-agents", "releases">>, {},
        << <<"ListAgentReleases", <<>> >> >>, 200),
  Admin("BatchUpdateNodeAgents", "POST", <<"node-agents", "batch-update">>, {400},
        << <<"BatchUpdateNodeAgents", <<>> >> >>, 200),
  Admin("RollbackNodeAgent", "POST", <<"node-agents", ":id", "rollback">>, {400},
        << <<"RollbackNodeAgent", <<":id">> >> >>, 200)}

\* DeleteGame goes on with the platform's own rows of the game.
AdminGames == {
  Admin("ListGames", "GET", <<"games">>, {}, << <<"ListGames", <<>> >> >>, 200),
  Admin("CreateGame", "POST", <<"games">>, {400}, << <<"CreateGame", <<>> >> >>, 201),
  Admin("GetGame", "GET", <<"games", ":id">>, {}, << <<"GetGame", <<":id">> >> >>, 200),
  Admin("UpdateGame", "PUT", <<"games", ":id">>, {400}, << <<"UpdateGame", <<":id">> >> >>, 200),
  [Admin("DeleteGame", "DELETE", <<"games", ":id">>, {}, << <<"DeleteGame", <<":id">> >> >>, 200)
     EXCEPT !.post = {500}]}

AdminConfig == {
  Admin("GetContainerConfig", "GET", <<"games", ":id", "container-config">>, {},
        << <<"GetContainerConfig", <<":id">> >> >>, 200),
  Admin("UpdateContainerConfig", "PUT", <<"games", ":id", "container-config">>, {400},
        << <<"UpdateContainerConfig", <<":id">> >> >>, 200),
  Admin("ObserveForward", "ANY", <<"observe", CatchAll>>, {},
        << <<"ObserveForward", <<CatchAll>> >> >>, 200)}

AdminBranches == {
  Admin("ListBranches", "GET", <<"games", ":id", "branches">>, {},
        << <<"ListBranches", <<":id">> >> >>, 200),
  Admin("SyncBranches", "POST", <<"games", ":id", "branches", "sync">>, {},
        << <<"SyncBranches", <<":id">> >> >>, 200),
  Admin("SetBranchMinReplicas", "PUT", <<"games", ":id", "branches", ":branch">>, {400},
        << <<"SetBranchMinReplicas", <<":id", ":branch">> >> >>, 200),
  Admin("InstanceFileSession", "POST", <<"instances", ":instanceId", "file-session">>, {},
        << <<"CreateFileSession", <<":instanceId">> >> >>, 200),
  Admin("NodeAgentLogSession", "POST", <<"node-agents", ":id", "log-session">>, {},
        << <<"CreateAgentLogSession", <<":id">> >> >>, 200),
  Admin("UpdateBranchCache", "POST", <<"games", ":id", "branches", ":branch", "cache">>, {400},
        << <<"UpdateBranchCache", <<":id", ":branch">> >> >>, 200)}

\* The profile is the platform's; the icon needs a game of the controller.
AdminProfiles == {
  [Admin("UpdateGameProfile", "PUT", <<"games", ":id", "profile">>, {400}, << >>, 200)
     EXCEPT !.post = {500}],
  [Admin("UploadGameIcon", "POST", <<"games", ":id", "icon">>, {400},
         << <<"GetGame", <<":id">> >> >>, 200) EXCEPT !.post = {400, 500}]}

AdminBuilds == {
  Admin("ListGameBuilds", "GET", <<"games", ":id", "builds">>, {},
        << <<"ListGameBuilds", <<":id">> >> >>, 200),
  Admin("RegisterGameBuild", "POST", <<"games", ":id", "builds">>, {400},
        << <<"RegisterGameBuild", <<":id">> >> >>, 201),
  Admin("GetGameBuild", "GET", <<"games", ":id", "builds", ":buildId">>, {},
        << <<"GetGameBuild", <<":id", ":buildId">> >> >>, 200),
  Admin("GetPlatformConfig", "GET", <<"games", ":id", "platform-config">>, {},
        << <<"GetPlatformConfig", <<":id">> >> >>, 200),
  Admin("UpdatePlatformConfig", "PUT", <<"games", ":id", "platform-config">>, {400},
        << <<"UpdatePlatformConfig", <<":id">> >> >>, 200)}

AdminCredentials == {
  Admin("ListCredentials", "GET", <<"games", ":id", "credentials">>, {},
        << <<"ListCredentials", <<":id">> >> >>, 200),
  Admin("ListCredentialTypes", "GET", <<"games", ":id", "credentials", "types">>, {},
        << <<"ListCredentialTypes", <<":id">> >> >>, 200),
  Admin("CreateCredentials", "POST", <<"games", ":id", "credentials">>, {400},
        << <<"CreateCredentials", <<":id">> >> >>, 201),
  Admin("DeleteCredential", "DELETE", <<"games", ":id", "credentials", ":credentialId">>, {},
        << <<"DeleteCredential", <<":id", ":credentialId">> >> >>, 200),
  Admin("ForceReleaseCredential", "POST",
        <<"games", ":id", "credentials", ":credentialId", "force-release">>, {},
        << <<"ForceReleaseCredential", <<":id", ":credentialId">> >> >>, 200)}

AdminApi == AdminNodes \cup AdminReleases \cup AdminGames \cup AdminConfig \cup AdminBranches
            \cup AdminProfiles \cup AdminBuilds \cup AdminCredentials

\* /api/orders and /api/me/instances, for every user that is logged in.
Orders(h, m, p, own, pre, calls, errs, post, ok) ==
  Row(h, {"auth"}, m, p, own, pre, calls, errs, post, ok)

OrderHandlers == {
  Orders("CreateOrder", "POST", <<"orders">>, "", {400}, << >>, "internal", {500}, 201),
  Orders("ConfigSchema", "GET", <<"games", ":gameId", "config-schema">>, "", {},
         << <<"GetConfigSchema", <<":gameId">> >> >>, "internal", {}, 200),
  Orders("ListOrders", "GET", <<"orders">>, "", {}, << >>, "internal", {500}, 200),
  Orders("GetOrder", "GET", <<"orders", ":id">>, "order", {}, << >>, "internal", {}, 200),
  Orders("PayOrder", "POST", <<"orders", ":id", "pay">>, "order", {500},
         << <<"CreateGameInstance", <<>> >> >>, "internal", {500}, 200)}

\* Mutant: the session is asked for with the id of the order.
OrderInstanceHandlersByOrder == {
  Orders("MyFileSession", "POST", <<"me", "instances", ":orderId", "file-session">>, "order", {400},
         << <<"CreateFileSession", <<":orderId">> >> >>, "gateway", {}, 200)}

\* ListInstances: the instance of every order that has one, and its address
\* when it runs; what the controller does not answer is shown as "unknown".
UserInstances == << <<"GetGameInstance", <<"instance">>, "maybe">>,
                    <<"GetInstanceConnect", <<"instance">>, "maybe">> >>

OrderInstanceHandlers == {
  Orders("StartInstance", "POST", <<"orders", ":id", "instance", "start">>, "order", {500},
         << <<"StartGameInstance", <<"instance">> >> >>, "internal", {}, 200),
  Orders("StopInstance", "POST", <<"orders", ":id", "instance", "stop">>, "order", {500},
         << <<"StopGameInstance", <<"instance">> >> >>, "internal", {}, 200),
  [Orders("ProvisionOrder", "POST", <<"orders", ":id", "provision">>, "", {404, 500},
          << <<"CreateGameInstance", <<>> >> >>, "internal", {500}, 200)
     EXCEPT !.mw = {"auth", "admin"}],
  Orders("MyInstances", "GET", <<"me", "instances">>, "", {500},
         UserInstances,
         "unknown", {}, 200),
  Orders("MyFileSession", "POST", <<"me", "instances", ":orderId", "file-session">>, "order", {400},
         << <<"CreateFileSession", <<"instance">> >> >>, "gateway", {}, 200),
  Orders("MyInstanceConfig", "PUT", <<"me", "instances", ":orderId", "config">>, "order", {400},
         << <<"UpdateInstanceConfig", <<"instance">> >> >>, "bad", {}, 200),
  [Orders("AllInstances", "GET", <<"instances">>, "", {500},
          UserInstances,
          "unknown", {}, 200) EXCEPT !.mw = {"auth", "admin"}]}

\* stopActiveInstances: the list, and a stop for each of two instances that
\* is neither stopped nor failed.
StopActive == << <<"ListGameInstancesBySubscription", <<>> >>,
                <<"StopGameInstance", <<"instance">>, "each">>,
                <<"StopGameInstance", <<"instance">>, "each">> >>

\* /api/me/subscriptions.
Mine(h, m, p, own, pre, calls, post, ok) ==
  Row(h, {"auth"}, m, <<"me">> \o p, own, pre, calls, "sub", post, ok)

SubscriptionHandlers == {
  Mine("ListMine", "GET", <<"subscriptions">>, "", {}, << >>, {500}, 200),
  Mine("Purchase", "POST", <<"subscriptions">>, "", {400}, << >>, {404, 400}, 201),
  Mine("ListPlans", "GET", <<"plans">>, "", {}, << >>, {500}, 200),
  Mine("Renew", "POST", <<"subscriptions", ":id", "renew">>, "subscription", {}, << >>, {400}, 200),
  Mine("Cancel", "POST", <<"subscriptions", ":id", "cancel">>, "subscription", {400}, StopActive,
       {400}, 200)}

SubscriptionInstanceHandlers ==
  LET of == <<"subscriptions", ":id", "instances">>
      one == of \o <<":instanceId">>
      load == <<"GetGameInstance", <<":instanceId">> >>
  IN {Mine("ListInstances", "GET", of, "subscription", {},
           << <<"ListGameInstancesBySubscription", <<>> >> >>, {}, 200),
      Mine("CreateInstance", "POST", of, "subscription", {400},
           << <<"ListGameInstancesBySubscription", <<>>, "maybe">>,
              <<"CreateGameInstance", <<>>, "check">> >>, {}, 201),
      Mine("StartInstance", "POST", one \o <<"start">>, "subscription", {400},
           <<load, <<"StartGameInstance", <<":instanceId">>, "check">> >>, {}, 200),
      Mine("StopInstance", "POST", one \o <<"stop">>, "subscription", {400},
           <<load, <<"StopGameInstance", <<":instanceId">>, "check">> >>, {}, 200),
      Mine("GetInstanceRuntime", "GET", one \o <<"runtime">>, "subscription", {400},
           <<load, <<"GetInstanceRuntime", <<":instanceId">>, "check">> >>, {}, 200)}

PlanHandlers ==
  LET A(h, m, p, pre, calls, post, ok) ==
        [Admin(h, m, p, pre, calls, ok) EXCEPT !.errs = "bad", !.post = post]
  IN {A("ListPlans", "GET", <<"plans">>, {}, << >>, {400}, 200),
      A("CreatePlan", "POST", <<"plans">>, {400}, << >>, {400}, 201),
      A("GetPlan", "GET", <<"plans", ":id">>, {}, << >>, {404, 400}, 200),
      A("UpdatePlan", "PUT", <<"plans", ":id">>, {400}, << >>, {404, 400}, 200),
      A("DeletePlan", "DELETE", <<"plans", ":id">>, {}, << >>, {400}, 200),
      A("ListSubscriptions", "GET", <<"subscriptions">>, {}, << >>, {400}, 200),
      A("SuspendSubscription", "POST", <<"subscriptions", ":id", "suspend">>, {404, 400}, StopActive,
        {400}, 200),
      A("UnsuspendSubscription", "POST", <<"subscriptions", ":id", "unsuspend">>, {404, 400}, << >>,
        {400}, 200),
      A("CancelSubscription", "POST", <<"subscriptions", ":id", "cancel">>, {404, 400}, StopActive,
        {400}, 200)}

\* Registration is open; roles and statuses are the administrator's.
UserHandlers ==
  LET U(h, mw, m, p, own, pre, post, ok) ==
        Row(h, mw, m, <<"users">> \o p, own, pre, << >>, "internal", post, ok)
  IN {U("CreateUser", {}, "POST", << >>, "", {400}, {404, 500}, 201),
      U("GetMe", {"auth"}, "GET", <<"me">>, "", {}, {500}, 200),
      U("ListUsers", {"auth", "admin"}, "GET", << >>, "", {}, {500}, 200),
      U("GetUser", {"auth"}, "GET", <<":id">>, "self", {}, {404, 500}, 200),
      U("SetUserRole", {"auth", "admin"}, "PATCH", <<":id", "role">>, "", {400}, {404, 500}, 200),
      U("SetUserStatus", {"auth", "admin"}, "PATCH", <<":id", "status">>, "", {400}, {404, 500}, 200)}

AuthHandlers ==
  {Row("Login", {}, "POST", <<"auth", "login">>, "", {400}, << >>, "internal", {401, 500}, 200)}

\* A user does not see a game that is not enabled.
CatalogHandlers == {
  Row("ListGames", {"auth"}, "GET", <<"games">>, "", {}, << <<"ListGames", <<>> >> >>, "gateway",
      {502}, 200),
  Row("GetGame", {"auth"}, "GET", <<"games", ":gameId">>, "", {}, << <<"GetGame", <<":gameId">> >> >>,
      "gateway", {404, 502}, 200)}

PlatformApi == AdminApi \cup OrderHandlers \cup OrderInstanceHandlers \cup SubscriptionHandlers
               \cup SubscriptionInstanceHandlers \cup PlanHandlers \cup UserHandlers
               \cup AuthHandlers \cup CatalogHandlers
-----------------------------------------------------------------------------
(* The controller client: method and path of every call; "$1" and "$2" are *)
(* its arguments.                                                          *)

Call(m, p) == [m |-> m, p |-> p]

ConfigCalls ==
  [GetContainerConfig |-> Call("GET", <<"games", "$1", "container-config">>),
   UpdateContainerConfig |-> Call("PUT", <<"games", "$1", "container-config">>)]

InstanceCalls ==
  [CreateGameInstance |-> Call("POST", <<"game-instances">>),
   ListGameInstancesBySubscription |-> Call("GET", <<"game-instances">>),
   GetConfigSchema |-> Call("GET", <<"games", "$1", "config-schema">>),
   GetPlatformConfig |-> Call("GET", <<"games", "$1", "platform-config">>),
   UpdatePlatformConfig |-> Call("PUT", <<"games", "$1", "platform-config">>),
   UpdateInstanceConfig |-> Call("PUT", <<"game-instances", "$1", "config">>),
   StartGameInstance |-> Call("POST", <<"game-instances", "$1", "start">>),
   GetGameInstance |-> Call("GET", <<"game-instances", "$1">>),
   StopGameInstance |-> Call("POST", <<"game-instances", "$1", "stop">>)]

SessionCalls ==
  [GetInstanceRuntime |-> Call("GET", <<"game-instances", "$1", "runtime">>),
   GetInstanceConnect |-> Call("GET", <<"game-instances", "$1", "connect">>),
   CreateFileSession |-> Call("POST", <<"game-instances", "$1", "file-session">>),
   CreateAgentLogSession |-> Call("POST", <<"node-agents", "$1", "log-session">>)]

NodeCalls ==
  [CreateNode |-> Call("POST", <<"nodes">>),
   ListNodes |-> Call("GET", <<"nodes">>),
   GetNode |-> Call("GET", <<"nodes", "$1">>),
   UpdateNode |-> Call("PUT", <<"nodes", "$1">>),
   DeleteNode |-> Call("DELETE", <<"nodes", "$1">>),
   ObserveForward |-> Call("ANY", <<"observe", CatchAll>>)]

AgentCalls ==
  [CreateNodeAgent |-> Call("POST", <<"node-agents">>),
   ListNodeAgents |-> Call("GET", <<"node-agents">>),
   SetNodeAgentEnabled |-> Call("POST", <<"node-agents", "$1", "$2">>)]

ReleaseCalls ==
  [UploadAgentRelease |-> Call("POST", <<"node-agents", "releases">>),
   ListAgentReleases |-> Call("GET", <<"node-agents", "releases">>),
   BatchUpdateNodeAgents |-> Call("POST", <<"node-agents", "batch-update">>),
   RollbackNodeAgent |-> Call("POST", <<"node-agents", "$1", "rollback">>)]

GameCalls ==
  [CreateGame |-> Call("POST", <<"games">>),
   ListGames |-> Call("GET", <<"games">>),
   GetGame |-> Call("GET", <<"games", "$1">>),
   UpdateGame |-> Call("PUT", <<"games", "$1">>),
   DeleteGame |-> Call("DELETE", <<"games", "$1">>)]

BuildCalls ==
  [ListGameBuilds |-> Call("GET", <<"games", "$1", "builds">>),
   RegisterGameBuild |-> Call("POST", <<"games", "$1", "builds">>),
   GetGameBuild |-> Call("GET", <<"games", "$1", "builds", "$2">>)]

\* Mutant: the floor of a branch is posted.
BranchCallsPost ==
  [ListBranches |-> Call("GET", <<"games", "$1", "branches">>),
   SyncBranches |-> Call("POST", <<"games", "$1", "branches", "sync">>),
   UpdateBranchCache |-> Call("POST", <<"games", "$1", "branches", "$2", "cache">>),
   SetBranchMinReplicas |-> Call("POST", <<"games", "$1", "branches", "$2">>)]

BranchCalls ==
  [ListBranches |-> Call("GET", <<"games", "$1", "branches">>),
   SyncBranches |-> Call("POST", <<"games", "$1", "branches", "sync">>),
   UpdateBranchCache |-> Call("POST", <<"games", "$1", "branches", "$2", "cache">>),
   SetBranchMinReplicas |-> Call("PUT", <<"games", "$1", "branches", "$2">>)]

CredentialCalls ==
  [ListCredentials |-> Call("GET", <<"games", "$1", "credentials">>),
   ListCredentialTypes |-> Call("GET", <<"games", "$1", "credentials", "types">>),
   CreateCredentials |-> Call("POST", <<"games", "$1", "credentials">>),
   DeleteCredential |-> Call("DELETE", <<"games", "$1", "credentials", "$2">>),
   ForceReleaseCredential |-> Call("POST", <<"games", "$1", "credentials", "$2", "force-release">>)]

Client == ConfigCalls @@ InstanceCalls @@ SessionCalls @@ NodeCalls @@ AgentCalls @@ ReleaseCalls
          @@ GameCalls @@ BuildCalls @@ BranchCalls @@ CredentialCalls
-----------------------------------------------------------------------------
(* The controller: route, whether the body is checked (400), and the        *)
(* statuses of success, of "record not found", of a conflict and of every   *)
(* other error; 0 for what cannot happen.                                   *)

Serves(h, m, p, body, ok, nf, cf, other) ==
  [h |-> h, m |-> m, p |-> p, body |-> body,
   status |-> [ok |-> ok, notfound |-> nf, conflict |-> cf, error |-> other, invalid |-> 400]]

InstanceApi == {
  Serves("CreateGameInstance", "POST", <<"game-instances">>, TRUE, 201, 500, 500, 500),
  Serves("GetGameInstance", "GET", <<"game-instances", ":id">>, FALSE, 200, 404, 500, 500),
  Serves("UpdateInstanceConfig", "PUT", <<"game-instances", ":id", "config">>, TRUE, 200, 400, 400, 400),
  Serves("StartGameInstance", "POST", <<"game-instances", ":id", "start">>, FALSE, 200, 404, 409, 500),
  Serves("StopGameInstance", "POST", <<"game-instances", ":id", "stop">>, FALSE, 200, 404, 500, 500)}

InstanceQueries == {
  Serves("ListGameInstances", "GET", <<"game-instances">>, TRUE, 200, 500, 500, 500),
  Serves("GetInstancePorts", "GET", <<"game-instances", ":id", "ports">>, FALSE, 200, 500, 500, 500),
  Serves("GetInstanceConnect", "GET", <<"game-instances", ":id", "connect">>, FALSE, 200, 404, 409, 409),
  Serves("GetInstanceRuntime", "GET", <<"game-instances", ":id", "runtime">>, FALSE, 200, 404, 500, 500)}

InstanceCommands == {
  Serves("RetryGameInstance", "POST", <<"game-instances", ":id", "retry">>, FALSE, 200, 404, 409, 409),
  Serves("CancelGameInstance", "POST", <<"game-instances", ":id", "cancel">>, FALSE, 200, 404, 409, 500),
  Serves("ForceDispatch", "POST", <<"game-instances", ":id", "dispatch">>, FALSE, 200, 404, 500, 500),
  Serves("DeleteGameInstance", "DELETE", <<"game-instances", ":id">>, FALSE, 200, 404, 409, 409)}

GameApi == {
  Serves("CreateGame", "POST", <<"games">>, TRUE, 201, 500, 500, 500),
  Serves("GetGame", "GET", <<"games", ":id">>, FALSE, 200, 404, 500, 500),
  Serves("UpdateGame", "PUT", <<"games", ":id">>, TRUE, 200, 500, 500, 500),
  Serves("DeleteGame", "DELETE", <<"games", ":id">>, FALSE, 200, 500, 500, 500),
  Serves("ListGames", "GET", <<"games">>, FALSE, 200, 500, 500, 500)}

BuildApi == {
  Serves("ListGameBuilds", "GET", <<"games", ":id", "builds">>, FALSE, 200, 500, 500, 500),
  Serves("GetConfigSchema", "GET", <<"games", ":id", "config-schema">>, FALSE, 200, 404, 500, 500),
  Serves("RegisterGameBuild", "POST", <<"games", ":id", "builds">>, TRUE, 201, 500, 500, 500),
  Serves("GetGameBuild", "GET", <<"games", ":id", "builds", ":buildId">>, FALSE, 200, 500, 500, 500)}

NodeApi == {
  Serves("CreateNode", "POST", <<"nodes">>, TRUE, 201, 500, 500, 500),
  Serves("ListNodes", "GET", <<"nodes">>, FALSE, 200, 500, 500, 500),
  Serves("GetNode", "GET", <<"nodes", ":id">>, FALSE, 200, 404, 500, 500),
  Serves("UpdateNode", "PUT", <<"nodes", ":id">>, TRUE, 200, 404, 500, 500),
  Serves("DeleteNode", "DELETE", <<"nodes", ":id">>, FALSE, 200, 404, 409, 409)}

NodeAgentApi == {
  Serves("CreateNodeAgent", "POST", <<"node-agents">>, TRUE, 201, 500, 500, 500),
  Serves("ListNodeAgents", "GET", <<"node-agents">>, FALSE, 200, 500, 500, 500),
  Serves("ListNodeAgentHealth", "GET", <<"node-agents", "health">>, FALSE, 200, 500, 500, 500),
  Serves("EnableNodeAgent", "POST", <<"node-agents", ":id", "enable">>, FALSE, 200, 404, 500, 500),
  Serves("DisableNodeAgent", "POST", <<"node-agents", ":id", "disable">>, FALSE, 200, 404, 500, 500)}

ObserverApi == {
  Serves("NodesOverview", "GET", <<"observe", "nodes">>, FALSE, 200, 500, 500, 500),
  Serves("NodeHistory", "GET", <<"observe", "nodes", ":id", "history">>, FALSE, 200, 500, 500, 500),
  Serves("CacheOverview", "GET", <<"observe", "cache">>, FALSE, 200, 500, 500, 500),
  Serves("QueueOverview", "GET", <<"observe", "queue">>, FALSE, 200, 500, 500, 500),
  Serves("Events", "GET", <<"observe", "events">>, FALSE, 200, 0, 0, 0),
  Serves("SchedulerStats", "GET", <<"observe", "scheduler", "stats">>, FALSE, 200, 0, 0, 0),
  Serves("PreviewSchedule", "POST", <<"observe", "scheduler", "preview">>, TRUE, 200, 500, 500, 500)}

DebugApi == {
  Serves("ReconcileStatus", "GET", <<"debug", "reconcile">>, FALSE, 200, 500, 500, 500),
  Serves("Recover", "POST", <<"debug", "reconcile", "recover">>, FALSE, 200, 500, 500, 500),
  Serves("InstanceOverview", "GET", <<"debug", "instances">>, FALSE, 200, 500, 500, 500)}

CredentialApi == {
  Serves("List", "GET", <<"games", ":id", "credentials">>, FALSE, 200, 500, 500, 500),
  Serves("Create", "POST", <<"games", ":id", "credentials">>, TRUE, 201, 400, 400, 400),
  Serves("ListTypes", "GET", <<"games", ":id", "credentials", "types">>, FALSE, 200, 500, 500, 500),
  Serves("Delete", "DELETE", <<"games", ":id", "credentials", ":credentialId">>, FALSE, 200, 400, 400, 400),
  Serves("ForceRelease", "POST", <<"games", ":id", "credentials", ":credentialId", "force-release">>,
         FALSE, 200, 400, 400, 400)}

ReleaseApi == {
  Serves("Register", "POST", <<"node-agents", "releases">>, TRUE, 201, 404, 500, 500),
  Serves("List", "GET", <<"node-agents", "releases">>, FALSE, 200, 500, 500, 500)}

CacheApi == {
  Serves("ListBranches", "GET", <<"games", ":id", "branches">>, FALSE, 200, 500, 500, 500),
  Serves("SyncBranches", "POST", <<"games", ":id", "branches", "sync">>, FALSE, 200, 500, 500, 500),
  Serves("SetBranchMinReplicas", "PUT", <<"games", ":id", "branches", ":branch">>, TRUE, 200, 404, 500, 500),
  Serves("UpdateBranchCache", "POST", <<"games", ":id", "branches", ":branch", "cache">>, TRUE,
         200, 404, 500, 500),
  Serves("RemoveBranchCache", "POST", <<"games", ":id", "branches", ":branch", "cache", "remove">>, TRUE,
         200, 500, 500, 500),
  Serves("GetNodeCache", "GET", <<"node-agents", ":id", "cache">>, FALSE, 200, 404, 500, 500)}

ContainerConfigApi == {
  Serves("GetConfig", "GET", <<"games", ":id", "container-config">>, FALSE, 200, 404, 500, 500),
  Serves("UpdateConfig", "PUT", <<"games", ":id", "container-config">>, TRUE, 200, 404, 500, 500)}

PlatformConfigApi == {
  Serves("Get", "GET", <<"games", ":id", "platform-config">>, FALSE, 200, 500, 500, 500),
  Serves("Update", "PUT", <<"games", ":id", "platform-config">>, TRUE, 200, 400, 400, 400)}

\* 400 here: the instance has no node agent, or the agent no node.
FileSessionApi == {
  Serves("FileSession", "POST", <<"game-instances", ":id", "file-session">>, TRUE, 200, 404, 500, 500)}

LogSessionApi == {
  Serves("LogSession", "POST", <<"node-agents", ":id", "log-session">>, TRUE, 200, 404, 500, 500)}

\* The results of the single agents are in the body of the 200.
UpdateApi == {
  Serves("BatchUpdate", "POST", <<"node-agents", "batch-update">>, TRUE, 200, 0, 0, 0),
  Serves("Rollback", "POST", <<"node-agents", ":id", "rollback">>, TRUE, 200, 404, 500, 500)}

ControllerApi == InstanceApi \cup InstanceQueries \cup InstanceCommands \cup GameApi \cup BuildApi
                 \cup NodeApi \cup NodeAgentApi \cup ObserverApi \cup DebugApi \cup CredentialApi
                 \cup ReleaseApi \cup CacheApi \cup ContainerConfigApi \cup PlatformConfigApi
                 \cup FileSessionApi \cup LogSessionApi \cup UpdateApi
-----------------------------------------------------------------------------
VARIABLES req,     \* the request: row, method, rest of an observe URL, token, owner
          pc,      \* how far it is
          at,      \* the next call of its handler
          first,   \* the first error of its loop of calls, "ok" before
          link,    \* the call on its way: which, method, path, status of the reply (0: none yet)
          served,  \* what the controller did for it
          answer   \* status of the answer, 0 before

vars == <<req, pc, at, first, link, served, answer>>

\* Tokens that Parse accepts, of the two types and roles that Issue signs.
Tokens == {"refresh", "user", "admin"}
\* With "none" for a missing, expired or forged one.
Bearers == Tokens \cup {"none"}

\* What follows /api/admin/observe in a URL.
ObservePaths == {Tail(r.p) : r \in ObserverApi} \cup {<<"elsewhere">>}

Init == /\ req = None /\ pc = "idle" /\ at = 1 /\ first = "ok" /\ link = None
        /\ served = {} /\ answer = 0

NewRequest(row, m, rest, token, owner) ==
  /\ pc \in {"idle", "done"} /\ link = None
  /\ row.m # "ANY" => m = row.m /\ rest = << >>
  /\ row.own = "" => owner
  /\ req' = [row |-> row, m |-> m, rest |-> rest, token |-> token, owner |-> owner]
  /\ pc' = "auth" /\ at' = 1 /\ first' = "ok" /\ served' = {} /\ answer' = 0
  /\ UNCHANGED link

Answer(status) == pc' = "done" /\ answer' = status

AuthRequired == "auth" \in req.row.mw => req.token \in {"user", "admin"}
RequireAdmin == "admin" \in req.row.mw => req.token = "admin"

Middleware ==
  /\ pc = "auth"
  /\ \/ ~AuthRequired /\ Answer(401)
     \/ AuthRequired /\ ~RequireAdmin /\ Answer(403)
     \/ AuthRequired /\ RequireAdmin /\ pc' = "check" /\ UNCHANGED answer
  /\ UNCHANGED <<req, at, first, link, served>>

\* Mutant: any user who is logged in.
mayUseAny == TRUE

\* loadOwnOrder, ownSubscription and GetUser: whose is it?
mayUse == CASE req.row.own \in {"order", "self"} -> req.owner \/ req.token = "admin"
            [] req.row.own = "subscription" -> req.owner
            [] OTHER -> TRUE
Stranger == IF req.row.own = "subscription" THEN 400 ELSE 403
Missing == CASE req.row.own = "order" -> {404, 500}
             [] req.row.own = "subscription" -> {404, 400}
             [] OTHER -> {}

\* The handler before its first call.
Check ==
  /\ pc = "check"
  /\ \/ \E status \in Missing : Answer(status)
     \/ ~mayUse /\ Answer(Stranger)
     \/ mayUse /\ \E status \in req.row.pre : Answer(status)
     \/ mayUse /\ pc' = "call" /\ UNCHANGED answer
  /\ UNCHANGED <<req, at, first, link, served>>
-----------------------------------------------------------------------------
Calls == req.row.calls
TaggedAt(k, tag) == Len(Calls[k]) = 3 /\ Calls[k][3] = tag
Tagged(tag) == TaggedAt(at, tag)

\* c.Param(name) is empty for a parameter the route does not have.
Param(a) == IF a \in Params /\ a \notin Range(req.row.p) THEN "" ELSE a

\* The path of a call, with its arguments in place.
Path(c) ==
  LET arg(x) == CASE x = "$1" -> <<Param(c[2][1])>>
                  [] x = "$2" -> <<Param(c[2][2])>>
                  [] x = CatchAll -> req.rest
                  [] OTHER -> <<x>>
  IN FlattenSeq([i \in DOMAIN Client[c[1]].p |-> arg(Client[c[1]].p[i])])

Send ==
  /\ pc = "call" /\ at <= Len(Calls) /\ link = None
  /\ link' = [k |-> at,
              m |-> IF Client[Calls[at][1]].m = "ANY" THEN req.m ELSE Client[Calls[at][1]].m,
              path |-> Path(Calls[at]), status |-> 0]
  /\ pc' = "wait"
  /\ UNCHANGED <<req, at, first, served, answer>>

\* A call the handler does without, or an instance that needs no stop.
Skip ==
  /\ pc = "call" /\ at <= Len(Calls) /\ (Tagged("maybe") \/ Tagged("each"))
  /\ at' = at + 1
  /\ UNCHANGED <<req, pc, first, link, served, answer>>

\* A check of what the calls before returned.
Refuse ==
  /\ pc = "call" /\ at <= Len(Calls) /\ Tagged("check")
  /\ Answer(400)
  /\ UNCHANGED <<req, at, first, link, served>>

\* gin: a static segment is preferred to a parameter.
Fits(p, path) ==
  /\ Len(p) = Len(path)
  /\ \A i \in DOMAIN p : p[i] = path[i] \/ (p[i] \in Params /\ path[i] # "")
Routes(m, path) ==
  LET all == {r \in ControllerApi : r.m = m /\ Fits(r.p, path)}
      Prefers(r, q) == \E i \in DOMAIN path : /\ r.p[i] = path[i] /\ q.p[i] # path[i]
                                              /\ \A j \in 1 .. i - 1 : (r.p[j] = path[j]) = (q.p[j] = path[j])
  IN {r \in all : \A q \in all : ~Prefers(q, r)}

\* What the use case returns, and whether something changed: an error may
\* come after a first write.
Outcomes(r) == {o \in DOMAIN r.status : r.status[o] # 0 /\ (o = "invalid" => r.body)}
Changes(r, o) == CASE r.m = "GET" -> {FALSE}
                   [] o = "ok" -> {TRUE}
                   [] o = "error" -> BOOLEAN
                   [] OTHER -> {FALSE}

\* The controller serves the call that is on its way, in time or not.
Serve ==
  /\ link # None /\ link.status = 0
  /\ LET routes == Routes(link.m, link.path)
     IN \/ /\ routes = {}
           /\ link' = [link EXCEPT !.status = 404]
           /\ served' = served \cup {[k |-> link.k, h |-> "", path |-> link.path, out |-> "notfound",
                                      status |-> 404, changed |-> FALSE]}
        \/ \E r \in routes : \E o \in Outcomes(r) : \E c \in Changes(r, o) :
             /\ link' = [link EXCEPT !.status = r.status[o]]
             /\ served' = served \cup {[k |-> link.k, h |-> r.h, path |-> link.path, out |-> o,
                                        status |-> r.status[o], changed |-> c]}
  /\ UNCHANGED <<req, pc, at, first, answer>>

\* Mutant: every reply is a success.
doAny(status) == "ok"

\* do and doRaw: the error a reply stands for.
do(status) == CASE status < 300 -> "ok"
                [] status = 404 -> "ErrNotFound"
                [] status = 409 -> "ErrConflict"
                [] OTHER -> "error"

\* Mutant: whatever goes wrong is "not found".
failAlways(err) == 404

\* The handlers' mappings of a client error.
fail(err) == IF err = "ErrNotFound" THEN 404 ELSE 500
subError(err) == CASE err = "ErrConflict" -> 409
                   [] err = "ErrNotFound" -> 404
                   [] OTHER -> 400
ErrorStatus(errs, err) ==
  CASE errs = "fail" -> fail(err)
    [] errs = "sub" -> subError(err)
    [] errs = "conflict" -> IF err = "ErrNotFound" THEN 404 ELSE 409
    [] errs = "gateway" -> IF err = "ErrNotFound" THEN 404 ELSE 502
    [] errs = "bad" -> 400
    [] OTHER -> 500

\* Mutant: the loop forgets an error when it goes on.
ReturnsForgetful(result) ==
  IF result = "ok" \/ req.row.errs = "unknown" \/ Tagged("each")
  THEN pc' = "call" /\ at' = at + 1 /\ UNCHANGED <<first, answer>>
  ELSE Answer(ErrorStatus(req.row.errs, result)) /\ UNCHANGED <<at, first>>

\* The handler goes on with the result of a call; a loop keeps the first
\* error.
Returns(result) ==
  \/ /\ result = "ok" \/ req.row.errs = "unknown" \/ Tagged("each")
     /\ pc' = "call" /\ at' = at + 1
     /\ first' = IF Tagged("each") /\ first = "ok" THEN result ELSE first
     /\ UNCHANGED answer
  \/ /\ result # "ok" /\ req.row.errs # "unknown" /\ ~Tagged("each")
     /\ Answer(ErrorStatus(req.row.errs, result))
     /\ UNCHANGED <<at, first>>

Deliver ==
  /\ pc = "wait" /\ link # None /\ link.status # 0
  /\ Returns(do(link.status))
  /\ link' = None
  /\ UNCHANGED <<req, served>>

\* The controller cannot be reached.
Unreachable ==
  /\ pc = "wait" /\ link # None /\ link.status = 0
  /\ Returns("error")
  /\ link' = None
  /\ UNCHANGED <<req, served>>

\* 15 s have passed; the call stays on its way.
Timeout ==
  /\ pc = "wait" /\ link # None
  /\ Returns("error")
  /\ UNCHANGED <<req, link, served>>

\* Nobody waits for the call any more.
Forget == pc # "wait" /\ link # None /\ link' = None /\ UNCHANGED <<req, pc, at, first, served, answer>>

Finish ==
  /\ pc = "call" /\ at > Len(Calls)
  /\ IF first = "ok" THEN \E status \in {req.row.ok} \cup req.row.post : Answer(status)
     ELSE Answer(ErrorStatus(req.row.errs, first))
  /\ UNCHANGED <<req, at, first, link, served>>
-----------------------------------------------------------------------------
Work == Middleware \/ Check \/ Send \/ Skip \/ Refuse \/ Deliver \/ Timeout \/ Finish

Next ==
  \/ \E row \in PlatformApi, token \in Bearers, owner \in BOOLEAN :
       \E m \in IF row.m = "ANY" THEN {"GET", "POST"} ELSE {row.m},
          rest \in IF row.m = "ANY" THEN ObservePaths ELSE {<< >>} :
         NewRequest(row, m, rest, token, owner)
  \/ Work \/ Serve \/ Unreachable \/ Forget

Spec == Init /\ [][Next]_vars
-----------------------------------------------------------------------------
\* Types: every answer is a status of HTTP.
TypeOK ==
  /\ pc \in {"idle", "auth", "check", "call", "wait", "done"}
  /\ req # None => req.token \in Bearers /\ req.row \in PlatformApi
  /\ link # None => link.m \in {"GET", "POST", "PUT", "DELETE"} /\ link.status \in {0} \cup 200 .. 502
  /\ req # None => at \in 1 .. Len(req.row.calls) + 1
  /\ first \in {"ok", "ErrNotFound", "ErrConflict", "error"}
  /\ answer \in {0, 200, 201, 400, 401, 403, 404, 409, 500, 502}

\* Every call of the client meets a route of the controller: the 404 of the
\* router would pass for "no such record".  (What an administrator types
\* behind /observe may not exist.)
Routed == \A x \in served : x.h = "" => req.row.h = "ObserveForward"

\* The kind of thing that segment i of a path names.
Kind(p, i) == IF p[i - 1] = "game-instances" THEN "instances" ELSE p[i - 1]

\* The controller works on what the URL of the browser names: every
\* parameter in the path of a call followed the same kind of segment in that
\* URL, or is the instance of the order or subscription that was loaded.
Addressed ==
  \A x \in served : \A i \in DOMAIN x.path :
    /\ x.path[i] \in Params /\ req.row.h # "ObserveForward" =>
         \E j \in DOMAIN req.row.p : /\ req.row.p[j] = x.path[i] /\ x.path[i] # ":orderId"
                                     /\ Kind(req.row.p, j) = Kind(x.path, i)
    /\ x.path[i] = "instance" => Kind(x.path, i) = "instances"

\* The controller trusts its caller; so nothing reaches it from a user that
\* the URL does not allow: /admin and the instances of everybody are the
\* administrator's, /me and /orders the owner's.
Entitled ==
  served # {} =>
    /\ req.token \in {"user", "admin"}
    /\ req.row.p[1] \in {"admin", "instances"} => req.token = "admin"
    /\ req.row.p[1] = "orders" \/ ":orderId" \in Range(req.row.p) => req.owner \/ req.token = "admin"
    /\ req.row.p[1] = "me" /\ ":id" \in Range(req.row.p) => req.owner

\* A success is one: every call that writes, and that the handler did not do
\* without, was carried out.
SuccessIsReal ==
  pc = "done" /\ answer \in 200 .. 299 =>
    \A k \in DOMAIN Calls :
      \/ Client[Calls[k][1]].m = "GET" \/ req.m = "GET"
      \/ \E x \in served : x.k = k /\ x.out = "ok"
      \/ (TaggedAt(k, "maybe") \/ TaggedAt(k, "each")) /\ \A x \in served : x.k # k

\* A refusal is clean, now and later: after 401, 403, 404 or 409 nothing has
\* changed, and no late call changes anything.  (The 409 of DeleteNode also
\* stands for an unreachable controller.  The error of stopActiveInstances is
\* that of the first stop that failed: another may have been carried out.)
RefusalIsClean ==
  pc = "done" /\ answer \in {401, 403, 404, 409} /\ ~(answer = 409 /\ req.row.h = "DeleteNode") =>
    \A x \in served : x.changed => TaggedAt(x.k, "each")

\* The three tables agree: what the browser asks for is what the controller
\* is asked to do (routes, controller client, handlers).
Delivered == TypeOK /\ Routed /\ Addressed

\* The status the browser gets is true of what happened, lost replies and
\* late calls included (fail, subError and the other mappings).
AnswerIsTrue == SuccessIsReal /\ RefusalIsClean
=============================================================================
