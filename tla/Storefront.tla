----------------------------- MODULE Storefront -----------------------------
(***************************************************************************)
(* Orders, games, game profiles, plans and purchases: the requests that    *)
(* change rows of platform-service, of the controller and of asset_service *)
(* for one purpose, without a transaction around them.  A request is a     *)
(* process that makes one database or remote call per step; any step may   *)
(* fail, and the request then ends where it is: nothing is undone.         *)
(*                                                                         *)
(* An instance is "stopped" (stopped or failed) or "active"; its life is   *)
(* the matter of InstanceLifecycle, subscriptions that of Subscription.    *)
(***************************************************************************)
EXTENDS Integers, FiniteSets, TLC

CONSTANTS Games, Orders, Insts, Configs, Plans, Subs, Procs, None,
          Modes  \* what may happen in a behaviour: [overlap, sql, ops]

OrderRow == [game : Games, status : {"created", "paid", "provisioned", "removed"}, inst : Insts \cup {None}]
InstRow == [game : Games, status : {"stopped", "active"}, order : Orders]
GameRow == [config : Configs \cup {None}]

\* "None" is the missing row, of whichever table.
ASSUME StorefrontAssumption ==
  /\ Games # {} /\ Configs # {} /\ None \notin Games \cup Insts \cup Configs
  /\ None \notin Plans \cup OrderRow \cup InstRow \cup GameRow
  /\ \A m \in Modes : m.overlap \in BOOLEAN

VARIABLES
  mode,      \* of the behaviour: do requests overlap, is asset_service on SQL, which requests come
  orders,    \* platform: [game, status, inst] or None
  profile,   \* platform: "none", "enabled", "disabled"
  plan,      \* platform: "none", "enabled", "disabled"
  subs,      \* platform: the plan of a subscription or None
  games,     \* controller: [config] or None
  configs,   \* controller: container configurations
  branches,  \* controller: games with Steam branches
  insts,     \* controller: [game, status, order] or None
  asset,     \* asset_service: games
  builds,    \* asset_service: games with a build
  proc,      \* the requests
  lost,      \* history: instances whose creation was answered with an error
  torn,      \* history: games with a deletion that began and did not end
  gone       \* history: games deleted, and not asked for again

platform == <<orders, profile, plan, subs>>
controller == <<games, configs, branches, insts>>
assetService == <<asset, builds>>
history == <<lost, torn, gone>>
vars == <<mode, platform, controller, assetService, proc, history>>

Idle == [op |-> "idle", pc |-> "idle", arg |-> None, row |-> None, todo |-> {}]

\* The seeded games share a configuration; asset_service knows their builds.
Init ==
  /\ mode \in Modes
  /\ orders = [o \in Orders |-> None]
  /\ profile = [g \in Games |-> "none"]
  /\ plan = [l \in Plans |-> "none"]
  /\ subs = [s \in Subs |-> None]
  /\ \E c \in Configs : games = [g \in Games |-> [config |-> c]] /\ configs = {c}
  /\ branches = {} /\ insts = [i \in Insts |-> None]
  /\ asset = Games /\ builds \in SUBSET Games
  /\ proc = [p \in Procs |-> Idle]
  /\ lost = {} /\ torn = {} /\ gone = {}
-----------------------------------------------------------------------------
At(p, op, pc) == proc[p].op \in op /\ proc[p].pc = pc
Goto(p, pc) == proc' = [proc EXCEPT ![p].pc = pc]
End(p) == proc' = [proc EXCEPT ![p] = Idle]

\* A request comes.  These ask for rows that a deleted game does not have.
Restores == {"create game", "enable", "disable", "sync"}

Begin(p, op, arg, game, first) ==
  /\ op \in mode.ops /\ proc[p] = Idle
  /\ mode.overlap \/ \A q \in Procs : proc[q] = Idle
  /\ proc' = [proc EXCEPT ![p] = [Idle EXCEPT !.op = op, !.arg = arg, !.pc = first]]
  /\ gone' = IF op \in Restores THEN gone \ {game} ELSE gone
  /\ UNCHANGED <<mode, platform, controller, assetService, lost, torn>>

\* A call fails, or its reply does not come: the handler returns the error.
Fail(p) ==
  /\ proc[p] # Idle
  /\ End(p)
  /\ lost' = IF At(p, {"pay", "provision"}, "save") THEN lost \cup {proc[p].row.inst} ELSE lost
  /\ UNCHANGED <<mode, platform, controller, assetService, torn, gone>>
-----------------------------------------------------------------------------
(* Orders. *)

\* CreateOrder does not ask the controller whether there is such a game.
CreateOrder(p, o, g) ==
  /\ "create order" \in mode.ops /\ orders[o] = None
  /\ proc[p] = Idle /\ (mode.overlap \/ \A q \in Procs : proc[q] = Idle)
  /\ orders' = [orders EXCEPT ![o] = [game |-> g, status |-> "created", inst |-> None]]
  /\ gone' = gone \ {g}
  /\ UNCHANGED <<mode, profile, plan, subs, controller, assetService, proc, lost, torn>>

AskOrder(p, op, o) == orders[o] # None /\ Begin(p, op, o, orders[o].game, "read")

\* Mutant: paying again is allowed.
ReadOrderAny(p) ==
  /\ At(p, {"pay", "provision"}, "read")
  /\ proc' = [proc EXCEPT ![p].row = orders[proc[p].arg], ![p].pc = "build"]
  /\ UNCHANGED <<mode, platform, controller, assetService, history>>

\* PayOrder, ProvisionOrder: only an order in status created.
ReadOrder(p) ==
  /\ At(p, {"pay", "provision"}, "read")
  /\ IF orders[proc[p].arg].status # "created"
     THEN End(p)
     ELSE proc' = [proc EXCEPT ![p].row = orders[proc[p].arg], ![p].pc = "build"]
  /\ UNCHANGED <<mode, platform, controller, assetService, history>>

\* CreateGameInstance, first call: asset_service resolves a build.
resolveBuild(p) ==
  /\ At(p, {"pay", "provision"}, "build")
  /\ IF proc[p].row.game \in builds THEN Goto(p, "create") ELSE End(p)
  /\ UNCHANGED <<mode, platform, controller, assetService, history>>

\* Mutant: the id of the instance is not filled in.
CreateGameInstanceUnnamed(p) ==
  \E i \in Insts :
    /\ At(p, {"pay", "provision"}, "create") /\ insts[i] = None
    /\ \A q \in Procs : proc[q].row # None /\ proc[q].op \in {"pay", "provision"} => proc[q].row.inst # i
    /\ \A o \in Orders : orders[o] # None => orders[o].inst # i
    /\ insts' = [insts EXCEPT ![i] = [game |-> proc[p].row.game, status |-> "stopped", order |-> proc[p].arg]]
    /\ Goto(p, "save")
    /\ lost' = lost \ {i}
    /\ UNCHANGED <<mode, platform, games, configs, branches, assetService, torn, gone>>

\* Second call: the row of the instance, with a new id.
CreateGameInstance(p) ==
  \E i \in Insts :
    /\ At(p, {"pay", "provision"}, "create") /\ insts[i] = None
    /\ \A q \in Procs : proc[q].row # None /\ proc[q].op \in {"pay", "provision"} => proc[q].row.inst # i
    /\ \A o \in Orders : orders[o] # None => orders[o].inst # i
    /\ insts' = [insts EXCEPT ![i] = [game |-> proc[p].row.game, status |-> "stopped", order |-> proc[p].arg]]
    /\ proc' = [proc EXCEPT ![p].row.inst = i, ![p].pc = "save"]
    /\ lost' = lost \ {i}
    /\ UNCHANGED <<mode, platform, games, configs, branches, assetService, torn, gone>>

\* provisionInstance saves the whole row it has read.
SaveOrder(p) ==
  /\ At(p, {"pay", "provision"}, "save")
  /\ orders' = [orders EXCEPT ![proc[p].arg] =
                  [proc[p].row EXCEPT !.status = IF proc[p].op = "pay" THEN "paid" ELSE "provisioned"]]
  /\ End(p)
  /\ UNCHANGED <<mode, profile, plan, subs, controller, assetService, history>>

\* StartInstance, StopInstance: the order, then the controller.
ReadInstance(p) ==
  /\ At(p, {"start", "stop"}, "read")
  /\ IF orders[proc[p].arg].inst = None
     THEN End(p)
     ELSE proc' = [proc EXCEPT ![p].row = orders[proc[p].arg], ![p].pc = "call"]
  /\ UNCHANGED <<mode, platform, controller, assetService, history>>

CallInstance(p) ==
  LET i == proc[p].row.inst
  IN /\ At(p, {"start", "stop"}, "call")
     /\ insts' = IF insts[i] = None THEN insts
                 ELSE [insts EXCEPT ![i].status = IF proc[p].op = "start" THEN "active" ELSE "stopped"]
     /\ End(p)
     /\ UNCHANGED <<mode, platform, games, configs, branches, assetService, history>>

\* The dispatcher gives an instance up.
InstanceFails(i) ==
  /\ insts[i] # None /\ insts[i].status = "active"
  /\ insts' = [insts EXCEPT ![i].status = "stopped"]
  /\ UNCHANGED <<mode, platform, games, configs, branches, assetService, proc, history>>
-----------------------------------------------------------------------------
(* Games of the controller, written through to asset_service. *)

AskGame(p, op, g, first) == Begin(p, op, g, g, first)

\* Mutant: the game is saved although asset_service did not take it.
CreateGameAssetAside(p) ==
  /\ At(p, {"create game"}, "asset")
  /\ Goto(p, "save")
  /\ UNCHANGED <<mode, platform, controller, assetService, history>>

CreateGameAsset(p) ==
  /\ At(p, {"create game"}, "asset")
  /\ asset' = asset \cup {proc[p].arg}
  /\ Goto(p, "save")
  /\ UNCHANGED <<mode, platform, controller, builds, history>>

\* Save is an upsert of a row without a configuration.
CreateGameSave(p) ==
  /\ At(p, {"create game"}, "save")
  /\ games' = [games EXCEPT ![proc[p].arg] = [config |-> None]]
  /\ End(p)
  /\ torn' = torn \ {proc[p].arg}
  /\ UNCHANGED <<mode, platform, configs, branches, insts, assetService, lost, gone>>

\* A build of a game that asset_service has.
RegisterGameBuild(p) ==
  /\ At(p, {"register build"}, "asset")
  /\ builds' = IF mode.sql /\ proc[p].arg \notin asset THEN builds ELSE builds \cup {proc[p].arg}
  /\ End(p)
  /\ UNCHANGED <<mode, platform, controller, asset, history>>

UpdateGameAsset(p) ==
  /\ At(p, {"update game"}, "asset")
  /\ IF proc[p].arg \in asset THEN Goto(p, "read") ELSE End(p)
  /\ UNCHANGED <<mode, platform, controller, assetService, history>>

UpdateGameRead(p) ==
  /\ At(p, {"update game"}, "read")
  /\ IF games[proc[p].arg] = None
     THEN End(p)
     ELSE proc' = [proc EXCEPT ![p].row = games[proc[p].arg], ![p].pc = "save"]
  /\ UNCHANGED <<mode, platform, controller, assetService, history>>

UpdateGameSave(p) ==
  /\ At(p, {"update game"}, "save")
  /\ games' = [games EXCEPT ![proc[p].arg] = proc[p].row]
  /\ End(p)
  /\ UNCHANGED <<mode, platform, configs, branches, insts, assetService, history>>

\* SyncBranches: the branches that asset_service has for this id, of a game
\* or not; perhaps none.
SyncBranchesRead(p) ==
  /\ At(p, {"sync"}, "read")
  /\ Goto(p, "save") \/ End(p)
  /\ UNCHANGED <<mode, platform, controller, assetService, history>>

SyncBranchesSave(p) ==
  /\ At(p, {"sync"}, "save")
  /\ branches' = branches \cup {proc[p].arg}
  /\ End(p)
  /\ UNCHANGED <<mode, platform, games, configs, insts, assetService, history>>
-----------------------------------------------------------------------------
(* DeleteGame: the cascade of the controller, then the platform's rows. *)

InstancesOf(g) == {i \in Insts : insts[i] # None /\ insts[i].game = g}

\* Mutant: the statuses are not looked at.
DeleteGameListAny(p) ==
  /\ At(p, {"delete game"}, "list")
  /\ proc' = [proc EXCEPT ![p].todo = InstancesOf(proc[p].arg), ![p].pc = "instances"]
  /\ torn' = torn \cup {proc[p].arg}
  /\ UNCHANGED <<mode, platform, controller, assetService, lost, gone>>

\* 1) refused while an instance is neither stopped nor failed.
DeleteGameList(p) ==
  LET all == InstancesOf(proc[p].arg)
  IN /\ At(p, {"delete game"}, "list")
     /\ IF \E i \in all : insts[i].status = "active"
        THEN End(p) /\ UNCHANGED torn
        ELSE /\ proc' = [proc EXCEPT ![p].todo = all, ![p].pc = "instances"]
             /\ torn' = torn \cup {proc[p].arg}
     /\ UNCHANGED <<mode, platform, controller, assetService, lost, gone>>

\* 2) the instances of that list with their ports, one by one.
DeleteGameInstance(p) ==
  /\ At(p, {"delete game"}, "instances")
  /\ \/ \E i \in proc[p].todo : /\ insts' = [insts EXCEPT ![i] = None]
                                /\ proc' = [proc EXCEPT ![p].todo = @ \ {i}]
     \/ proc[p].todo = {} /\ Goto(p, "asset") /\ UNCHANGED insts
  /\ UNCHANGED <<mode, platform, games, configs, branches, assetService, history>>

\* 3) asset_service: "not found" is skipped.  In SQL the builds refer to the
\* game, and the error ends the request.
DeleteGameAsset(p) ==
  LET g == proc[p].arg
  IN /\ At(p, {"delete game"}, "asset")
     /\ IF g \in asset /\ mode.sql /\ g \in builds
        THEN End(p) /\ UNCHANGED asset
        ELSE asset' = asset \ {g} /\ Goto(p, "branches")
     /\ UNCHANGED <<mode, platform, controller, builds, history>>

\* 4)
DeleteGameBranches(p) ==
  /\ At(p, {"delete game"}, "branches")
  /\ branches' = branches \ {proc[p].arg}
  /\ Goto(p, "config")
  /\ UNCHANGED <<mode, platform, games, configs, insts, assetService, history>>

\* Mutant: a configuration belongs to one game.
DeleteGameConfigAny(p) ==
  /\ At(p, {"delete game"}, "config")
  /\ proc' = [proc EXCEPT ![p].pc = "drop config", ![p].row = games[proc[p].arg]]
  /\ UNCHANGED <<mode, platform, controller, assetService, history>>

\* 5) the configuration, if no other game refers to it.
DeleteGameConfig(p) ==
  LET g == proc[p].arg
      referenced == \E h \in Games \ {g} : games[h] # None /\ games[h].config = games[g].config
  IN /\ At(p, {"delete game"}, "config")
     /\ IF games[g] # None /\ games[g].config # None /\ ~referenced
        THEN proc' = [proc EXCEPT ![p].pc = "drop config", ![p].row = games[g]]
        ELSE Goto(p, "game")
     /\ UNCHANGED <<mode, platform, controller, assetService, history>>

DeleteGameDropConfig(p) ==
  /\ At(p, {"delete game"}, "drop config")
  /\ configs' = IF proc[p].row = None THEN configs ELSE configs \ {proc[p].row.config}
  /\ Goto(p, "game")
  /\ UNCHANGED <<mode, platform, games, branches, insts, assetService, history>>

\* 6)
DeleteGameRow(p) ==
  /\ At(p, {"delete game"}, "game")
  /\ games' = [games EXCEPT ![proc[p].arg] = None]
  /\ Goto(p, "profile")
  /\ UNCHANGED <<mode, platform, configs, branches, insts, assetService, history>>

DeleteGameProfile(p) ==
  /\ At(p, {"delete game"}, "profile")
  /\ profile' = [profile EXCEPT ![proc[p].arg] = "none"]
  /\ Goto(p, "orders")
  /\ UNCHANGED <<mode, orders, plan, subs, controller, assetService, history>>

Open == {"created", "paid", "provisioned"}

\* Mutant: orders that were not paid are left alone.
MarkGameRemovedPaid(p) ==
  LET g == proc[p].arg
  IN /\ At(p, {"delete game"}, "orders")
     /\ orders' = [o \in Orders |-> IF orders[o] # None /\ orders[o].game = g /\ orders[o].status \in {"paid", "provisioned"}
                                    THEN [orders[o] EXCEPT !.status = "removed"] ELSE orders[o]]
     /\ End(p)
     /\ torn' = torn \ {g} /\ gone' = gone \cup {g}
     /\ UNCHANGED <<mode, profile, plan, subs, controller, assetService, lost>>

MarkGameRemoved(p) ==
  LET g == proc[p].arg
  IN /\ At(p, {"delete game"}, "orders")
     /\ orders' = [o \in Orders |-> IF orders[o] # None /\ orders[o].game = g /\ orders[o].status \in Open
                                    THEN [orders[o] EXCEPT !.status = "removed"] ELSE orders[o]]
     /\ End(p)
     /\ torn' = torn \ {g} /\ gone' = gone \cup {g}
     /\ UNCHANGED <<mode, profile, plan, subs, controller, assetService, lost>>
-----------------------------------------------------------------------------
(* Profiles: UpdateProfile creates the row of a game nobody asks about; the *)
(* icon is refused for a game the controller does not have, and passes the  *)
(* zero value of Enabled.                                                   *)

UploadGameIcon(p) ==
  /\ At(p, {"icon"}, "get")
  /\ IF games[proc[p].arg] = None THEN End(p) ELSE Goto(p, "save")
  /\ UNCHANGED <<mode, platform, controller, assetService, history>>

UpdateProfile(p) ==
  /\ At(p, {"enable", "disable", "icon"}, "save")
  /\ profile' = [profile EXCEPT ![proc[p].arg] = IF proc[p].op = "enable" THEN "enabled" ELSE "disabled"]
  /\ End(p)
  /\ UNCHANGED <<mode, orders, plan, subs, controller, assetService, history>>
-----------------------------------------------------------------------------
(* Plans, and the purchases that refer to them. *)

AskPlan(p, op, arg, first) == Begin(p, op, arg, None, first)

CreatePlan(p) ==
  /\ At(p, {"create plan"}, "save")
  /\ plan' = [plan EXCEPT ![proc[p].arg] = "enabled"]
  /\ End(p)
  /\ UNCHANGED <<mode, orders, profile, subs, controller, assetService, history>>

\* UpdatePlan and the second half of DeletePlan: read, then save the row.
ReadPlan(p) ==
  /\ At(p, {"enable plan", "disable plan", "delete plan"}, "read")
  /\ IF plan[proc[p].arg] = "none" THEN End(p) ELSE Goto(p, "save")
  /\ UNCHANGED <<mode, platform, controller, assetService, history>>

SavePlan(p) ==
  /\ At(p, {"enable plan", "disable plan", "delete plan"}, "save")
  /\ plan' = [plan EXCEPT ![proc[p].arg] = IF proc[p].op = "enable plan" THEN "enabled" ELSE "disabled"]
  /\ End(p)
  /\ UNCHANGED <<mode, orders, profile, subs, controller, assetService, history>>

\* Mutant: only enabled plans count as referred to.
DeletePlanListEnabled(p) ==
  /\ At(p, {"delete plan"}, "list")
  /\ Goto(p, IF plan[proc[p].arg] = "enabled" /\ \E s \in Subs : subs[s] = proc[p].arg THEN "read" ELSE "delete")
  /\ UNCHANGED <<mode, platform, controller, assetService, history>>

\* DeletePlan: a plan somebody has bought is only disabled.
DeletePlanList(p) ==
  /\ At(p, {"delete plan"}, "list")
  /\ Goto(p, IF \E s \in Subs : subs[s] = proc[p].arg THEN "read" ELSE "delete")
  /\ UNCHANGED <<mode, platform, controller, assetService, history>>

DeletePlan(p) ==
  /\ At(p, {"delete plan"}, "delete")
  /\ plan' = [plan EXCEPT ![proc[p].arg] = "none"]
  /\ End(p)
  /\ UNCHANGED <<mode, orders, profile, subs, controller, assetService, history>>

\* Purchase: an enabled plan, and the subscription that refers to it.
PurchaseRead(p) ==
  /\ At(p, {"purchase"}, "read")
  /\ IF plan[proc[p].arg] = "enabled" THEN Goto(p, "save") ELSE End(p)
  /\ UNCHANGED <<mode, platform, controller, assetService, history>>

PurchaseSave(p) ==
  \E s \in Subs :
    /\ At(p, {"purchase"}, "save") /\ subs[s] = None
    /\ subs' = [subs EXCEPT ![s] = proc[p].arg]
    /\ End(p)
    /\ UNCHANGED <<mode, orders, profile, plan, controller, assetService, history>>
-----------------------------------------------------------------------------
Request(p) ==
  \/ \E o \in Orders, g \in Games : CreateOrder(p, o, g)
  \/ \E o \in Orders, op \in {"pay", "provision", "start", "stop"} : AskOrder(p, op, o)
  \/ \E g \in Games : \/ AskGame(p, "create game", g, "asset") \/ AskGame(p, "register build", g, "asset")
                      \/ AskGame(p, "update game", g, "asset") \/ AskGame(p, "sync", g, "read")
                      \/ AskGame(p, "delete game", g, "list") \/ AskGame(p, "icon", g, "get")
                      \/ AskGame(p, "enable", g, "save") \/ AskGame(p, "disable", g, "save")
  \/ \E l \in Plans : \/ AskPlan(p, "create plan", l, "save") \/ AskPlan(p, "enable plan", l, "read")
                      \/ AskPlan(p, "disable plan", l, "read") \/ AskPlan(p, "delete plan", l, "list")
                      \/ AskPlan(p, "purchase", l, "read")

OrderStep(p) == ReadOrder(p) \/ resolveBuild(p) \/ CreateGameInstance(p) \/ SaveOrder(p)
                \/ ReadInstance(p) \/ CallInstance(p)
GameStep(p) == CreateGameAsset(p) \/ CreateGameSave(p) \/ RegisterGameBuild(p) \/ UpdateGameAsset(p)
               \/ UpdateGameRead(p) \/ UpdateGameSave(p) \/ SyncBranchesRead(p) \/ SyncBranchesSave(p)
DeleteStep(p) == DeleteGameList(p) \/ DeleteGameInstance(p) \/ DeleteGameAsset(p) \/ DeleteGameBranches(p)
                 \/ DeleteGameConfig(p) \/ DeleteGameDropConfig(p) \/ DeleteGameRow(p)
                 \/ DeleteGameProfile(p) \/ MarkGameRemoved(p)
ShopStep(p) == UploadGameIcon(p) \/ UpdateProfile(p) \/ CreatePlan(p) \/ ReadPlan(p) \/ SavePlan(p)
               \/ DeletePlanList(p) \/ DeletePlan(p) \/ PurchaseRead(p) \/ PurchaseSave(p)

Next ==
  \/ \E p \in Procs : Request(p) \/ OrderStep(p) \/ GameStep(p) \/ DeleteStep(p) \/ ShopStep(p) \/ Fail(p)
  \/ \E i \in Insts : InstanceFails(i)

Spec == Init /\ [][Next]_vars
-----------------------------------------------------------------------------
\* Types: a row that is about to be saved has been read.
TypeOK ==
  /\ \A o \in Orders : orders[o] # None => orders[o].status \in Open \cup {"removed"}
                                          /\ orders[o].inst \in Insts \cup {None}
  /\ \A i \in Insts : insts[i] # None => insts[i].game \in Games /\ insts[i].status \in {"stopped", "active"}
  /\ \A g \in Games : games[g] # None => games[g].config \in Configs \cup {None}
  /\ \A p \in Procs : At(p, {"pay", "provision", "update game"}, "save") => proc[p].row # None
  /\ \A s \in Subs : subs[s] \in Plans \cup {None}

\* PayOrder and ProvisionOrder, however they overlap and fail: an order that
\* is paid has an instance, one that was created for it and for no other.
PaidHasInstance ==
  \A o \in Orders : orders[o] # None /\ orders[o].status \in {"paid", "provisioned"} =>
    LET i == orders[o].inst
    IN /\ i # None
       /\ insts[i] # None => insts[i].order = o
       /\ \A q \in Orders \ {o} : orders[q] # None => orders[q].inst # i

\* Requests that do not overlap create no instance without an order, but
\* for the ones whose reply or whose save failed (order_use_case.go:115).
NoOrphan ==
  ~mode.overlap =>
    \A i \in Insts : insts[i] # None =>
      \/ i \in lost
      \/ orders[insts[i].order].inst = i
      \/ \E p \in Procs : At(p, {"pay", "provision"}, "save") /\ proc[p].row.inst = i

\* An order goes from created to paid or provisioned and to removed, never
\* back, and keeps its instance, unless requests overlap.
OrderPath ==
  [][~mode.overlap => \A o \in Orders :
       orders[o] # None /\ orders'[o] # orders[o] =>
         /\ orders[o].inst # None => orders'[o].inst = orders[o].inst
         /\ \/ orders[o].status = "created" /\ orders'[o].status \in {"paid", "provisioned", "removed"}
            \/ orders[o].status \in Open /\ orders'[o].status = "removed"]_vars

\* DeleteGame, repeated after any failures until it succeeds, leaves nothing
\* of the game: rows of the controller, asset_service, the profile, open
\* orders.  Only a request for new rows brings some back.
DeletedIsGone ==
  ~mode.overlap =>
    \A g \in gone :
      /\ games[g] = None /\ g \notin asset \cup branches /\ profile[g] = "none"
      /\ InstancesOf(g) = {}
      /\ \A o \in Orders : orders[o] # None /\ orders[o].game = g => orders[o].status \notin Open

\* The controller has no game that asset_service lacks (write-through), but
\* for one with a deletion that stopped half way.
AssetFirst == ~mode.overlap => \A g \in Games : games[g] # None => g \in asset \cup torn

\* A configuration that games share stays until the last of them is deleted.
ConfigKept ==
  ~mode.overlap => \A g \in Games : games[g] # None /\ games[g].config # None =>
                     games[g].config \in configs \/ g \in torn

\* The cascade of DeleteGame takes no instance that runs, whatever the
\* dispatcher does meanwhile.
RunningKept ==
  [][~mode.overlap => \A i \in Insts : insts[i] # None /\ insts[i].status = "active" => insts'[i] # None]_vars

\* A subscription can be renewed: its plan is disabled, never deleted.
PlanKept == ~mode.overlap => \A s \in Subs : subs[s] # None => plan[subs[s]] # "none"

\* Orders and instances belong to each other (provisionInstance).
InstancesOwned == PaidHasInstance /\ NoOrphan

\* No row refers to one that is gone, although every check precedes its
\* write and any step may fail (CreateGame, DeleteGame, DeletePlan, Purchase).
ReferencesHold == TypeOK /\ AssetFirst /\ ConfigKept /\ PlanKept
=============================================================================
