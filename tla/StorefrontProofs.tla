--------------------------- MODULE StorefrontProofs ---------------------------
(***************************************************************************)
(* What holds of Storefront for any games, orders, instances, plans and    *)
(* requests, with the builds and references of asset_service on SQL or     *)
(* not, and wherever a request ends early.                                 *)
(***************************************************************************)
EXTENDS Storefront, TLAPS

\* Requests, by what their argument is.
PayOps == {"pay", "provision"}
CallOps == {"start", "stop"}
ForGames == {"create game", "register build", "update game", "sync", "delete game",
             "icon", "enable", "disable"}
ForPlans == {"create plan", "enable plan", "disable plan", "delete plan", "purchase"}

Deleting == {"instances", "asset", "branches", "config", "drop config", "game", "profile", "orders"}
Pcs == {"idle", "read", "build", "create", "save", "call", "get", "list", "delete"} \cup Deleting

Proc == [op : {"idle"} \cup PayOps \cup CallOps \cup ForGames \cup ForPlans, pc : Pcs,
         arg : Orders \cup Games \cup Plans \cup {None},
         row : OrderRow \cup GameRow \cup {None}, todo : SUBSET Insts]

\* What a request has read by the time it gets where it is.
Sound(x) ==
  /\ x.op \in PayOps => /\ x.arg \in Orders
                        /\ x.pc # "read" => x.row \in OrderRow /\ x.row.status = "created"
                        /\ x.pc = "save" => x.row.inst \in Insts
  /\ x.op \in CallOps => /\ x.arg \in Orders
                         /\ x.pc # "read" => x.row \in OrderRow /\ x.row.inst \in Insts
  /\ x.op \in ForGames => x.arg \in Games
  /\ x.op = "update game" /\ x.pc = "save" => x.row \in GameRow
  /\ x.op = "delete game" => x.row \in GameRow \cup {None}
  /\ x.op \in ForPlans => x.arg \in Plans

PlatformOK == /\ orders \in [Orders -> OrderRow \cup {None}]
              /\ profile \in [Games -> {"none", "enabled", "disabled"}]
              /\ plan \in [Plans -> {"none", "enabled", "disabled"}]
              /\ subs \in [Subs -> Plans \cup {None}]
ControllerOK == /\ games \in [Games -> GameRow \cup {None}]
                /\ insts \in [Insts -> InstRow \cup {None}]
ProcOK == proc \in [Procs -> Proc] /\ \A p \in Procs : Sound(proc[p])
ModeOK == mode.overlap \in BOOLEAN


\* Orders are never deleted, so the order of an instance or of a request is
\* there.
OrdersThere ==
  /\ \A i \in Insts : insts[i] # None => orders[insts[i].order] # None
  /\ \A p \in Procs : proc[p].op \in PayOps \cup CallOps => orders[proc[p].arg] # None

Typed == PlatformOK /\ ControllerOK /\ ProcOK /\ ModeOK

\* A request that is about to save the order it has created an instance for.
Saves(p) == At(p, PayOps, "save")

\* An id of an instance belongs to the order it was made for: it is in that
\* order, or in the hands of the one request that will save it there.
Fresh ==
  /\ \A o \in Orders : orders[o] # None =>
       /\ orders[o].status = "created" => orders[o].inst = None
       /\ orders[o].status \in {"paid", "provisioned"} => orders[o].inst # None
       /\ orders[o].inst # None =>
            /\ insts[orders[o].inst] # None => insts[orders[o].inst].order = o
            /\ \A q \in Orders \ {o} : orders[q] # None => orders[q].inst # orders[o].inst
            /\ \A p \in Procs : Saves(p) => proc[p].row.inst # orders[o].inst
  /\ \A p \in Procs : Saves(p) =>
       /\ insts[proc[p].row.inst] # None => insts[proc[p].row.inst].order = proc[p].arg
       /\ \A q \in Procs \ {p} : Saves(q) => proc[q].row.inst # proc[p].row.inst

Alone == ~mode.overlap => \A p, q \in Procs : p = q \/ proc[p] = Idle \/ proc[q] = Idle

\* What a request knows about the rows while nobody else changes them.
Stage(p) ==
  LET x == proc[p] IN
  /\ x.op \in PayOps /\ x.pc # "read" =>
       orders[x.arg].status = "created" /\ orders[x.arg].game = x.row.game
  /\ x.op \in Restores => x.arg \notin gone
  /\ x.op = "create game" /\ x.pc = "save" => x.arg \in asset
  /\ x.op = "update game" /\ x.pc = "save" => x.row = games[x.arg]
  /\ x.op = "icon" /\ x.pc = "save" => games[x.arg] # None
  /\ x.op = "purchase" /\ x.pc = "save" => plan[x.arg] # "none"
  /\ x.op = "delete plan" /\ x.pc = "delete" => \A s \in Subs : subs[s] # x.arg

\* How far the cascade of DeleteGame has come.
FromProfile == {"profile", "orders"}
FromConfig == {"config", "drop config", "game"} \cup FromProfile
FromBranches == {"branches"} \cup FromConfig
FromAsset == {"asset"} \cup FromBranches
Cascade(p) ==
  LET x == proc[p]
      g == x.arg
  IN x.op = "delete game" =>
     /\ x.pc \in {"instances"} \cup FromAsset => g \in torn
     /\ x.pc = "instances" => /\ InstancesOf(g) \subseteq x.todo
                              /\ \A i \in x.todo : insts[i] # None => insts[i].status = "stopped"
     /\ x.pc \in FromAsset => InstancesOf(g) = {}
     /\ x.pc \in FromBranches => g \notin asset
     /\ x.pc \in FromConfig => g \notin branches
     /\ x.pc = "drop config" => /\ x.row = games[g]
                                /\ \A h \in Games \ {g} : games[h] # None => games[h].config # x.row.config
     /\ x.pc \in FromProfile => games[g] = None
     /\ x.pc = "orders" => profile[g] = "none"

Staged == ~mode.overlap => \A p \in Procs : Stage(p) /\ Cascade(p)

Inv == Typed /\ Fresh /\ OrdersThere /\ Alone /\ Staged

-----------------------------------------------------------------------------
(* Types.                                                                  *)

LEMMA TypedIsType == Typed => TypeOK
<1> SUFFICES ASSUME Typed PROVE TypeOK
  OBVIOUS
<1> USE StorefrontAssumption DEF Typed
<1>1. \A o \in Orders : orders[o] # None => /\ orders[o].status \in Open \cup {"removed"}
                                            /\ orders[o].inst \in Insts \cup {None}
  BY DEF PlatformOK, OrderRow, Open
<1>2. \A i \in Insts : insts[i] # None => insts[i].game \in Games /\ insts[i].status \in {"stopped", "active"}
  BY DEF ControllerOK, InstRow
<1>3. \A g \in Games : games[g] # None => games[g].config \in Configs \cup {None}
  BY DEF ControllerOK, GameRow
<1>4. ASSUME NEW p \in Procs, At(p, {"pay", "provision", "update game"}, "save") PROVE proc[p].row # None
  BY <1>4 DEF At, ProcOK, Sound, PayOps
<1>5. \A s \in Subs : subs[s] \in Plans \cup {None}
  BY DEF PlatformOK
<1> QED BY <1>1, <1>2, <1>3, <1>4, <1>5 DEF TypeOK

LEMMA IdleType == Idle \in Proc /\ Sound(Idle) /\ Idle.op = "idle"
BY DEF Idle, Proc, Pcs, Sound, PayOps, CallOps, ForGames, ForPlans

LEMMA InitTyped == Init => Typed
<1> SUFFICES ASSUME Init PROVE Typed
  OBVIOUS
<1>1. PlatformOK
  BY DEF Init, PlatformOK
<1>2. ControllerOK
  BY DEF Init, ControllerOK, GameRow
<1>3. ProcOK /\ ModeOK
  BY IdleType, StorefrontAssumption DEF Init, ProcOK, ModeOK
<1> QED BY <1>1, <1>2, <1>3 DEF Typed

LEMMA PutType ==
  ASSUME ProcOK, NEW p \in Procs, NEW x \in Proc, Sound(x), proc' = [proc EXCEPT ![p] = x]
  PROVE  ProcOK'
BY DEF ProcOK

LEMMA EndType ==
  ASSUME ProcOK, NEW p \in Procs, End(p)
  PROVE  ProcOK'
BY PutType, IdleType DEF End

LEMMA GotoType ==
  ASSUME ProcOK, NEW p \in Procs, NEW pc \in Pcs, Goto(p, pc),
         Sound([proc[p] EXCEPT !.pc = pc])
  PROVE  ProcOK'
<1>1. [proc[p] EXCEPT !.pc = pc] \in Proc
  BY DEF ProcOK, Proc
<1>2. proc' = [proc EXCEPT ![p] = [proc[p] EXCEPT !.pc = pc]]
  BY DEF Goto
<1> QED BY <1>1, <1>2, PutType

\* Which columns the requests write.
LEMMA RequestTyped ==
  ASSUME Typed, NEW p \in Procs, Request(p)
  PROVE  Typed'
<1> USE DEF Typed
<1>1. ASSUME NEW o \in Orders, NEW g \in Games, CreateOrder(p, o, g) PROVE Typed'
  <2>1. [game |-> g, status |-> "created", inst |-> None] \in OrderRow
    BY DEF OrderRow
  <2>2. PlatformOK'
    BY <1>1, <2>1 DEF CreateOrder, PlatformOK
  <2> QED BY <1>1, <2>2 DEF CreateOrder, controller, ControllerOK, ProcOK, ModeOK
<1>2. ASSUME NEW op, NEW arg, NEW game, NEW first, Begin(p, op, arg, game, first),
             \/ op \in PayOps \cup CallOps /\ arg \in Orders /\ first = "read"
             \/ op \in ForGames /\ arg \in Games
                /\ first \in {"asset", "read", "list", "get", "save"} /\ (op = "update game" => first # "save")
             \/ op \in ForPlans /\ arg \in Plans /\ first \in {"save", "read", "list"}
      PROVE Typed'
  <2> DEFINE x == [Idle EXCEPT !.op = op, !.arg = arg, !.pc = first]
  <2>1. x.op = op /\ x.pc = first /\ x.arg = arg /\ x.row = None
    BY DEF Idle
  <2>2. x \in Proc
    <3>1. op \in {"idle"} \cup PayOps \cup CallOps \cup ForGames \cup ForPlans
      BY <1>2
    <3>2. arg \in Orders \cup Games \cup Plans \cup {None}
      BY <1>2
    <3>3. first \in Pcs
      BY <1>2 DEF Pcs, Deleting
    <3> QED BY IdleType, <3>1, <3>2, <3>3 DEF Proc
  <2>3. Sound(x)
    BY <1>2, <2>1 DEF Sound, PayOps, CallOps, ForGames, ForPlans
  <2>4. proc' = [proc EXCEPT ![p] = x]
    BY <1>2 DEF Begin
  <2> HIDE DEF x
  <2>5. ProcOK'
    BY <2>2, <2>3, <2>4, PutType
  <2> QED BY <1>2, <2>5 DEF Begin, platform, controller, PlatformOK, ControllerOK, ModeOK
<1>3. ASSUME NEW o \in Orders, NEW op \in {"pay", "provision", "start", "stop"}, AskOrder(p, op, o)
      PROVE  Typed'
  BY <1>2, <1>3 DEF AskOrder, PayOps, CallOps
<1>4. ASSUME NEW g \in Games, NEW op \in ForGames, NEW first \in {"asset", "read", "list", "get", "save"},
             AskGame(p, op, g, first), op = "update game" => first # "save"
      PROVE  Typed'
  BY <1>2, <1>4 DEF AskGame
<1>5. ASSUME NEW l \in Plans, NEW op \in ForPlans, NEW first \in {"save", "read", "list"},
             AskPlan(p, op, l, first)
      PROVE  Typed'
  BY <1>2, <1>5 DEF AskPlan
<1> QED BY <1>1, <1>3, <1>4, <1>5 DEF Request, ForGames, ForPlans

LEMMA OrderTyped ==
  ASSUME Typed, OrdersThere, NEW p \in Procs, OrderStep(p)
  PROVE  Typed'
<1> USE DEF Typed
<1>0. proc[p] \in Proc /\ Sound(proc[p])
  BY DEF ProcOK
<1>1. ASSUME NEW c \in {"build", "call"}, proc[p].op \in PayOps \cup CallOps,
             proc' = [proc EXCEPT ![p].row = orders[proc[p].arg], ![p].pc = c],
             c = "build" => proc[p].op \in PayOps /\ orders[proc[p].arg].status = "created",
             c = "call" => proc[p].op \in CallOps /\ orders[proc[p].arg].inst # None
      PROVE  ProcOK'
  <2> DEFINE x == [proc[p] EXCEPT !.row = orders[proc[p].arg], !.pc = c]
  <2>1. orders[proc[p].arg] \in OrderRow
    BY <1>0, <1>1 DEF OrdersThere, PlatformOK, Sound
  <2>2. orders[proc[p].arg].inst \in Insts \cup {None}
    BY <2>1 DEF OrderRow
  <2>3. x \in Proc
    BY <1>0, <2>1 DEF Proc, Pcs
  <2>4. Sound(x)
    BY <1>0, <1>1, <2>1, <2>2 DEF Sound, Proc, PayOps, CallOps, ForGames, ForPlans
  <2>5. proc' = [proc EXCEPT ![p] = x]
    BY <1>1
  <2> HIDE DEF x
  <2> QED BY <2>3, <2>4, <2>5, PutType
<1>2. ASSUME ReadOrder(p) PROVE Typed'
  <2>1. ProcOK'
    BY <1>1, <1>2, EndType DEF ReadOrder, At, PayOps
  <2> QED BY <1>2, <2>1 DEF ReadOrder, platform, controller, PlatformOK, ControllerOK, ModeOK
<1>3. ASSUME ReadInstance(p) PROVE Typed'
  <2>1. ProcOK'
    BY <1>1, <1>3, EndType DEF ReadInstance, At, CallOps
  <2> QED BY <1>3, <2>1 DEF ReadInstance, platform, controller, PlatformOK, ControllerOK, ModeOK
<1>4. ASSUME resolveBuild(p) PROVE Typed'
  <2>1. Sound([proc[p] EXCEPT !.pc = "create"])
    BY <1>0, <1>4 DEF resolveBuild, At, Sound, Proc, PayOps, CallOps, ForGames, ForPlans
  <2>2. ProcOK'
    BY <1>4, <2>1, GotoType, EndType DEF resolveBuild, Pcs
  <2> QED BY <1>4, <2>2 DEF resolveBuild, platform, controller, PlatformOK, ControllerOK, ModeOK
<1>5. ASSUME CreateGameInstance(p) PROVE Typed'
  <2>1. PICK i \in Insts :
          /\ insts' = [insts EXCEPT ![i] = [game |-> proc[p].row.game, status |-> "stopped", order |-> proc[p].arg]]
          /\ proc' = [proc EXCEPT ![p].row.inst = i, ![p].pc = "save"]
    BY <1>5 DEF CreateGameInstance
  <2> DEFINE x == [proc[p] EXCEPT !.row.inst = i, !.pc = "save"]
  <2>2. proc[p].op \in PayOps /\ proc[p].pc = "create"
    BY <1>5 DEF CreateGameInstance, At, PayOps
  <2>3. proc[p].arg \in Orders /\ proc[p].row \in OrderRow /\ proc[p].row.status = "created"
    BY <1>0, <2>2 DEF Sound
  <2>4. proc[p].row.game \in Games /\ [proc[p].row EXCEPT !.inst = i] \in OrderRow
    BY <2>3 DEF OrderRow
  <2>5. ControllerOK'
    <3>1. [game |-> proc[p].row.game, status |-> "stopped", order |-> proc[p].arg] \in InstRow
      BY <2>3, <2>4 DEF InstRow
    <3> QED BY <1>5, <2>1, <3>1 DEF CreateGameInstance, ControllerOK
  <2>6. x = [proc[p] EXCEPT !.row = [proc[p].row EXCEPT !.inst = i], !.pc = "save"]
    BY <1>0 DEF Proc
  <2>7. x \in Proc
    BY <1>0, <2>4, <2>6 DEF Proc, Pcs
  <2>8. Sound(x)
    BY <1>0, <2>2, <2>3, <2>4, <2>6 DEF Sound, Proc, OrderRow, PayOps, CallOps, ForGames, ForPlans
  <2>9. proc' = [proc EXCEPT ![p] = x]
    BY <2>1
  <2> HIDE DEF x
  <2>10. ProcOK'
    BY <2>7, <2>8, <2>9, PutType
  <2> QED BY <1>5, <2>5, <2>10 DEF CreateGameInstance, platform, PlatformOK, ModeOK
<1>6. ASSUME SaveOrder(p) PROVE Typed'
  <2>1. proc[p].arg \in Orders /\ proc[p].row \in OrderRow
    BY <1>0, <1>6 DEF SaveOrder, At, Sound, PayOps
  <2>2. \A s \in {"paid", "provisioned"} : [proc[p].row EXCEPT !.status = s] \in OrderRow
    BY <2>1 DEF OrderRow
  <2>3. PlatformOK'
    BY <1>6, <2>1, <2>2 DEF SaveOrder, PlatformOK
  <2> QED BY <1>6, <2>3, EndType DEF SaveOrder, controller, ControllerOK, ModeOK
<1>7. ASSUME CallInstance(p) PROVE Typed'
  <2>1. proc[p].row.inst \in Insts
    BY <1>0, <1>7 DEF CallInstance, At, Sound, CallOps
  <2>2. ControllerOK'
    <3>1. \A s \in {"active", "stopped"}, i \in Insts :
            insts[i] # None => [insts[i] EXCEPT !.status = s] \in InstRow
      BY DEF ControllerOK, InstRow
    <3>2. \/ insts' = insts
          \/ /\ insts[proc[p].row.inst] # None
             /\ \E s \in {"active", "stopped"} :
                  insts' = [insts EXCEPT ![proc[p].row.inst] = [insts[proc[p].row.inst] EXCEPT !.status = s]]
      BY <1>7 DEF CallInstance
    <3> QED BY <1>7, <2>1, <3>1, <3>2 DEF CallInstance, ControllerOK
  <2> QED BY <1>7, <2>2, EndType DEF CallInstance, platform, PlatformOK, ModeOK
<1> QED BY <1>2, <1>3, <1>4, <1>5, <1>6, <1>7 DEF OrderStep

\* Going on to a later call keeps what the request has read.
LEMMA GotoGame ==
  ASSUME Typed, NEW p \in Procs, proc[p].op \in ForGames \cup ForPlans, NEW pc \in Pcs, Goto(p, pc),
         proc[p].op = "update game" => pc # "save"
  PROVE  ProcOK'
<1>1. proc[p] \in Proc /\ Sound(proc[p])
  BY DEF Typed, ProcOK
<1>2. Sound([proc[p] EXCEPT !.pc = pc])
  BY <1>1 DEF Proc, Sound, PayOps, CallOps, ForGames, ForPlans
<1> QED BY <1>2, GotoType DEF Typed

LEMMA GameTyped ==
  ASSUME Typed, NEW p \in Procs, GameStep(p)
  PROVE  Typed'
<1> USE DEF Typed
<1>0. proc[p] \in Proc /\ Sound(proc[p])
  BY DEF ProcOK
<1>1. proc[p].arg \in Games /\ proc[p].op \in ForGames
  BY <1>0 DEF GameStep, CreateGameAsset, CreateGameSave, RegisterGameBuild, UpdateGameAsset,
              UpdateGameRead, UpdateGameSave, SyncBranchesRead, SyncBranchesSave, At, Sound, ForGames
<1>2. CASE CreateGameAsset(p) \/ UpdateGameAsset(p) \/ SyncBranchesRead(p)
  <2>1. End(p) \/ (\E pc \in {"save", "read"} : Goto(p, pc) /\ (proc[p].op = "update game" => pc # "save"))
    BY <1>2 DEF CreateGameAsset, UpdateGameAsset, SyncBranchesRead, At
  <2>2. ProcOK'
    BY <1>1, <2>1, EndType, GotoGame DEF Pcs
  <2> QED BY <1>2, <2>2 DEF CreateGameAsset, UpdateGameAsset, SyncBranchesRead, platform, controller,
                            PlatformOK, ControllerOK, ModeOK
<1>3. CASE CreateGameSave(p) \/ UpdateGameSave(p)
  <2>1. End(p)
    BY <1>3 DEF CreateGameSave, UpdateGameSave
  <2>2. PICK row \in GameRow : games' = [games EXCEPT ![proc[p].arg] = row]
    BY <1>0, <1>3 DEF CreateGameSave, UpdateGameSave, GameRow, At, Sound
  <2>3. ControllerOK'
    BY <1>3, <2>2 DEF CreateGameSave, UpdateGameSave, ControllerOK
  <2> QED BY <1>3, <2>1, <2>3, EndType DEF CreateGameSave, UpdateGameSave, platform, PlatformOK, ModeOK
<1>4. CASE RegisterGameBuild(p) \/ SyncBranchesSave(p)
  BY <1>4, EndType DEF RegisterGameBuild, SyncBranchesSave, platform, controller, PlatformOK, ControllerOK, ModeOK
<1>5. CASE UpdateGameRead(p)
  <2> DEFINE x == [proc[p] EXCEPT !.row = games[proc[p].arg], !.pc = "save"]
  <2>1. CASE End(p)
    BY <1>5, <2>1, EndType DEF UpdateGameRead, platform, controller, PlatformOK, ControllerOK, ModeOK
  <2>2. CASE games[proc[p].arg] # None /\ proc' = [proc EXCEPT ![p].row = games[proc[p].arg], ![p].pc = "save"]
    <3>1. games[proc[p].arg] \in GameRow /\ proc[p].op = "update game"
      BY <1>1, <1>5, <2>2 DEF ControllerOK, UpdateGameRead, At
    <3>2. x \in Proc /\ Sound(x)
      BY <1>0, <1>1, <3>1 DEF Proc, Pcs, Sound, PayOps, CallOps, ForGames, ForPlans
    <3>3. proc' = [proc EXCEPT ![p] = x]
      BY <2>2
    <3> HIDE DEF x
    <3>4. ProcOK'
      BY <3>2, <3>3, PutType
    <3> QED BY <1>5, <3>4 DEF UpdateGameRead, platform, controller, PlatformOK, ControllerOK, ModeOK
  <2> QED BY <1>5, <2>1, <2>2 DEF UpdateGameRead
<1> QED BY <1>2, <1>3, <1>4, <1>5 DEF GameStep

LEMMA DeleteTyped ==
  ASSUME Typed, NEW p \in Procs, DeleteStep(p)
  PROVE  Typed'
<1> USE DEF Typed
<1>0. proc[p] \in Proc /\ Sound(proc[p])
  BY DEF ProcOK
<1>1. proc[p].arg \in Games /\ proc[p].op = "delete game"
  BY <1>0 DEF DeleteStep, DeleteGameList, DeleteGameInstance, DeleteGameAsset, DeleteGameBranches,
              DeleteGameConfig, DeleteGameDropConfig, DeleteGameRow, DeleteGameProfile, MarkGameRemoved,
              At, Sound, ForGames
<1>2. ASSUME NEW pc \in {"instances", "drop config"}, NEW row \in GameRow \cup {None}, NEW todo \in SUBSET Insts,
             proc' = [proc EXCEPT ![p] = [proc[p] EXCEPT !.pc = pc, !.row = row, !.todo = todo]]
      PROVE  ProcOK'
  <2> DEFINE x == [proc[p] EXCEPT !.pc = pc, !.row = row, !.todo = todo]
  <2>1. x \in Proc /\ Sound(x)
    BY <1>0, <1>1 DEF Proc, Pcs, Deleting, Sound, PayOps, CallOps, ForGames, ForPlans
  <2>2. proc' = [proc EXCEPT ![p] = x]
    BY <1>2
  <2> HIDE DEF x
  <2> QED BY <2>1, <2>2, PutType
<1>3. \A pc \in Pcs : Goto(p, pc) => ProcOK'
  BY <1>1, GotoGame DEF ForGames
<1>4. CASE DeleteGameList(p)
  <2>1. CASE End(p)
    BY <1>4, <2>1, EndType DEF DeleteGameList, platform, controller, PlatformOK, ControllerOK, ModeOK
  <2>2. CASE proc' = [proc EXCEPT ![p].todo = InstancesOf(proc[p].arg), ![p].pc = "instances"]
    <3>1. InstancesOf(proc[p].arg) \in SUBSET Insts /\ proc[p].row \in GameRow \cup {None}
      BY <1>0, <1>1 DEF InstancesOf, Sound
    <3>2. proc' = [proc EXCEPT ![p] = [proc[p] EXCEPT !.pc = "instances", !.row = proc[p].row,
                                                      !.todo = InstancesOf(proc[p].arg)]]
      BY <1>0, <2>2 DEF Proc, ProcOK
    <3>3. ProcOK'
      BY <1>2, <3>1, <3>2
    <3> QED BY <1>4, <3>3 DEF DeleteGameList, platform, controller, PlatformOK, ControllerOK, ModeOK
  <2> QED BY <1>4, <2>1, <2>2 DEF DeleteGameList
<1>5. CASE DeleteGameInstance(p)
  <2>1. ASSUME NEW i \in proc[p].todo, insts' = [insts EXCEPT ![i] = None],
               proc' = [proc EXCEPT ![p].todo = @ \ {i}]
        PROVE  Typed'
    <3>1. proc[p].todo \ {i} \in SUBSET Insts /\ proc[p].pc = "instances" /\ i \in Insts
          /\ proc[p].row \in GameRow \cup {None}
      BY <1>0, <1>1, <1>5, <2>1 DEF DeleteGameInstance, At, Proc, Sound
    <3>2. proc' = [proc EXCEPT ![p] = [proc[p] EXCEPT !.pc = "instances", !.row = proc[p].row,
                                                      !.todo = proc[p].todo \ {i}]]
      BY <1>0, <2>1, <3>1 DEF Proc, ProcOK
    <3>3. ProcOK'
      BY <1>2, <3>1, <3>2
    <3>4. ControllerOK'
      BY <1>5, <2>1, <3>1 DEF DeleteGameInstance, ControllerOK
    <3> QED BY <1>5, <3>3, <3>4 DEF DeleteGameInstance, platform, PlatformOK, ModeOK
  <2>2. CASE Goto(p, "asset") /\ UNCHANGED insts
    BY <1>3, <1>5, <2>2 DEF DeleteGameInstance, Pcs, Deleting, platform, PlatformOK, ControllerOK, ModeOK
  <2> QED BY <1>5, <2>1, <2>2 DEF DeleteGameInstance
<1>6. CASE DeleteGameAsset(p) \/ DeleteGameBranches(p) \/ DeleteGameDropConfig(p)
  <2>1. End(p) \/ \E pc \in {"branches", "config", "game"} : Goto(p, pc)
    BY <1>6 DEF DeleteGameAsset, DeleteGameBranches, DeleteGameDropConfig
  <2>2. ProcOK'
    BY <1>3, <2>1, EndType DEF Pcs, Deleting
  <2> QED BY <1>6, <2>2 DEF DeleteGameAsset, DeleteGameBranches, DeleteGameDropConfig, platform, controller,
                            PlatformOK, ControllerOK, ModeOK
<1>7. CASE DeleteGameConfig(p)
  <2>1. CASE Goto(p, "game")
    BY <1>3, <1>7, <2>1 DEF DeleteGameConfig, Pcs, Deleting, platform, controller, PlatformOK, ControllerOK, ModeOK
  <2>2. CASE proc' = [proc EXCEPT ![p].pc = "drop config", ![p].row = games[proc[p].arg]]
    <3>1. games[proc[p].arg] \in GameRow \cup {None} /\ proc[p].todo \in SUBSET Insts
      BY <1>0, <1>1 DEF ControllerOK, Proc
    <3>2. proc' = [proc EXCEPT ![p] = [proc[p] EXCEPT !.pc = "drop config", !.row = games[proc[p].arg],
                                                      !.todo = proc[p].todo]]
      BY <1>0, <2>2 DEF Proc, ProcOK
    <3>3. ProcOK'
      BY <1>2, <3>1, <3>2
    <3> QED BY <1>7, <3>3 DEF DeleteGameConfig, platform, controller, PlatformOK, ControllerOK, ModeOK
  <2> QED BY <1>7, <2>1, <2>2 DEF DeleteGameConfig
<1>8. CASE DeleteGameRow(p)
  <2>1. ControllerOK'
    BY <1>1, <1>8 DEF DeleteGameRow, ControllerOK
  <2> QED BY <1>3, <1>8, <2>1 DEF DeleteGameRow, Pcs, Deleting, platform, PlatformOK, ModeOK
<1>9. CASE DeleteGameProfile(p)
  <2>1. PlatformOK'
    BY <1>1, <1>9 DEF DeleteGameProfile, PlatformOK
  <2> QED BY <1>3, <1>9, <2>1 DEF DeleteGameProfile, Pcs, Deleting, controller, ControllerOK, ModeOK
<1>10. CASE MarkGameRemoved(p)
  <2>1. \A o \in Orders : orders[o] # None => [orders[o] EXCEPT !.status = "removed"] \in OrderRow
    BY DEF PlatformOK, OrderRow
  <2>2. PlatformOK'
    BY <1>10, <2>1 DEF MarkGameRemoved, PlatformOK
  <2> QED BY <1>10, <2>2, EndType DEF MarkGameRemoved, controller, ControllerOK, ModeOK
<1> QED BY <1>4, <1>5, <1>6, <1>7, <1>8, <1>9, <1>10 DEF DeleteStep

LEMMA ShopTyped ==
  ASSUME Typed, NEW p \in Procs, ShopStep(p)
  PROVE  Typed'
<1> USE DEF Typed
<1>0. proc[p] \in Proc /\ Sound(proc[p])
  BY DEF ProcOK
<1>1. CASE UploadGameIcon(p) \/ ReadPlan(p) \/ DeletePlanList(p) \/ PurchaseRead(p)
  <2>1. End(p) \/ \E pc \in {"save", "read", "delete"} : Goto(p, pc)
    BY <1>1 DEF UploadGameIcon, ReadPlan, DeletePlanList, PurchaseRead
  <2>2. proc[p].op \in (ForGames \cup ForPlans) \ {"update game"}
    BY <1>1 DEF UploadGameIcon, ReadPlan, DeletePlanList, PurchaseRead, At, ForGames, ForPlans
  <2>3. ProcOK'
    BY <2>1, <2>2, EndType, GotoGame DEF Pcs
  <2> QED BY <1>1, <2>3 DEF UploadGameIcon, ReadPlan, DeletePlanList, PurchaseRead, platform, controller,
                            PlatformOK, ControllerOK, ModeOK
<1>2. CASE UpdateProfile(p)
  <2>1. proc[p].arg \in Games
    BY <1>0, <1>2 DEF UpdateProfile, At, Sound, ForGames
  <2>2. PlatformOK'
    BY <1>2, <2>1 DEF UpdateProfile, PlatformOK
  <2> QED BY <1>2, <2>2, EndType DEF UpdateProfile, controller, ControllerOK, ModeOK
<1>3. CASE CreatePlan(p) \/ SavePlan(p) \/ DeletePlan(p)
  <2>1. proc[p].arg \in Plans
    BY <1>0, <1>3 DEF CreatePlan, SavePlan, DeletePlan, At, Sound, ForPlans
  <2>2. PICK st \in {"none", "enabled", "disabled"} : plan' = [plan EXCEPT ![proc[p].arg] = st]
    BY <1>3 DEF CreatePlan, SavePlan, DeletePlan
  <2>3. PlatformOK'
    BY <1>3, <2>1, <2>2 DEF CreatePlan, SavePlan, DeletePlan, PlatformOK
  <2> QED BY <1>3, <2>3, EndType DEF CreatePlan, SavePlan, DeletePlan, controller, ControllerOK, ModeOK
<1>4. CASE PurchaseSave(p)
  <2>1. proc[p].arg \in Plans
    BY <1>0, <1>4 DEF PurchaseSave, At, Sound, ForPlans
  <2>2. PlatformOK'
    BY <1>4, <2>1 DEF PurchaseSave, PlatformOK
  <2> QED BY <1>4, <2>2, EndType DEF PurchaseSave, controller, ControllerOK, ModeOK
<1> QED BY <1>1, <1>2, <1>3, <1>4 DEF ShopStep

LEMMA TypedStep == Typed /\ OrdersThere /\ [Next]_vars => Typed'
<1>1. ASSUME Typed, NEW p \in Procs, Fail(p) PROVE Typed'
  BY <1>1, EndType DEF Fail, platform, controller, Typed, PlatformOK, ControllerOK, ModeOK
<1>2. ASSUME Typed, NEW i \in Insts, InstanceFails(i) PROVE Typed'
  <2>1. [insts[i] EXCEPT !.status = "stopped"] \in InstRow
    BY <1>2 DEF InstanceFails, Typed, ControllerOK, InstRow
  <2>2. insts' = [insts EXCEPT ![i] = [insts[i] EXCEPT !.status = "stopped"]]
    BY <1>2 DEF InstanceFails
  <2>3. ControllerOK'
    BY <1>2, <2>1, <2>2 DEF InstanceFails, Typed, ControllerOK
  <2> QED BY <1>2, <2>3 DEF InstanceFails, platform, Typed, PlatformOK, ProcOK, ModeOK
<1>3. ASSUME Typed, UNCHANGED vars PROVE Typed'
  BY <1>3 DEF vars, platform, controller, Typed, PlatformOK, ControllerOK, ProcOK, ModeOK
<1> QED BY <1>1, <1>2, <1>3, RequestTyped, OrderTyped, GameTyped, DeleteTyped, ShopTyped DEF Next

-----------------------------------------------------------------------------
(* A request changes its own state and nobody else's.                      *)

Move(p) == Request(p) \/ OrderStep(p) \/ GameStep(p) \/ DeleteStep(p) \/ ShopStep(p) \/ Fail(p)

LEMMA OnlyMover ==
  ASSUME Typed, NEW p \in Procs, Move(p)
  PROVE  UNCHANGED mode /\ \A q \in Procs \ {p} : proc'[q] = proc[q]
<1>0. proc \in [Procs -> Proc]
  BY DEF Typed, ProcOK
<1>1. CASE Request(p)
  BY <1>0, <1>1 DEF Request, CreateOrder, AskOrder, AskGame, AskPlan, Begin
<1>2. CASE OrderStep(p)
  BY <1>0, <1>2 DEF OrderStep, ReadOrder, resolveBuild, CreateGameInstance, SaveOrder, ReadInstance, CallInstance,
                    End, Goto
<1>3. CASE GameStep(p)
  BY <1>0, <1>3 DEF GameStep, CreateGameAsset, CreateGameSave, RegisterGameBuild, UpdateGameAsset,
                    UpdateGameRead, UpdateGameSave, SyncBranchesRead, SyncBranchesSave, End, Goto
<1>4. CASE DeleteStep(p)
  <2>1. CASE DeleteGameList(p) \/ DeleteGameInstance(p) \/ DeleteGameAsset(p) \/ DeleteGameBranches(p)
    BY <1>0, <2>1 DEF DeleteGameList, DeleteGameInstance, DeleteGameAsset, DeleteGameBranches, End, Goto
  <2>2. CASE DeleteGameConfig(p) \/ DeleteGameDropConfig(p) \/ DeleteGameRow(p)
    BY <1>0, <2>2 DEF DeleteGameConfig, DeleteGameDropConfig, DeleteGameRow, End, Goto
  <2>3. CASE DeleteGameProfile(p) \/ MarkGameRemoved(p)
    BY <1>0, <2>3 DEF DeleteGameProfile, MarkGameRemoved, End, Goto
  <2> QED BY <1>4, <2>1, <2>2, <2>3 DEF DeleteStep
<1>5. CASE ShopStep(p)
  BY <1>0, <1>5 DEF ShopStep, UploadGameIcon, UpdateProfile, CreatePlan, ReadPlan, SavePlan, DeletePlanList,
                    DeletePlan, PurchaseRead, PurchaseSave, End, Goto
<1>6. CASE Fail(p)
  BY <1>0, <1>6 DEF Fail, End
<1> QED BY <1>1, <1>2, <1>3, <1>4, <1>5, <1>6 DEF Move

-----------------------------------------------------------------------------
(* Orders and the instances made for them.                                 *)

KeepsOrders == \A o \in Orders :
  \/ orders'[o] = orders[o]
  \/ /\ orders[o] # None /\ orders[o].status \in Open
     /\ orders'[o] # None /\ orders'[o].status = "removed"
     /\ orders'[o].inst = orders[o].inst /\ orders'[o].game = orders[o].game
KeepsInsts == \A i \in Insts :
  insts'[i] # None => insts[i] # None /\ insts'[i].order = insts[i].order /\ insts'[i].game = insts[i].game
KeepsSaves == \A p \in Procs :
  Saves(p)' => Saves(p) /\ proc'[p].row = proc[p].row /\ proc'[p].arg = proc[p].arg
KeepsArgs == \A p \in Procs :
  proc'[p].op \in PayOps \cup CallOps => orders[proc'[p].arg] # None
Quiet == KeepsOrders /\ KeepsInsts /\ KeepsSaves /\ KeepsArgs

\* A step is quiet if it leaves the request where it saves no order.
LEMMA QuietMove ==
  ASSUME Typed, OrdersThere, NEW p \in Procs, Move(p), UNCHANGED orders \/ KeepsOrders, KeepsInsts,
         \/ proc'[p] = Idle
         \/ proc'[p].op \notin PayOps \cup CallOps
         \/ proc'[p].op = proc[p].op /\ proc'[p].arg = proc[p].arg /\ proc'[p].pc # "save"
         \/ orders[proc'[p].arg] # None /\ proc'[p].pc # "save"
  PROVE  Quiet
<1>1. KeepsOrders
  BY DEF KeepsOrders
<1>2. \A q \in Procs \ {p} : proc'[q] = proc[q]
  BY OnlyMover
<1>3. ~Saves(p)'
  BY IdleType DEF Saves, At, PayOps
<1>4. KeepsSaves
  BY <1>2, <1>3 DEF KeepsSaves, Saves, At
<1>5. KeepsArgs
  BY <1>2, IdleType DEF KeepsArgs, OrdersThere, PayOps, CallOps
<1> QED BY <1>1, <1>4, <1>5 DEF Quiet

LEMMA EndFacts ==
  ASSUME Typed, NEW p \in Procs, End(p)
  PROVE  proc'[p] = Idle
BY DEF Typed, ProcOK, End

LEMMA GotoFacts ==
  ASSUME Typed, NEW p \in Procs, NEW pc, Goto(p, pc)
  PROVE  /\ proc'[p].op = proc[p].op /\ proc'[p].arg = proc[p].arg /\ proc'[p].pc = pc
         /\ proc'[p].row = proc[p].row /\ proc'[p].todo = proc[p].todo
BY DEF Typed, ProcOK, Proc, Goto

\* Begin, with the record it leaves.
LEMMA BeginFacts ==
  ASSUME Typed, NEW p \in Procs, NEW op, NEW arg, NEW game, NEW first, Begin(p, op, arg, game, first)
  PROVE  /\ proc[p] = Idle
         /\ proc'[p].op = op /\ proc'[p].arg = arg /\ proc'[p].pc = first
<1>1. proc'[p] = [Idle EXCEPT !.op = op, !.arg = arg, !.pc = first]
  BY DEF Begin, Typed, ProcOK
<1> QED BY <1>1 DEF Begin, Idle

LEMMA RequestQuiet ==
  ASSUME Typed, OrdersThere, NEW p \in Procs, Request(p),
         ~ \E o \in Orders, g \in Games : CreateOrder(p, o, g)
  PROVE  Quiet
<1>1. Move(p)
  BY DEF Move
<1>2. ASSUME NEW op, NEW arg, NEW game, NEW first, Begin(p, op, arg, game, first),
             op \notin PayOps \cup CallOps \/ (orders[arg] # None /\ first # "save")
      PROVE  Quiet
  <2>1. UNCHANGED orders /\ KeepsInsts
    BY <1>2 DEF Begin, platform, controller, KeepsInsts
  <2> QED BY <1>1, <1>2, <2>1, BeginFacts, QuietMove
<1>3. ASSUME NEW o \in Orders, NEW op \in {"pay", "provision", "start", "stop"}, AskOrder(p, op, o)
      PROVE  Quiet
  BY <1>2, <1>3 DEF AskOrder
<1>4. ASSUME NEW g \in Games, NEW op \in ForGames, NEW first, AskGame(p, op, g, first) PROVE Quiet
  BY <1>2, <1>4 DEF AskGame, ForGames, PayOps, CallOps
<1>5. ASSUME NEW l \in Plans, NEW op \in ForPlans, NEW first, AskPlan(p, op, l, first) PROVE Quiet
  BY <1>2, <1>5 DEF AskPlan, ForPlans, PayOps, CallOps
<1> QED BY <1>3, <1>4, <1>5 DEF Request, ForGames, ForPlans

LEMMA OrderQuiet ==
  ASSUME Typed, OrdersThere, NEW p \in Procs, OrderStep(p), ~CreateGameInstance(p), ~SaveOrder(p)
  PROVE  Quiet
<1>0. Move(p) /\ proc \in [Procs -> Proc] /\ proc[p] \in Proc
  BY DEF Move, Typed, ProcOK
<1>1. CASE CallInstance(p)
  <2>1. proc[p].row.inst \in Insts
    BY <1>1 DEF CallInstance, At, Typed, ProcOK, Sound, CallOps
  <2>2. KeepsInsts
    BY <1>1, <2>1 DEF CallInstance, KeepsInsts, Typed, ControllerOK, InstRow
  <2> QED BY <1>0, <1>1, <2>2, EndFacts, QuietMove DEF CallInstance, platform
<1>2. CASE ReadOrder(p) \/ ReadInstance(p) \/ resolveBuild(p)
  <2>1. UNCHANGED orders /\ KeepsInsts
    BY <1>2 DEF ReadOrder, ReadInstance, resolveBuild, platform, controller, KeepsInsts
  <2>2. \/ End(p) \/ Goto(p, "create")
        \/ \E c \in {"build", "call"} : proc' = [proc EXCEPT ![p].row = orders[proc[p].arg], ![p].pc = c]
    BY <1>2 DEF ReadOrder, ReadInstance, resolveBuild
  <2>3. \/ proc'[p] = Idle
        \/ proc'[p].op = proc[p].op /\ proc'[p].arg = proc[p].arg /\ proc'[p].pc # "save"
    BY <1>0, <2>2, EndFacts, GotoFacts DEF Proc
  <2> QED BY <1>0, <2>1, <2>3, QuietMove
<1> QED BY <1>1, <1>2 DEF OrderStep

LEMMA GameQuiet ==
  ASSUME Typed, OrdersThere, NEW p \in Procs, GameStep(p) \/ ShopStep(p)
  PROVE  Quiet
<1>0. Move(p) /\ proc \in [Procs -> Proc] /\ proc[p] \in Proc
  BY DEF Move, Typed, ProcOK
<1>1. proc[p].op \in ForGames \cup ForPlans
  BY DEF GameStep, CreateGameAsset, CreateGameSave, RegisterGameBuild, UpdateGameAsset,
         UpdateGameRead, UpdateGameSave, SyncBranchesRead, SyncBranchesSave,
         ShopStep, UploadGameIcon, UpdateProfile, CreatePlan, ReadPlan, SavePlan, DeletePlanList,
         DeletePlan, PurchaseRead, PurchaseSave, At, ForGames, ForPlans
<1>2. UNCHANGED <<orders, insts>>
  BY DEF GameStep, CreateGameAsset, CreateGameSave, RegisterGameBuild, UpdateGameAsset,
         UpdateGameRead, UpdateGameSave, SyncBranchesRead, SyncBranchesSave,
         ShopStep, UploadGameIcon, UpdateProfile, CreatePlan, ReadPlan, SavePlan, DeletePlanList,
         DeletePlan, PurchaseRead, PurchaseSave, platform, controller
<1>3. \/ End(p) \/ \E pc \in Pcs : Goto(p, pc)
      \/ proc' = [proc EXCEPT ![p].row = games[proc[p].arg], ![p].pc = "save"]
  BY DEF GameStep, CreateGameAsset, CreateGameSave, RegisterGameBuild, UpdateGameAsset,
         UpdateGameRead, UpdateGameSave, SyncBranchesRead, SyncBranchesSave,
         ShopStep, UploadGameIcon, UpdateProfile, CreatePlan, ReadPlan, SavePlan, DeletePlanList,
         DeletePlan, PurchaseRead, PurchaseSave, Pcs
<1>4. proc'[p] = Idle \/ proc'[p].op = proc[p].op
  BY <1>0, <1>3, EndFacts, GotoFacts DEF Proc
<1>5. proc'[p] = Idle \/ proc'[p].op \notin PayOps \cup CallOps
  BY <1>1, <1>4 DEF ForGames, ForPlans, PayOps, CallOps
<1> QED BY <1>0, <1>2, <1>5, QuietMove DEF KeepsInsts

LEMMA DeleteQuiet ==
  ASSUME Typed, OrdersThere, NEW p \in Procs, DeleteStep(p)
  PROVE  Quiet
<1>0. Move(p) /\ proc \in [Procs -> Proc] /\ proc[p] \in Proc
  BY DEF Move, Typed, ProcOK
<1>1. proc[p].op = "delete game"
  BY DEF DeleteStep, DeleteGameList, DeleteGameInstance, DeleteGameAsset, DeleteGameBranches,
         DeleteGameConfig, DeleteGameDropConfig, DeleteGameRow, DeleteGameProfile, MarkGameRemoved, At
<1>2. proc'[p] = Idle \/ proc'[p].op = proc[p].op
  <2>1. CASE DeleteGameList(p) \/ DeleteGameInstance(p) \/ DeleteGameConfig(p)
    <3>1. CASE End(p) \/ \E pc \in {"asset", "game"} : Goto(p, pc)
      BY <3>1, EndFacts, GotoFacts
    <3>2. CASE proc' = [proc EXCEPT ![p].todo = InstancesOf(proc[p].arg), ![p].pc = "instances"]
      BY <1>0, <3>2 DEF Proc
    <3>3. CASE proc' = [proc EXCEPT ![p].pc = "drop config", ![p].row = games[proc[p].arg]]
      BY <1>0, <3>3 DEF Proc
    <3>4. ASSUME NEW i \in proc[p].todo, proc' = [proc EXCEPT ![p].todo = @ \ {i}]
          PROVE  proc'[p].op = proc[p].op
      BY <1>0, <3>4 DEF Proc
    <3> QED BY <2>1, <3>1, <3>2, <3>3, <3>4 DEF DeleteGameList, DeleteGameInstance, DeleteGameConfig
  <2>2. CASE ~(DeleteGameList(p) \/ DeleteGameInstance(p) \/ DeleteGameConfig(p))
    BY <2>2, EndFacts, GotoFacts
    DEF DeleteStep, DeleteGameAsset, DeleteGameBranches, DeleteGameDropConfig, DeleteGameRow,
        DeleteGameProfile, MarkGameRemoved
  <2> QED BY <2>1, <2>2
<1>3. KeepsInsts
  <2>1. CASE DeleteGameInstance(p)
    BY <2>1 DEF DeleteGameInstance, KeepsInsts, Typed, ControllerOK
  <2>2. CASE UNCHANGED insts
    BY <2>2 DEF KeepsInsts
  <2> QED BY <2>1, <2>2
          DEF DeleteStep, DeleteGameList, DeleteGameAsset, DeleteGameBranches, DeleteGameConfig,
              DeleteGameDropConfig, DeleteGameRow, DeleteGameProfile, MarkGameRemoved, controller
<1>4. KeepsOrders
  <2>1. CASE MarkGameRemoved(p)
    <3>1. \A o \in Orders : orders[o] # None =>
            LET r == [orders[o] EXCEPT !.status = "removed"]
            IN r \in OrderRow /\ r.status = "removed" /\ r.inst = orders[o].inst /\ r.game = orders[o].game
      BY DEF Typed, PlatformOK, OrderRow
    <3> QED BY <2>1, <3>1, StorefrontAssumption DEF MarkGameRemoved, KeepsOrders
  <2>2. CASE UNCHANGED orders
    BY <2>2 DEF KeepsOrders
  <2> QED BY <2>1, <2>2
          DEF DeleteStep, DeleteGameList, DeleteGameInstance, DeleteGameAsset, DeleteGameBranches,
              DeleteGameConfig, DeleteGameDropConfig, DeleteGameRow, DeleteGameProfile, platform
<1> QED BY <1>0, <1>1, <1>2, <1>3, <1>4, QuietMove DEF PayOps, CallOps

LEMMA FailQuiet ==
  ASSUME Typed, OrdersThere, \/ \E p \in Procs : Fail(p)
                             \/ \E i \in Insts : InstanceFails(i)
                             \/ UNCHANGED vars
  PROVE  Quiet
<1>1. ASSUME NEW p \in Procs, Fail(p) PROVE Quiet
  <2>1. Move(p) /\ UNCHANGED orders /\ KeepsInsts /\ proc'[p] = Idle
    BY <1>1, EndFacts DEF Move, Fail, platform, controller, KeepsInsts
  <2> QED BY <2>1, QuietMove
<1>2. ASSUME UNCHANGED <<orders, proc>>, KeepsInsts PROVE Quiet
  BY <1>2 DEF Quiet, KeepsOrders, KeepsSaves, KeepsArgs, Saves, At, OrdersThere
<1>3. ASSUME NEW i \in Insts, InstanceFails(i) PROVE Quiet
  <2>1. KeepsInsts
    BY <1>3 DEF InstanceFails, KeepsInsts, Typed, ControllerOK, InstRow
  <2> QED BY <1>2, <1>3, <2>1 DEF InstanceFails, platform
<1>4. ASSUME UNCHANGED vars PROVE Quiet
  BY <1>2, <1>4 DEF vars, platform, controller, KeepsInsts
<1> QED BY <1>1, <1>3, <1>4

\* Every step is quiet, but for a new order, a new instance and its order's
\* save.
LEMMA QuietSteps ==
  ASSUME Typed, OrdersThere, [Next]_vars
  PROVE  \/ Quiet
         \/ \E p \in Procs : \/ \E o \in Orders, g \in Games : CreateOrder(p, o, g)
                             \/ CreateGameInstance(p) \/ SaveOrder(p)
BY RequestQuiet, OrderQuiet, GameQuiet, DeleteQuiet, FailQuiet DEF Next

LEMMA ThereStep ==
  ASSUME Typed, OrdersThere, [Next]_vars
  PROVE  OrdersThere'
<1>0. orders \in [Orders -> OrderRow \cup {None}] /\ insts \in [Insts -> InstRow \cup {None}]
      /\ \A i \in Insts : insts[i] # None => insts[i].order \in Orders
  BY DEF Typed, PlatformOK, ControllerOK, InstRow
<1>a. Typed'
  BY TypedStep
<1>b. \A p \in Procs : proc'[p].op \in PayOps \cup CallOps => proc'[p].arg \in Orders
  BY <1>a DEF Typed, ProcOK, Sound
<1>1. CASE Quiet
  BY <1>0, <1>1, <1>b DEF Quiet, KeepsOrders, KeepsInsts, KeepsArgs, OrdersThere
<1>2. ASSUME NEW p \in Procs, NEW o \in Orders, NEW g \in Games, CreateOrder(p, o, g) PROVE OrdersThere'
  <2>1. [game |-> g, status |-> "created", inst |-> None] \in OrderRow
    BY DEF OrderRow
  <2>2. \A q \in Orders : orders[q] # None => orders'[q] # None
    BY <1>0, <1>2, <2>1, StorefrontAssumption DEF CreateOrder
  <2> QED BY <1>0, <1>2, <1>b, <2>2 DEF CreateOrder, controller, OrdersThere
<1>3. ASSUME NEW p \in Procs, CreateGameInstance(p) PROVE OrdersThere'
  <2>1. PICK i \in Insts :
          /\ At(p, {"pay", "provision"}, "create")
          /\ insts' = [insts EXCEPT ![i] = [game |-> proc[p].row.game, status |-> "stopped", order |-> proc[p].arg]]
          /\ proc' = [proc EXCEPT ![p].row.inst = i, ![p].pc = "save"]
          /\ UNCHANGED orders
    BY <1>3 DEF CreateGameInstance, platform
  <2>2. proc[p].op \in PayOps /\ orders[proc[p].arg] # None
    BY <2>1 DEF At, PayOps, OrdersThere
  <2>3. \A q \in Procs : proc'[q].op = proc[q].op /\ proc'[q].arg = proc[q].arg
    BY <2>1 DEF Typed, ProcOK, Proc
  <2> QED BY <1>0, <2>1, <2>2, <2>3 DEF OrdersThere
<1>4. ASSUME NEW p \in Procs, SaveOrder(p) PROVE OrdersThere'
  <2>1. proc[p].row \in OrderRow
    BY <1>4 DEF SaveOrder, At, Typed, ProcOK, Sound, PayOps
  <2>2. \A s \in {"paid", "provisioned"} : [proc[p].row EXCEPT !.status = s] \in OrderRow
    BY <2>1 DEF OrderRow
  <2>3. \A q \in Orders : orders[q] # None => orders'[q] # None
    BY <1>0, <1>4, <2>2, StorefrontAssumption DEF SaveOrder
  <2>4. \A q \in Procs : proc'[q] = proc[q] \/ proc'[q] = Idle
    BY <1>4 DEF SaveOrder, End, Typed, ProcOK
  <2> QED BY <1>0, <1>4, <1>b, <2>3, <2>4, IdleType
          DEF SaveOrder, controller, OrdersThere, PayOps, CallOps
<1> QED BY <1>1, <1>2, <1>3, <1>4, QuietSteps

LEMMA FreshStep ==
  ASSUME Typed, OrdersThere, Fresh, [Next]_vars
  PROVE  Fresh'
<1>0. orders \in [Orders -> OrderRow \cup {None}] /\ insts \in [Insts -> InstRow \cup {None}]
      /\ \A o \in Orders : orders[o] # None => orders[o].inst \in Insts \cup {None}
  BY DEF Typed, PlatformOK, ControllerOK, OrderRow
<1>a. \A p \in Procs : Saves(p) => proc[p].row.inst \in Insts /\ proc[p].arg \in Orders
  BY DEF Saves, At, Typed, ProcOK, Sound
<1>1. CASE Quiet
  <2>1. \A o \in Orders : orders'[o] # None => orders[o] # None /\ orders'[o].inst = orders[o].inst
                                               /\ orders'[o].status \in {orders[o].status, "removed"}
    BY <1>1 DEF Quiet, KeepsOrders
  <2>2. \A i \in Insts : insts'[i] # None => insts[i] # None /\ insts'[i].order = insts[i].order
    BY <1>1 DEF Quiet, KeepsInsts
  <2>3. \A p \in Procs : Saves(p)' => Saves(p) /\ proc'[p].row = proc[p].row /\ proc'[p].arg = proc[p].arg
    BY <1>1 DEF Quiet, KeepsSaves
  <2>4. ASSUME NEW o \in Orders, orders'[o] # None
        PROVE  /\ orders'[o].status = "created" => orders'[o].inst = None
               /\ orders'[o].status \in {"paid", "provisioned"} => orders'[o].inst # None
               /\ orders'[o].inst # None =>
                    /\ insts'[orders'[o].inst] # None => insts'[orders'[o].inst].order = o
                    /\ \A q \in Orders \ {o} : orders'[q] # None => orders'[q].inst # orders'[o].inst
                    /\ \A p \in Procs : Saves(p)' => proc'[p].row.inst # orders'[o].inst
    BY <1>0, <2>1, <2>2, <2>3, <2>4 DEF Fresh
  <2>5. ASSUME NEW p \in Procs, Saves(p)'
        PROVE  /\ insts'[proc'[p].row.inst] # None => insts'[proc'[p].row.inst].order = proc'[p].arg
               /\ \A q \in Procs \ {p} : Saves(q)' => proc'[q].row.inst # proc'[p].row.inst
    BY <1>a, <2>2, <2>3, <2>5 DEF Fresh
  <2> QED BY <2>4, <2>5 DEF Fresh
<1>2. ASSUME NEW p \in Procs, NEW c \in Orders, NEW g \in Games, CreateOrder(p, c, g) PROVE Fresh'
  <2>1. \A o \in Orders : o # c => orders'[o] = orders[o]
    BY <1>0, <1>2 DEF CreateOrder
  <2>2. orders'[c].inst = None /\ orders'[c].status = "created"
    BY <1>0, <1>2 DEF CreateOrder
  <2>3. UNCHANGED <<insts, proc>>
    BY <1>2 DEF CreateOrder, controller
  <2> QED BY <2>1, <2>2, <2>3 DEF Fresh, Saves, At
<1>3. ASSUME NEW p \in Procs, CreateGameInstance(p) PROVE Fresh'
  <2>1. PICK i \in Insts :
          /\ At(p, {"pay", "provision"}, "create") /\ insts[i] = None
          /\ \A q \in Procs : proc[q].row # None /\ proc[q].op \in {"pay", "provision"} => proc[q].row.inst # i
          /\ \A o \in Orders : orders[o] # None => orders[o].inst # i
          /\ insts' = [insts EXCEPT ![i] = [game |-> proc[p].row.game, status |-> "stopped", order |-> proc[p].arg]]
          /\ proc' = [proc EXCEPT ![p].row.inst = i, ![p].pc = "save"]
          /\ UNCHANGED orders
    BY <1>3 DEF CreateGameInstance, platform
  <2>2. \A q \in Procs : Saves(q) => proc[q].row.inst # i
    <3>1. \A q \in Procs : Saves(q) => proc[q].row \in OrderRow /\ proc[q].op \in {"pay", "provision"}
      BY DEF Saves, At, Typed, ProcOK, Sound, PayOps
    <3> QED BY <2>1, <3>1, StorefrontAssumption
  <2>3. proc[p] \in Proc /\ proc[p].row \in OrderRow /\ i # None
    BY <2>1, StorefrontAssumption DEF At, Typed, ProcOK, Sound, PayOps
  <2>4. proc'[p].row.inst = i /\ proc'[p].arg = proc[p].arg /\ \A q \in Procs \ {p} : proc'[q] = proc[q]
    BY <2>1, <2>3 DEF Typed, ProcOK, Proc, OrderRow
  <2>5. \A q \in Procs \ {p} : Saves(q)' <=> Saves(q)
    BY <2>4 DEF Saves, At
  <2>6. insts'[i].order = proc[p].arg /\ \A j \in Insts \ {i} : insts'[j] = insts[j]
    BY <1>0, <2>1
  <2>7. ASSUME NEW o \in Orders, orders'[o] # None
        PROVE  /\ orders'[o].status = "created" => orders'[o].inst = None
               /\ orders'[o].status \in {"paid", "provisioned"} => orders'[o].inst # None
               /\ orders'[o].inst # None =>
                    /\ insts'[orders'[o].inst] # None => insts'[orders'[o].inst].order = o
                    /\ \A q \in Orders \ {o} : orders'[q] # None => orders'[q].inst # orders'[o].inst
                    /\ \A q \in Procs : Saves(q)' => proc'[q].row.inst # orders'[o].inst
    <3>1. orders[o] # None /\ orders[o].inst # i /\ UNCHANGED orders
      BY <2>1, <2>7
    <3> QED BY <1>0, <2>4, <2>5, <2>6, <3>1 DEF Fresh
  <2>8. ASSUME NEW q \in Procs, Saves(q)'
        PROVE  /\ insts'[proc'[q].row.inst] # None => insts'[proc'[q].row.inst].order = proc'[q].arg
               /\ \A r \in Procs \ {q} : Saves(r)' => proc'[r].row.inst # proc'[q].row.inst
    BY <1>a, <2>2, <2>4, <2>5, <2>6, <2>8 DEF Fresh
  <2> QED BY <2>7, <2>8 DEF Fresh
<1>4. ASSUME NEW p \in Procs, SaveOrder(p) PROVE Fresh'
  <2> DEFINE i == proc[p].row.inst
             c == proc[p].arg
  <2>1. Saves(p) /\ i \in Insts /\ c \in Orders /\ proc[p].row \in OrderRow /\ i # None
    BY <1>4, <1>a, StorefrontAssumption DEF SaveOrder, Saves, At, PayOps, Typed, ProcOK, Sound
  <2>2. orders'[c].inst = i /\ orders'[c].status \in {"paid", "provisioned"}
        /\ \A o \in Orders \ {c} : orders'[o] = orders[o]
    BY <1>0, <1>4, <2>1 DEF SaveOrder, OrderRow
  <2>3. proc'[p] = Idle /\ (\A q \in Procs \ {p} : proc'[q] = proc[q]) /\ UNCHANGED insts
    BY <1>4 DEF SaveOrder, End, Typed, ProcOK, controller
  <2>4. ~Saves(p)' /\ \A q \in Procs \ {p} : Saves(q)' <=> Saves(q)
    BY <2>3, IdleType DEF Saves, At, PayOps
  <2>5. \A q \in Procs \ {p} : Saves(q) => proc[q].row.inst # i
    BY <2>1 DEF Fresh
  <2>6. \A o \in Orders : orders[o] # None => orders[o].inst # i
    BY <2>1 DEF Fresh
  <2>7. insts[i] # None => insts[i].order = c
    BY <2>1 DEF Fresh
  <2> HIDE DEF i, c
  <2>8. ASSUME NEW o \in Orders, orders'[o] # None
        PROVE  /\ orders'[o].status = "created" => orders'[o].inst = None
               /\ orders'[o].status \in {"paid", "provisioned"} => orders'[o].inst # None
               /\ orders'[o].inst # None =>
                    /\ insts'[orders'[o].inst] # None => insts'[orders'[o].inst].order = o
                    /\ \A q \in Orders \ {o} : orders'[q] # None => orders'[q].inst # orders'[o].inst
                    /\ \A q \in Procs : Saves(q)' => proc'[q].row.inst # orders'[o].inst
    <3>1. CASE o = c
      BY <2>1, <2>2, <2>3, <2>4, <2>5, <2>6, <2>7, <3>1
    <3>2. CASE o # c
      BY <2>2, <2>3, <2>4, <2>6, <2>8, <3>2 DEF Fresh
    <3> QED BY <3>1, <3>2
  <2>9. ASSUME NEW q \in Procs, Saves(q)'
        PROVE  /\ insts'[proc'[q].row.inst] # None => insts'[proc'[q].row.inst].order = proc'[q].arg
               /\ \A r \in Procs \ {q} : Saves(r)' => proc'[r].row.inst # proc'[q].row.inst
    BY <2>3, <2>4, <2>9 DEF Fresh
  <2> QED BY <2>8, <2>9 DEF Fresh
<1> QED BY <1>1, <1>2, <1>3, <1>4, QuietSteps

LEMMA InitFresh == Init => Fresh /\ OrdersThere
BY IdleType DEF Init, Fresh, OrdersThere, Saves, At, PayOps, CallOps

\* What the requests to pay and to provision leave behind when they overlap
\* and fail in any way: a paid order has an instance of its own.
THEOREM PaidOrdersHaveInstances == Spec => []PaidHasInstance
<1>1. Typed /\ Fresh => PaidHasInstance
  BY DEF Fresh, PaidHasInstance
<1>2. Typed /\ OrdersThere /\ Fresh /\ [Next]_vars => Typed' /\ OrdersThere' /\ Fresh'
  BY TypedStep, ThereStep, FreshStep
<1> QED BY <1>1, <1>2, InitTyped, InitFresh, PTL DEF Spec

-----------------------------------------------------------------------------
(* Requests in sequence: whoever moves is alone.                           *)

LEMMA Mover ==
  ASSUME Typed, Alone, ~mode.overlap, NEW p \in Procs, Move(p)
  PROVE  \A q \in Procs \ {p} : proc[q] = Idle /\ proc'[q] = Idle
<1>1. CASE Request(p)
  <2>1. \A q \in Procs : proc[q] = Idle
    BY <1>1 DEF Request, CreateOrder, AskOrder, AskGame, AskPlan, Begin
  <2> QED BY <2>1, OnlyMover
<1>2. CASE proc[p].op # "idle"
  <2>1. proc[p] # Idle
    BY <1>2, IdleType
  <2> QED BY <2>1, OnlyMover DEF Alone
<1>3. CASE Fail(p)
  BY <1>3, OnlyMover DEF Alone, Fail
<1>4. OrderStep(p) \/ GameStep(p) \/ ShopStep(p) => proc[p].op # "idle"
  BY DEF OrderStep, ReadOrder, resolveBuild, CreateGameInstance, SaveOrder, ReadInstance, CallInstance,
         GameStep, CreateGameAsset, CreateGameSave, RegisterGameBuild, UpdateGameAsset,
         UpdateGameRead, UpdateGameSave, SyncBranchesRead, SyncBranchesSave,
         ShopStep, UploadGameIcon, UpdateProfile, CreatePlan, ReadPlan, SavePlan, DeletePlanList,
         DeletePlan, PurchaseRead, PurchaseSave, At
<1>5. DeleteStep(p) => proc[p].op # "idle"
  BY DEF DeleteStep, DeleteGameList, DeleteGameInstance, DeleteGameAsset, DeleteGameBranches,
         DeleteGameConfig, DeleteGameDropConfig, DeleteGameRow, DeleteGameProfile, MarkGameRemoved, At
<1> QED BY <1>1, <1>2, <1>3, <1>4, <1>5 DEF Move

LEMMA NextCases ==
  ASSUME [Next]_vars
  PROVE  \/ \E p \in Procs : Move(p)
         \/ \E i \in Insts : InstanceFails(i)
         \/ UNCHANGED vars
BY DEF Next, Move

LEMMA AloneStep ==
  ASSUME Typed, Alone, [Next]_vars
  PROVE  Alone' /\ UNCHANGED mode
<1>1. ASSUME NEW p \in Procs, Move(p) PROVE Alone' /\ UNCHANGED mode
  BY <1>1, OnlyMover, Mover DEF Alone
<1>2. ASSUME \/ \E i \in Insts : InstanceFails(i)
             \/ UNCHANGED vars
      PROVE  Alone' /\ UNCHANGED mode
  BY <1>2 DEF InstanceFails, vars, Alone
<1> QED BY <1>1, <1>2, NextCases

LEMMA IdleStage ==
  ASSUME NEW q \in Procs, proc'[q] = Idle
  PROVE  Stage(q)' /\ Cascade(q)'
BY IdleType DEF Stage, Cascade, PayOps, Restores

LEMMA RequestStage ==
  ASSUME Typed, NEW p \in Procs, Request(p), ~mode.overlap
  PROVE  Stage(p)' /\ Cascade(p)'
<1>1. ASSUME NEW o \in Orders, NEW g \in Games, CreateOrder(p, o, g) PROVE proc'[p] = Idle
  BY <1>1 DEF CreateOrder
<1>2. ASSUME NEW o \in Orders, NEW op \in {"pay", "provision", "start", "stop"}, AskOrder(p, op, o)
      PROVE  Stage(p)' /\ Cascade(p)'
  <2>1. proc'[p].op = op /\ proc'[p].pc = "read"
    BY <1>2, BeginFacts DEF AskOrder
  <2> QED BY <2>1 DEF Stage, Cascade, PayOps, Restores
<1>3. ASSUME NEW g \in Games, NEW op \in ForGames, NEW first \in {"asset", "read", "list", "get", "save"},
             AskGame(p, op, g, first),
             op \in {"create game", "update game", "icon"} => first # "save",
             op = "delete game" => first = "list"
      PROVE  Stage(p)' /\ Cascade(p)'
  <2>1. proc'[p].op = op /\ proc'[p].pc = first /\ proc'[p].arg = g
    BY <1>3, BeginFacts DEF AskGame
  <2>2. op \in Restores => gone' = gone \ {g}
    BY <1>3 DEF AskGame, Begin
  <2>3. Stage(p)'
    BY <1>3, <2>1, <2>2 DEF Stage, PayOps, ForGames
  <2>4. Cascade(p)'
    BY <1>3, <2>1 DEF Cascade, FromAsset, FromBranches, FromConfig, FromProfile
  <2> QED BY <2>3, <2>4
<1>4. ASSUME NEW l \in Plans, NEW op \in ForPlans, NEW first \in {"save", "read", "list"},
             AskPlan(p, op, l, first), op = "purchase" => first = "read", op = "delete plan" => first = "list"
      PROVE  Stage(p)' /\ Cascade(p)'
  <2>1. proc'[p].op = op /\ proc'[p].pc = first
    BY <1>4, BeginFacts DEF AskPlan
  <2> QED BY <1>4, <2>1 DEF Stage, Cascade, PayOps, Restores, ForPlans
<1> QED BY <1>1, <1>2, <1>3, <1>4, IdleStage DEF Request, ForGames, ForPlans

LEMMA OrderStage ==
  ASSUME Typed, NEW p \in Procs, Stage(p), OrderStep(p)
  PROVE  Stage(p)' /\ Cascade(p)'
<1>0. proc \in [Procs -> Proc] /\ proc[p] \in Proc /\ Sound(proc[p])
  BY DEF Typed, ProcOK
<1>1. CASE End(p)
  BY <1>1, EndFacts, IdleStage
<1>2. CASE ReadOrder(p) /\ ~End(p)
  <2>1. /\ proc' = [proc EXCEPT ![p].row = orders[proc[p].arg], ![p].pc = "build"]
        /\ orders[proc[p].arg].status = "created" /\ UNCHANGED orders /\ proc[p].op \in PayOps
    BY <1>2 DEF ReadOrder, At, platform, PayOps
  <2>2. /\ proc'[p].op = proc[p].op /\ proc'[p].arg = proc[p].arg /\ proc'[p].pc = "build"
        /\ proc'[p].row = orders[proc[p].arg]
    BY <1>0, <2>1 DEF Proc
  <2> QED BY <2>1, <2>2 DEF Stage, Cascade, PayOps, Restores
<1>3. CASE resolveBuild(p) /\ ~End(p)
  <2>1. Goto(p, "create") /\ UNCHANGED orders /\ proc[p].op \in PayOps /\ proc[p].pc = "build"
    BY <1>3 DEF resolveBuild, At, platform, PayOps
  <2>g. /\ proc'[p].op = proc[p].op /\ proc'[p].arg = proc[p].arg /\ proc'[p].pc = "create"
        /\ proc'[p].row = proc[p].row /\ proc'[p].todo = proc[p].todo
    BY <2>1, GotoFacts
  <2> QED BY <2>1, <2>g DEF Stage, Cascade, PayOps, Restores
<1>4. CASE CreateGameInstance(p)
  <2>1. PICK i \in Insts : proc' = [proc EXCEPT ![p].row.inst = i, ![p].pc = "save"]
    BY <1>4 DEF CreateGameInstance
  <2>2. UNCHANGED orders /\ proc[p].op \in PayOps /\ proc[p].pc = "create"
    BY <1>4 DEF CreateGameInstance, At, platform, PayOps
  <2>3. proc[p].row \in OrderRow
    BY <1>0, <2>2 DEF Sound
  <2>4. /\ proc'[p].op = proc[p].op /\ proc'[p].arg = proc[p].arg /\ proc'[p].pc = "save"
        /\ proc'[p].row.game = proc[p].row.game
    BY <1>0, <2>1, <2>3 DEF Proc, OrderRow
  <2> QED BY <2>2, <2>4 DEF Stage, Cascade, PayOps, Restores
<1>5. CASE ReadInstance(p) /\ ~End(p)
  <2>1. /\ proc' = [proc EXCEPT ![p].row = orders[proc[p].arg], ![p].pc = "call"]
        /\ proc[p].op \in CallOps
    BY <1>5 DEF ReadInstance, At, CallOps
  <2>2. proc'[p].op \in CallOps
    BY <1>0, <2>1 DEF Proc
  <2> QED BY <2>2 DEF Stage, Cascade, PayOps, CallOps, Restores
<1> QED BY <1>1, <1>2, <1>3, <1>4, <1>5 DEF OrderStep, SaveOrder, CallInstance

LEMMA GameStage ==
  ASSUME Typed, NEW p \in Procs, Stage(p), GameStep(p)
  PROVE  Stage(p)' /\ Cascade(p)'
<1>0. proc \in [Procs -> Proc] /\ proc[p] \in Proc
  BY DEF Typed, ProcOK
<1>1. CASE End(p)
  BY <1>1, EndFacts, IdleStage
<1>2. CASE CreateGameAsset(p)
  <2>1. /\ Goto(p, "save") /\ proc[p].op = "create game" /\ asset' = asset \cup {proc[p].arg}
        /\ UNCHANGED gone
    BY <1>2 DEF CreateGameAsset, At, history
  <2>g. /\ proc'[p].op = proc[p].op /\ proc'[p].arg = proc[p].arg /\ proc'[p].pc = "save"
        /\ proc'[p].row = proc[p].row /\ proc'[p].todo = proc[p].todo
    BY <2>1, GotoFacts
  <2> QED BY <2>1, <2>g DEF Stage, Cascade, PayOps, Restores
<1>3. CASE UpdateGameAsset(p) /\ ~End(p)
  <2>1. Goto(p, "read") /\ proc[p].op = "update game"
    BY <1>3 DEF UpdateGameAsset, At
  <2>g. /\ proc'[p].op = proc[p].op /\ proc'[p].arg = proc[p].arg /\ proc'[p].pc = "read"
        /\ proc'[p].row = proc[p].row /\ proc'[p].todo = proc[p].todo
    BY <2>1, GotoFacts
  <2> QED BY <2>1, <2>g DEF Stage, Cascade, PayOps, Restores
<1>4. CASE UpdateGameRead(p) /\ ~End(p)
  <2>1. /\ proc' = [proc EXCEPT ![p].row = games[proc[p].arg], ![p].pc = "save"]
        /\ proc[p].op = "update game" /\ UNCHANGED games
    BY <1>4 DEF UpdateGameRead, At, controller
  <2>2. /\ proc'[p].op = proc[p].op /\ proc'[p].arg = proc[p].arg /\ proc'[p].row = games[proc[p].arg]
    BY <1>0, <2>1 DEF Proc
  <2> QED BY <2>1, <2>2 DEF Stage, Cascade, PayOps, Restores
<1>5. CASE SyncBranchesRead(p) /\ ~End(p)
  <2>1. Goto(p, "save") /\ proc[p].op = "sync" /\ UNCHANGED gone
    BY <1>5 DEF SyncBranchesRead, At, history
  <2>g. /\ proc'[p].op = proc[p].op /\ proc'[p].arg = proc[p].arg /\ proc'[p].pc = "save"
        /\ proc'[p].row = proc[p].row /\ proc'[p].todo = proc[p].todo
    BY <2>1, GotoFacts
  <2> QED BY <2>1, <2>g DEF Stage, Cascade, PayOps, Restores
<1> QED BY <1>1, <1>2, <1>3, <1>4, <1>5
        DEF GameStep, CreateGameSave, RegisterGameBuild, UpdateGameSave, SyncBranchesSave

LEMMA ShopStage ==
  ASSUME Typed, NEW p \in Procs, Stage(p), ShopStep(p)
  PROVE  Stage(p)' /\ Cascade(p)'
<1>1. CASE End(p)
  BY <1>1, EndFacts, IdleStage
<1>2. CASE UploadGameIcon(p) /\ ~End(p)
  <2>1. /\ Goto(p, "save") /\ proc[p].op = "icon" /\ games[proc[p].arg] # None /\ UNCHANGED games
    BY <1>2 DEF UploadGameIcon, At, controller
  <2>g. /\ proc'[p].op = proc[p].op /\ proc'[p].arg = proc[p].arg /\ proc'[p].pc = "save"
        /\ proc'[p].row = proc[p].row /\ proc'[p].todo = proc[p].todo
    BY <2>1, GotoFacts
  <2> QED BY <2>1, <2>g DEF Stage, Cascade, PayOps, Restores
<1>3. CASE ReadPlan(p) /\ ~End(p)
  <2>1. Goto(p, "save") /\ proc[p].op \in {"enable plan", "disable plan", "delete plan"}
    BY <1>3 DEF ReadPlan, At
  <2>g. /\ proc'[p].op = proc[p].op /\ proc'[p].arg = proc[p].arg /\ proc'[p].pc = "save"
        /\ proc'[p].row = proc[p].row /\ proc'[p].todo = proc[p].todo
    BY <2>1, GotoFacts
  <2> QED BY <2>1, <2>g DEF Stage, Cascade, PayOps, Restores
<1>4. CASE DeletePlanList(p)
  <2>1. PICK pc \in {"read", "delete"} : /\ Goto(p, pc)
                                         /\ pc = "delete" => \A s \in Subs : subs[s] # proc[p].arg
    BY <1>4 DEF DeletePlanList
  <2>2. proc[p].op = "delete plan" /\ UNCHANGED subs
    BY <1>4 DEF DeletePlanList, At, platform
  <2>g. /\ proc'[p].op = proc[p].op /\ proc'[p].arg = proc[p].arg /\ proc'[p].pc = pc
        /\ proc'[p].row = proc[p].row /\ proc'[p].todo = proc[p].todo
    BY <2>1, GotoFacts
  <2> QED BY <2>1, <2>2, <2>g DEF Stage, Cascade, PayOps, Restores
<1>5. CASE PurchaseRead(p) /\ ~End(p)
  <2>1. Goto(p, "save") /\ proc[p].op = "purchase" /\ plan[proc[p].arg] = "enabled" /\ UNCHANGED plan
    BY <1>5 DEF PurchaseRead, At, platform
  <2>g. /\ proc'[p].op = proc[p].op /\ proc'[p].arg = proc[p].arg /\ proc'[p].pc = "save"
        /\ proc'[p].row = proc[p].row /\ proc'[p].todo = proc[p].todo
    BY <2>1, GotoFacts
  <2> QED BY <2>1, <2>g DEF Stage, Cascade, PayOps, Restores
<1> QED BY <1>1, <1>2, <1>3, <1>4, <1>5
        DEF ShopStep, UpdateProfile, CreatePlan, SavePlan, DeletePlan, PurchaseSave

LEMMA DeleteStage ==
  ASSUME Typed, NEW p \in Procs, Cascade(p), DeleteStep(p)
  PROVE  Stage(p)' /\ Cascade(p)'
<1>0. proc \in [Procs -> Proc] /\ proc[p] \in Proc /\ proc[p].todo \subseteq Insts
      /\ insts \in [Insts -> InstRow \cup {None}] /\ games \in [Games -> GameRow \cup {None}]
      /\ profile \in [Games -> {"none", "enabled", "disabled"}]
  BY DEF Typed, ProcOK, Proc, ControllerOK, PlatformOK
<1>a. proc[p].op = "delete game" /\ proc[p].arg \in Games
  BY DEF DeleteStep, DeleteGameList, DeleteGameInstance, DeleteGameAsset, DeleteGameBranches,
         DeleteGameConfig, DeleteGameDropConfig, DeleteGameRow, DeleteGameProfile, MarkGameRemoved, At,
         Typed, ProcOK, Sound, ForGames
<1>1. CASE End(p)
  BY <1>1, EndFacts, IdleStage
<1>2. ASSUME proc'[p].op = "delete game" PROVE Stage(p)'
  BY <1>2 DEF Stage, PayOps, Restores
<1>3. CASE DeleteGameList(p) /\ ~End(p)
  <2>1. /\ proc' = [proc EXCEPT ![p].todo = InstancesOf(proc[p].arg), ![p].pc = "instances"]
        /\ torn' = torn \cup {proc[p].arg} /\ UNCHANGED insts
        /\ \A i \in InstancesOf(proc[p].arg) : insts[i].status # "active"
    BY <1>3 DEF DeleteGameList, controller
  <2>2. /\ proc'[p].op = proc[p].op /\ proc'[p].arg = proc[p].arg
        /\ proc'[p].todo = InstancesOf(proc[p].arg) /\ proc'[p].pc = "instances"
    BY <1>0, <2>1 DEF Proc
  <2>3. \A i \in InstancesOf(proc[p].arg) : insts[i].status = "stopped"
    BY <1>0, <2>1 DEF InstancesOf, InstRow
  <2>4. Cascade(p)'
    <3>1. proc'[p].arg \in torn' /\ UNCHANGED insts
      BY <2>1, <2>2
    <3>2. (InstancesOf(proc[p].arg))' = InstancesOf(proc[p].arg)
      BY <2>2, <3>1 DEF InstancesOf
    <3>3. proc'[p].pc \notin FromAsset
      BY <2>2 DEF FromAsset, FromBranches, FromConfig, FromProfile
    <3> QED BY <2>2, <2>3, <3>1, <3>2, <3>3 DEF Cascade, FromAsset, FromBranches, FromConfig, FromProfile
  <2> QED BY <1>2, <1>a, <2>2, <2>4
<1>4. CASE DeleteGameInstance(p)
  <2>0. proc[p].pc = "instances" /\ UNCHANGED torn
    BY <1>4 DEF DeleteGameInstance, At, history
  <2>1. ASSUME NEW i \in proc[p].todo, insts' = [insts EXCEPT ![i] = None],
               proc' = [proc EXCEPT ![p].todo = @ \ {i}]
        PROVE  Stage(p)' /\ Cascade(p)'
    <3>1. /\ proc'[p].op = proc[p].op /\ proc'[p].arg = proc[p].arg /\ proc'[p].pc = proc[p].pc
          /\ proc'[p].todo = proc[p].todo \ {i}
      BY <1>0, <2>1 DEF Proc
    <3>2. insts'[i] = None /\ \A j \in Insts \ {i} : insts'[j] = insts[j]
      BY <1>0, <2>1
    <3>3. Cascade(p)'
      BY <1>0, <1>a, <2>0, <3>1, <3>2, ZenonT(40) DEF Cascade, InstancesOf, FromAsset, FromBranches, FromConfig, FromProfile
    <3> QED BY <1>2, <1>a, <3>1, <3>3
  <2>2. CASE proc[p].todo = {} /\ Goto(p, "asset") /\ UNCHANGED insts
    <3>1. InstancesOf(proc[p].arg) = {}
      BY <1>a, <2>0, <2>2 DEF Cascade
    <3>g. /\ proc'[p].op = proc[p].op /\ proc'[p].arg = proc[p].arg /\ proc'[p].pc = "asset"
          /\ proc'[p].row = proc[p].row /\ proc'[p].todo = proc[p].todo
      BY <2>2, GotoFacts
    <3>2. Cascade(p)'
      BY <1>a, <2>0, <2>2, <3>1, <3>g DEF Cascade, InstancesOf, FromAsset, FromBranches, FromConfig, FromProfile
    <3> QED BY <1>2, <1>a, <2>2, <3>2, <3>g
  <2> QED BY <1>4, <2>1, <2>2 DEF DeleteGameInstance
<1>5. CASE DeleteGameAsset(p) /\ ~End(p)
  <2>1. /\ Goto(p, "branches") /\ asset' = asset \ {proc[p].arg} /\ proc[p].pc = "asset"
        /\ UNCHANGED <<insts, torn>>
    BY <1>5 DEF DeleteGameAsset, At, controller, history
  <2>g. /\ proc'[p].op = proc[p].op /\ proc'[p].arg = proc[p].arg /\ proc'[p].pc = "branches"
        /\ proc'[p].row = proc[p].row /\ proc'[p].todo = proc[p].todo
    BY <2>1, GotoFacts
  <2>2. Cascade(p)'
    BY <1>a, <2>1, <2>g DEF Cascade, InstancesOf, FromAsset, FromBranches, FromConfig, FromProfile
  <2> QED BY <1>2, <1>a, <2>1, <2>2, <2>g
<1>6. CASE DeleteGameBranches(p)
  <2>1. /\ Goto(p, "config") /\ branches' = branches \ {proc[p].arg} /\ proc[p].pc = "branches"
        /\ UNCHANGED <<insts, asset, torn>>
    BY <1>6 DEF DeleteGameBranches, At, assetService, history
  <2>g. /\ proc'[p].op = proc[p].op /\ proc'[p].arg = proc[p].arg /\ proc'[p].pc = "config"
        /\ proc'[p].row = proc[p].row /\ proc'[p].todo = proc[p].todo
    BY <2>1, GotoFacts
  <2>2. Cascade(p)'
    BY <1>a, <2>1, <2>g DEF Cascade, InstancesOf, FromAsset, FromBranches, FromConfig, FromProfile
  <2> QED BY <1>2, <1>a, <2>1, <2>2, <2>g
<1>7. CASE DeleteGameConfig(p)
  <2>0. proc[p].pc = "config" /\ UNCHANGED <<games, insts, branches, asset, torn>>
    BY <1>7 DEF DeleteGameConfig, At, controller, assetService, history
  <2>1. CASE Goto(p, "game")
    <3>g. /\ proc'[p].op = proc[p].op /\ proc'[p].arg = proc[p].arg /\ proc'[p].pc = "game"
          /\ proc'[p].row = proc[p].row /\ proc'[p].todo = proc[p].todo
      BY <2>1, GotoFacts
    <3>1. Cascade(p)'
      BY <1>a, <2>0, <2>1, <3>g DEF Cascade, InstancesOf, FromAsset, FromBranches, FromConfig, FromProfile
    <3> QED BY <1>2, <1>a, <2>1, <3>1, <3>g
  <2>2. CASE /\ proc' = [proc EXCEPT ![p].pc = "drop config", ![p].row = games[proc[p].arg]]
             /\ \A h \in Games \ {proc[p].arg} : games[h] # None => games[h].config # games[proc[p].arg].config
    <3>1. /\ proc'[p].op = proc[p].op /\ proc'[p].arg = proc[p].arg /\ proc'[p].pc = "drop config"
          /\ proc'[p].row = games[proc[p].arg]
      BY <1>0, <2>2 DEF Proc
    <3>2. Cascade(p)'
      <4>1. /\ proc[p].arg \in torn /\ InstancesOf(proc[p].arg) = {}
            /\ proc[p].arg \notin asset /\ proc[p].arg \notin branches
        BY <1>a, <2>0 DEF Cascade, FromAsset, FromBranches, FromConfig
      <4>2. (InstancesOf(proc[p].arg))' = InstancesOf(proc[p].arg)
        BY <2>0, <3>1 DEF InstancesOf
      <4>3. proc'[p].pc \notin FromProfile /\ proc'[p].pc # "instances"
        BY <3>1 DEF FromProfile
      <4>4. \A h \in Games \ {proc'[p].arg} : games'[h] # None => games'[h].config # proc'[p].row.config
        BY <2>0, <2>2, <3>1
      <4> QED BY <2>0, <3>1, <4>1, <4>2, <4>3, <4>4 DEF Cascade, FromProfile
    <3> QED BY <1>2, <1>a, <3>1, <3>2
  <2> QED BY <1>7, <2>1, <2>2 DEF DeleteGameConfig
<1>8. CASE DeleteGameDropConfig(p)
  <2>1. /\ Goto(p, "game") /\ proc[p].pc = "drop config" /\ UNCHANGED <<insts, branches, asset, torn>>
    BY <1>8 DEF DeleteGameDropConfig, At, assetService, history
  <2>g. /\ proc'[p].op = proc[p].op /\ proc'[p].arg = proc[p].arg /\ proc'[p].pc = "game"
        /\ proc'[p].row = proc[p].row /\ proc'[p].todo = proc[p].todo
    BY <2>1, GotoFacts
  <2>2. Cascade(p)'
    BY <1>a, <2>1, <2>g DEF Cascade, InstancesOf, FromAsset, FromBranches, FromConfig, FromProfile
  <2> QED BY <1>2, <1>a, <2>1, <2>2, <2>g
<1>9. CASE DeleteGameRow(p)
  <2>1. /\ Goto(p, "profile") /\ proc[p].pc = "game" /\ UNCHANGED <<insts, branches, asset, torn>>
        /\ games' = [games EXCEPT ![proc[p].arg] = None]
    BY <1>9 DEF DeleteGameRow, At, assetService, history
  <2>2. games'[proc[p].arg] = None
    BY <1>0, <1>a, <2>1
  <2>g. /\ proc'[p].op = proc[p].op /\ proc'[p].arg = proc[p].arg /\ proc'[p].pc = "profile"
        /\ proc'[p].row = proc[p].row /\ proc'[p].todo = proc[p].todo
    BY <2>1, GotoFacts
  <2>3. Cascade(p)'
    BY <1>a, <2>1, <2>2, <2>g DEF Cascade, InstancesOf, FromAsset, FromBranches, FromConfig, FromProfile
  <2> QED BY <1>2, <1>a, <2>1, <2>3, <2>g
<1>10. CASE DeleteGameProfile(p)
  <2>1. /\ Goto(p, "orders") /\ proc[p].pc = "profile" /\ UNCHANGED <<games, insts, branches, asset, torn>>
        /\ profile' = [profile EXCEPT ![proc[p].arg] = "none"]
    BY <1>10 DEF DeleteGameProfile, At, controller, assetService, history
  <2>2. profile'[proc[p].arg] = "none"
    BY <1>0, <1>a, <2>1
  <2>g. /\ proc'[p].op = proc[p].op /\ proc'[p].arg = proc[p].arg /\ proc'[p].pc = "orders"
        /\ proc'[p].row = proc[p].row /\ proc'[p].todo = proc[p].todo
    BY <2>1, GotoFacts
  <2>3. Cascade(p)'
    BY <1>a, <2>1, <2>2, <2>g DEF Cascade, InstancesOf, FromAsset, FromBranches, FromConfig, FromProfile
  <2> QED BY <1>2, <1>a, <2>1, <2>3, <2>g
<1> QED BY <1>1, <1>3, <1>4, <1>5, <1>6, <1>7, <1>8, <1>9, <1>10 DEF DeleteStep, MarkGameRemoved

LEMMA StagedStep ==
  ASSUME Typed, Alone, Staged, [Next]_vars
  PROVE  Staged'
<1> SUFFICES ASSUME ~mode.overlap, NEW q \in Procs PROVE Stage(q)' /\ Cascade(q)'
  BY AloneStep DEF Staged
<1>1. ASSUME NEW p \in Procs, Move(p) PROVE Stage(q)' /\ Cascade(q)'
  <2>1. CASE q # p
    BY <1>1, <2>1, Mover, IdleStage
  <2>2. CASE q = p
    <3>1. Stage(p) /\ Cascade(p)
      BY DEF Staged
    <3>2. CASE Fail(p)
      BY <2>2, <3>2, EndFacts, IdleStage DEF Fail
    <3> QED BY <1>1, <2>2, <3>1, <3>2, RequestStage, OrderStage, GameStage, DeleteStage, ShopStage DEF Move
  <2> QED BY <2>1, <2>2
<1>2. ASSUME NEW i \in Insts, InstanceFails(i) PROVE Stage(q)' /\ Cascade(q)'
  <2>1. /\ UNCHANGED <<proc, orders, gone, asset, games, plan, subs, torn, branches, profile>>
        /\ insts[i] # None /\ insts' = [insts EXCEPT ![i].status = "stopped"]
    BY <1>2 DEF InstanceFails, platform, assetService, history
  <2>2. Stage(q)'
    BY <2>1 DEF Stage, Staged
  <2>3. \A j \in Insts : /\ insts'[j] # None => insts[j] # None /\ insts'[j].game = insts[j].game
                         /\ insts'[j] # None => insts'[j].status \in {insts[j].status, "stopped"}
    BY <2>1 DEF Typed, ControllerOK, InstRow
  <2>4. proc[q].todo \subseteq Insts
    BY DEF Typed, ProcOK, Proc
  <2>5. (InstancesOf(proc[q].arg))' \subseteq InstancesOf(proc[q].arg)
    BY <2>1, <2>3 DEF InstancesOf
  <2>6. \A j \in proc[q].todo : (insts[j] # None => insts[j].status = "stopped")
                                  => (insts'[j] # None => insts'[j].status = "stopped")
    BY <2>3, <2>4
  <2>7. Cascade(q)
    BY DEF Staged
  <2>8. UNCHANGED <<proc, asset, games, torn, branches, profile>>
    BY <2>1
  <2>9. Cascade(q)'
    BY <2>5, <2>6, <2>7, <2>8 DEF Cascade
  <2> QED BY <2>2, <2>9
<1>3. ASSUME UNCHANGED vars PROVE Stage(q)' /\ Cascade(q)'
  BY <1>3 DEF vars, platform, controller, assetService, history, Stage, Cascade, Staged, InstancesOf
<1> QED BY <1>1, <1>2, <1>3, NextCases

LEMMA InitStaged == Init => Alone /\ Staged
BY IdleType DEF Init, Alone, Staged, Stage, Cascade, PayOps, Restores

LEMMA InvStep == Inv /\ [Next]_vars => Inv'
BY TypedStep, ThereStep, FreshStep, AloneStep, StagedStep DEF Inv

LEMMA InitInv == Init => Inv
BY InitTyped, InitFresh, InitStaged DEF Inv

\* What the mover knows.
LEMMA Known ==
  ASSUME Inv, ~mode.overlap, NEW p \in Procs
  PROVE  /\ proc[p] \in Proc /\ Sound(proc[p]) /\ Stage(p) /\ Cascade(p)
BY DEF Inv, Typed, ProcOK, Staged

-----------------------------------------------------------------------------
(* Plans.                                                                  *)

LEMMA PlanFrame ==
  ASSUME [Next]_vars
  PROVE  \/ UNCHANGED <<plan, subs>>
         \/ \E p \in Procs : CreatePlan(p) \/ SavePlan(p) \/ DeletePlan(p) \/ PurchaseSave(p)
<1>1. ASSUME NEW p \in Procs, Request(p) \/ OrderStep(p) \/ GameStep(p) \/ Fail(p) PROVE UNCHANGED <<plan, subs>>
  BY <1>1 DEF Request, CreateOrder, AskOrder, AskGame, AskPlan, Begin,
         OrderStep, ReadOrder, resolveBuild, CreateGameInstance, SaveOrder, ReadInstance, CallInstance,
         GameStep, CreateGameAsset, CreateGameSave, RegisterGameBuild, UpdateGameAsset,
         UpdateGameRead, UpdateGameSave, SyncBranchesRead, SyncBranchesSave, Fail, platform
<1>2. ASSUME NEW p \in Procs, DeleteStep(p) PROVE UNCHANGED <<plan, subs>>
  BY <1>2 DEF DeleteStep, DeleteGameList, DeleteGameInstance, DeleteGameAsset, DeleteGameBranches,
         DeleteGameConfig, DeleteGameDropConfig, DeleteGameRow, DeleteGameProfile, MarkGameRemoved, platform
<1>3. ASSUME NEW p \in Procs, ShopStep(p), ~CreatePlan(p), ~SavePlan(p), ~DeletePlan(p), ~PurchaseSave(p)
      PROVE  UNCHANGED <<plan, subs>>
  BY <1>3 DEF ShopStep, UploadGameIcon, UpdateProfile, ReadPlan, DeletePlanList, PurchaseRead, platform
<1>4. ASSUME UNCHANGED vars \/ \E i \in Insts : InstanceFails(i) PROVE UNCHANGED <<plan, subs>>
  BY <1>4 DEF InstanceFails, vars, platform
<1> QED BY <1>1, <1>2, <1>3, <1>4, NextCases DEF Move

LEMMA PlanKeptStep ==
  ASSUME Inv, PlanKept, [Next]_vars
  PROVE  PlanKept'
<1> SUFFICES ASSUME ~mode.overlap PROVE \A s \in Subs : subs'[s] # None => plan'[subs'[s]] # "none"
  BY AloneStep DEF PlanKept, Inv
<1>0. /\ plan \in [Plans -> {"none", "enabled", "disabled"}] /\ subs \in [Subs -> Plans \cup {None}]
      /\ \A s \in Subs : subs[s] # None => plan[subs[s]] # "none"
  BY DEF Inv, Typed, PlatformOK, PlanKept
<1>1. CASE UNCHANGED <<plan, subs>>
  BY <1>0, <1>1
<1>2. ASSUME NEW p \in Procs, CreatePlan(p) \/ SavePlan(p) PROVE \A s \in Subs : subs'[s] # None => plan'[subs'[s]] # "none"
  <2>1. UNCHANGED subs /\ \E st \in {"enabled", "disabled"} : plan' = [plan EXCEPT ![proc[p].arg] = st]
    BY <1>2 DEF CreatePlan, SavePlan
  <2> QED BY <1>0, <2>1
<1>3. ASSUME NEW p \in Procs, DeletePlan(p) PROVE \A s \in Subs : subs'[s] # None => plan'[subs'[s]] # "none"
  <2>1. UNCHANGED subs /\ plan' = [plan EXCEPT ![proc[p].arg] = "none"]
        /\ proc[p].op = "delete plan" /\ proc[p].pc = "delete"
    BY <1>3 DEF DeletePlan, At
  <2>2. \A s \in Subs : subs[s] # proc[p].arg
    BY <2>1, Known DEF Stage
  <2> QED BY <1>0, <2>1, <2>2
<1>4. ASSUME NEW p \in Procs, PurchaseSave(p) PROVE \A s \in Subs : subs'[s] # None => plan'[subs'[s]] # "none"
  <2>1. UNCHANGED plan /\ proc[p].op = "purchase" /\ proc[p].pc = "save"
        /\ \E s \in Subs : subs' = [subs EXCEPT ![s] = proc[p].arg]
    BY <1>4 DEF PurchaseSave, At
  <2>2. plan[proc[p].arg] # "none"
    BY <2>1, Known DEF Stage
  <2> QED BY <1>0, <2>1, <2>2
<1> QED BY <1>1, <1>2, <1>3, <1>4, PlanFrame

-----------------------------------------------------------------------------
(* Games, their configurations and their rows at asset_service.            *)

LEMMA GameFrame ==
  ASSUME [Next]_vars
  PROVE  \/ UNCHANGED <<games, configs, asset, torn>>
         \/ \E p \in Procs : \/ CreateGameAsset(p) \/ CreateGameSave(p) \/ UpdateGameSave(p)
                             \/ DeleteGameList(p) \/ DeleteGameAsset(p) \/ DeleteGameDropConfig(p)
                             \/ DeleteGameRow(p) \/ MarkGameRemoved(p)
<1>1. ASSUME NEW p \in Procs, Request(p) \/ OrderStep(p) \/ ShopStep(p) \/ Fail(p)
      PROVE  UNCHANGED <<games, configs, asset, torn>>
  BY <1>1 DEF Request, CreateOrder, AskOrder, AskGame, AskPlan, Begin,
         OrderStep, ReadOrder, resolveBuild, CreateGameInstance, SaveOrder, ReadInstance, CallInstance,
         ShopStep, UploadGameIcon, UpdateProfile, CreatePlan, ReadPlan, SavePlan, DeletePlanList,
         DeletePlan, PurchaseRead, PurchaseSave, Fail, controller, assetService, history
<1>2. ASSUME NEW p \in Procs, GameStep(p), ~CreateGameAsset(p), ~CreateGameSave(p), ~UpdateGameSave(p)
      PROVE  UNCHANGED <<games, configs, asset, torn>>
  BY <1>2 DEF GameStep, RegisterGameBuild, UpdateGameAsset, UpdateGameRead, SyncBranchesRead, SyncBranchesSave,
              controller, assetService, history
<1>3. ASSUME NEW p \in Procs, DeleteStep(p), ~DeleteGameList(p), ~DeleteGameAsset(p), ~DeleteGameDropConfig(p),
             ~DeleteGameRow(p), ~MarkGameRemoved(p)
      PROVE  UNCHANGED <<games, configs, asset, torn>>
  BY <1>3 DEF DeleteStep, DeleteGameInstance, DeleteGameBranches, DeleteGameConfig, DeleteGameProfile,
              controller, assetService, history
<1>4. ASSUME UNCHANGED vars \/ \E i \in Insts : InstanceFails(i) PROVE UNCHANGED <<games, configs, asset, torn>>
  BY <1>4 DEF InstanceFails, vars, controller, assetService, history
<1> QED BY <1>1, <1>2, <1>3, <1>4, NextCases DEF Move

LEMMA GamesKeptStep ==
  ASSUME Inv, AssetFirst, ConfigKept, [Next]_vars
  PROVE  AssetFirst' /\ ConfigKept'
<1> DEFINE First == \A g \in Games : games[g] # None => g \in asset \cup torn
           Kept == \A g \in Games : games[g] # None /\ games[g].config # None =>
                                      games[g].config \in configs \/ g \in torn
<1> SUFFICES ASSUME ~mode.overlap PROVE First' /\ Kept'
  BY AloneStep DEF AssetFirst, ConfigKept, Inv
<1>0. games \in [Games -> GameRow \cup {None}] /\ First /\ Kept
  BY DEF Inv, Typed, ControllerOK, AssetFirst, ConfigKept
<1>1. CASE UNCHANGED <<games, configs, asset, torn>>
  BY <1>0, <1>1
<1>2. ASSUME NEW p \in Procs, CreateGameAsset(p) PROVE First' /\ Kept'
  <2>1. UNCHANGED <<games, configs, torn>> /\ asset \subseteq asset'
    BY <1>2 DEF CreateGameAsset, controller, history
  <2> QED BY <1>0, <2>1
<1>3. ASSUME NEW p \in Procs, CreateGameSave(p) PROVE First' /\ Kept'
  <2>1. /\ games' = [games EXCEPT ![proc[p].arg] = [config |-> None]] /\ torn' = torn \ {proc[p].arg}
        /\ UNCHANGED <<configs, asset>> /\ proc[p].op = "create game" /\ proc[p].pc = "save"
    BY <1>3 DEF CreateGameSave, At, assetService
  <2>2. proc[p].arg \in Games /\ proc[p].arg \in asset
    BY <2>1, Known DEF Stage, Sound, ForGames
  <2>3. games'[proc[p].arg].config = None /\ \A g \in Games \ {proc[p].arg} : games'[g] = games[g]
    BY <1>0, <2>1, <2>2
  <2> QED BY <1>0, <2>1, <2>2, <2>3
<1>4. ASSUME NEW p \in Procs, UpdateGameSave(p) PROVE First' /\ Kept'
  <2>1. /\ games' = [games EXCEPT ![proc[p].arg] = proc[p].row]
        /\ UNCHANGED <<configs, asset, torn>> /\ proc[p].op = "update game" /\ proc[p].pc = "save"
    BY <1>4 DEF UpdateGameSave, At, assetService, history
  <2>2. proc[p].row = games[proc[p].arg]
    BY <2>1, Known DEF Stage
  <2>3. \A g \in Games : games'[g] = games[g]
    BY <1>0, <2>1, <2>2
  <2> QED BY <1>0, <2>1, <2>3
<1>5. ASSUME NEW p \in Procs, DeleteGameList(p) PROVE First' /\ Kept'
  <2>1. UNCHANGED <<games, configs, asset>> /\ torn \subseteq torn'
    BY <1>5 DEF DeleteGameList, controller, assetService
  <2> QED BY <1>0, <2>1
<1>6. ASSUME NEW p \in Procs, DeleteGameAsset(p) PROVE First' /\ Kept'
  <2>1. /\ UNCHANGED <<games, configs, torn>> /\ asset \ {proc[p].arg} \subseteq asset'
        /\ proc[p].op = "delete game" /\ proc[p].pc = "asset"
    BY <1>6 DEF DeleteGameAsset, At, controller, history
  <2>2. proc[p].arg \in torn
    BY <2>1, Known DEF Cascade, FromAsset
  <2> QED BY <1>0, <2>1, <2>2
<1>7. ASSUME NEW p \in Procs, DeleteGameDropConfig(p) PROVE First' /\ Kept'
  <2>1. /\ UNCHANGED <<games, asset, torn>> /\ configs \ {proc[p].row.config} \subseteq configs'
        /\ proc[p].op = "delete game" /\ proc[p].pc = "drop config"
    BY <1>7 DEF DeleteGameDropConfig, At, assetService, history
  <2>2. /\ proc[p].arg \in torn
        /\ \A h \in Games \ {proc[p].arg} : games[h] # None => games[h].config # proc[p].row.config
    BY <2>1, Known DEF Cascade, FromAsset, FromBranches, FromConfig
  <2> QED BY <1>0, <2>1, <2>2
<1>8. ASSUME NEW p \in Procs, DeleteGameRow(p) PROVE First' /\ Kept'
  <2>1. UNCHANGED <<configs, asset, torn>> /\ games' = [games EXCEPT ![proc[p].arg] = None]
    BY <1>8 DEF DeleteGameRow, assetService, history
  <2> QED BY <1>0, <2>1
<1>9. ASSUME NEW p \in Procs, MarkGameRemoved(p) PROVE First' /\ Kept'
  <2>1. /\ UNCHANGED <<games, configs, asset>> /\ torn' = torn \ {proc[p].arg}
        /\ proc[p].op = "delete game" /\ proc[p].pc = "orders"
    BY <1>9 DEF MarkGameRemoved, At, controller, assetService
  <2>2. games[proc[p].arg] = None
    BY <2>1, Known DEF Cascade, FromProfile
  <2> QED BY <1>0, <2>1, <2>2
<1> QED BY <1>1, <1>2, <1>3, <1>4, <1>5, <1>6, <1>7, <1>8, <1>9, GameFrame

\* CreateGame, UpdateGame, DeleteGame, DeletePlan and Purchase check before
\* they write, in several steps any of which may be the last: in sequence they
\* leave no reference to a row that is gone.
THEOREM ReferencesKept == Spec => []ReferencesHold
<1>1. Init => AssetFirst /\ ConfigKept /\ PlanKept
  BY DEF Init, AssetFirst, ConfigKept, PlanKept
<1>2. Inv /\ AssetFirst /\ ConfigKept /\ PlanKept /\ [Next]_vars => AssetFirst' /\ ConfigKept' /\ PlanKept'
  BY GamesKeptStep, PlanKeptStep
<1>3. Inv /\ AssetFirst /\ ConfigKept /\ PlanKept => ReferencesHold
  BY TypedIsType DEF Inv, ReferencesHold
<1> QED BY <1>1, <1>2, <1>3, InitInv, InvStep, PTL DEF Spec

-----------------------------------------------------------------------------
(* Instances without an order.                                             *)

\* A request that is about to save its order does so or fails.
LEMMA SavesEnd ==
  ASSUME Typed, NEW p \in Procs, Saves(p), Move(p)
  PROVE  SaveOrder(p) \/ Fail(p)
<1>1. proc[p].op \in {"pay", "provision"} /\ proc[p].pc = "save" /\ proc[p] # Idle
  BY IdleType DEF Saves, At, PayOps
<1>2. ~Request(p)
  BY <1>1 DEF Request, CreateOrder, AskOrder, AskGame, AskPlan, Begin
<1>3. OrderStep(p) => SaveOrder(p)
  BY <1>1 DEF OrderStep, ReadOrder, resolveBuild, CreateGameInstance, ReadInstance, CallInstance, At
<1>4. ~GameStep(p)
  BY <1>1 DEF GameStep, CreateGameAsset, CreateGameSave, RegisterGameBuild, UpdateGameAsset,
              UpdateGameRead, UpdateGameSave, SyncBranchesRead, SyncBranchesSave, At
<1>5. ~DeleteStep(p)
  BY <1>1 DEF DeleteStep, DeleteGameList, DeleteGameInstance, DeleteGameAsset, DeleteGameBranches,
              DeleteGameConfig, DeleteGameDropConfig, DeleteGameRow, DeleteGameProfile, MarkGameRemoved, At
<1>6. ~ShopStep(p)
  BY <1>1 DEF ShopStep, UploadGameIcon, UpdateProfile, CreatePlan, ReadPlan, SavePlan, DeletePlanList,
              DeletePlan, PurchaseRead, PurchaseSave, At
<1> QED BY <1>2, <1>3, <1>4, <1>5, <1>6 DEF Move

LEMMA LostFrame ==
  ASSUME [Next]_vars
  PROVE  lost' = lost \/ \E p \in Procs : Fail(p) \/ CreateGameInstance(p)
<1>1. ASSUME NEW p \in Procs, Request(p) \/ GameStep(p) \/ DeleteStep(p) \/ ShopStep(p) PROVE lost' = lost
  BY <1>1 DEF Request, CreateOrder, AskOrder, AskGame, AskPlan, Begin,
         GameStep, CreateGameAsset, CreateGameSave, RegisterGameBuild, UpdateGameAsset,
         UpdateGameRead, UpdateGameSave, SyncBranchesRead, SyncBranchesSave,
         DeleteStep, DeleteGameList, DeleteGameInstance, DeleteGameAsset, DeleteGameBranches,
         DeleteGameConfig, DeleteGameDropConfig, DeleteGameRow, DeleteGameProfile, MarkGameRemoved,
         ShopStep, UploadGameIcon, UpdateProfile, CreatePlan, ReadPlan, SavePlan, DeletePlanList,
         DeletePlan, PurchaseRead, PurchaseSave, history
<1>2. ASSUME NEW p \in Procs, OrderStep(p), ~CreateGameInstance(p) PROVE lost' = lost
  BY <1>2 DEF OrderStep, ReadOrder, resolveBuild, SaveOrder, ReadInstance, CallInstance, history
<1>3. ASSUME UNCHANGED vars \/ \E i \in Insts : InstanceFails(i) PROVE lost' = lost
  BY <1>3 DEF InstanceFails, vars, history
<1> QED BY <1>1, <1>2, <1>3, NextCases DEF Move

Owned(i) == \/ i \in lost
            \/ orders[insts[i].order].inst = i
            \/ \E p \in Procs : Saves(p) /\ proc[p].row.inst = i

LEMMA NoOrphanOwned == NoOrphan <=> (~mode.overlap => \A i \in Insts : insts[i] # None => Owned(i))
BY DEF NoOrphan, Owned, Saves, PayOps

LEMMA NoOrphanStep ==
  ASSUME Inv, NoOrphan, [Next]_vars
  PROVE  NoOrphan'
<1> SUFFICES ASSUME ~mode.overlap, NEW i \in Insts, insts'[i] # None PROVE Owned(i)'
  BY AloneStep, NoOrphanOwned DEF NoOrphan, Owned, Saves, PayOps, Inv
<1>0. /\ Typed /\ OrdersThere /\ Fresh
      /\ \A j \in Insts : insts[j] # None => insts[j].order \in Orders
      /\ orders \in [Orders -> OrderRow \cup {None}] /\ proc \in [Procs -> Proc]
      /\ \A p \in Procs : Saves(p) => proc[p].row.inst \in Insts /\ proc[p].arg \in Orders
  BY DEF Inv, Typed, ControllerOK, InstRow, PlatformOK, ProcOK, Saves, At, Sound
<1>a. insts[i] # None => Owned(i)
  BY NoOrphanOwned
<1>1. ASSUME NEW p \in Procs, Fail(p) PROVE Owned(i)'
  <2>1. /\ UNCHANGED <<orders, insts>> /\ \A q \in Procs \ {p} : proc'[q] = proc[q]
        /\ lost' = IF Saves(p) THEN lost \cup {proc[p].row.inst} ELSE lost
    BY <1>0, <1>1 DEF Fail, End, platform, controller, Saves, PayOps
  <2>2. insts[i] # None
    BY <2>1
  <2>3. CASE i \in lost
    BY <2>1, <2>3 DEF Owned
  <2>4. CASE orders[insts[i].order].inst = i
    BY <2>1, <2>4 DEF Owned
  <2>5. ASSUME NEW q \in Procs, Saves(q), proc[q].row.inst = i PROVE Owned(i)'
    <3>1. CASE q = p
      BY <2>1, <2>5, <3>1 DEF Owned
    <3>2. CASE q # p
      <4>1. Saves(q)' /\ proc'[q].row.inst = i
        BY <2>1, <2>5, <3>2 DEF Saves, At
      <4> QED BY <4>1 DEF Owned
    <3> QED BY <3>1, <3>2
  <2> QED BY <1>a, <2>2, <2>3, <2>4, <2>5 DEF Owned
<1>2. ASSUME NEW p \in Procs, CreateGameInstance(p) PROVE Owned(i)'
  <2>1. PICK n \in Insts :
          /\ insts[n] = None
          /\ insts' = [insts EXCEPT ![n] = [game |-> proc[p].row.game, status |-> "stopped", order |-> proc[p].arg]]
          /\ proc' = [proc EXCEPT ![p].row.inst = n, ![p].pc = "save"]
          /\ lost' = lost \ {n} /\ UNCHANGED orders
    BY <1>2 DEF CreateGameInstance, platform
  <2>2. /\ proc[p].op \in PayOps /\ proc[p].pc = "create" /\ proc[p].row \in OrderRow
    BY <1>0, <1>2 DEF CreateGameInstance, At, PayOps, Typed, ProcOK, Sound
  <2>3. /\ proc'[p].row.inst = n /\ proc'[p].pc = "save" /\ proc'[p].op = proc[p].op
        /\ \A q \in Procs \ {p} : proc'[q] = proc[q]
    BY <1>0, <2>1, <2>2 DEF Proc, OrderRow
  <2>4. CASE i = n
    <3>1. Saves(p)'
      BY <2>2, <2>3 DEF Saves, At
    <3> QED BY <2>3, <2>4, <3>1 DEF Owned
  <2>5. CASE i # n
    <3>1. insts'[i] = insts[i]
      BY <1>0, <2>1, <2>5 DEF Typed, ControllerOK
    <3>2. ~Saves(p) /\ \A q \in Procs \ {p} : Saves(q) => Saves(q)'
      BY <2>2, <2>3 DEF Saves, At
    <3>3. \A q \in Procs : Saves(q) => Saves(q)' /\ proc'[q].row.inst = proc[q].row.inst
      BY <2>3, <3>2
    <3> QED BY <1>a, <2>1, <2>5, <3>1, <3>3 DEF Owned
  <2> QED BY <2>4, <2>5
<1>3. ASSUME NEW p \in Procs, SaveOrder(p) PROVE Owned(i)'
  <2>1. Saves(p) /\ UNCHANGED <<insts, lost>> /\ proc[p].arg \in Orders
    BY <1>0, <1>3 DEF SaveOrder, Saves, PayOps, controller, history
  <2>2. proc[p].row \in OrderRow /\ proc[p].op \in PayOps /\ proc[p].pc = "save"
    BY <1>0, <2>1 DEF Saves, At, Typed, ProcOK, Sound
  <2>3. /\ orders'[proc[p].arg].inst = proc[p].row.inst
        /\ \A o \in Orders \ {proc[p].arg} : orders'[o] = orders[o]
    BY <1>0, <1>3, <2>1, <2>2 DEF SaveOrder, OrderRow
  <2>4. orders[proc[p].arg] # None /\ orders[proc[p].arg].inst = None
    <3>1. orders[proc[p].arg].status = "created" /\ orders[proc[p].arg] # None
      BY <1>0, <2>2, Known DEF Stage, OrdersThere
    <3> QED BY <1>0, <2>1, <3>1 DEF Fresh
  <2>5. insts[proc[p].row.inst] # None => insts[proc[p].row.inst].order = proc[p].arg
    BY <1>0, <2>1 DEF Fresh
  <2>6. \A q \in Procs : Saves(q) => q = p
    <3>1. \A q \in Procs \ {p} : proc[q] = Idle
      BY <1>3, Mover DEF Inv, Move, OrderStep
    <3> QED BY <3>1, IdleType DEF Saves, At, PayOps
  <2>7. i # None /\ insts[i] # None
    BY <2>1, StorefrontAssumption
  <2> QED BY <1>0, <1>a, <2>1, <2>3, <2>4, <2>5, <2>6, <2>7 DEF Owned
<1>4. ASSUME ~ \E p \in Procs : Fail(p) \/ CreateGameInstance(p) \/ SaveOrder(p) PROVE Owned(i)'
  <2>1. lost' = lost
    BY <1>4, LostFrame
  <2>2. \A q \in Procs : Saves(q) => proc'[q] = proc[q]
    <3>1. ASSUME NEW p \in Procs, Move(p) PROVE \A q \in Procs : Saves(q) => proc'[q] = proc[q]
      BY <1>0, <1>4, <3>1, SavesEnd, OnlyMover
    <3>2. ASSUME UNCHANGED vars \/ \E j \in Insts : InstanceFails(j)
          PROVE  \A q \in Procs : Saves(q) => proc'[q] = proc[q]
      BY <3>2 DEF InstanceFails, vars
    <3> QED BY <3>1, <3>2, NextCases
  <2>3. \A q \in Procs : Saves(q) => Saves(q)' /\ proc'[q].row.inst = proc[q].row.inst
    BY <2>2 DEF Saves, At
  <2>4. insts[i] # None /\ insts'[i].order = insts[i].order
        /\ orders'[insts[i].order].inst = orders[insts[i].order].inst
    <3>1. CASE Quiet
      BY <1>0, <3>1 DEF Quiet, KeepsInsts, KeepsOrders
    <3>2. ASSUME NEW p \in Procs, NEW o \in Orders, NEW g \in Games, CreateOrder(p, o, g)
          PROVE  /\ insts[i] # None /\ insts'[i].order = insts[i].order
                 /\ orders'[insts[i].order].inst = orders[insts[i].order].inst
      <4>1. UNCHANGED insts /\ orders[o] = None /\ \A q \in Orders \ {o} : orders'[q] = orders[q]
        BY <1>0, <3>2 DEF CreateOrder, controller
      <4>2. insts[i].order \in Orders \ {o}
        BY <1>0, <4>1 DEF OrdersThere
      <4> QED BY <4>1, <4>2
    <3> QED BY <1>0, <1>4, <3>1, <3>2, QuietSteps
  <2> QED BY <1>a, <2>1, <2>3, <2>4 DEF Owned
<1> QED BY <1>1, <1>2, <1>3, <1>4

\* Paying and provisioning: a paid order has an instance of its own, and,
\* when requests come one after the other, only a failed reply or save leaves
\* an instance no order names.
THEOREM InstancesAreOwned == Spec => []InstancesOwned
<1>1. Init => NoOrphan
  BY DEF Init, NoOrphan
<1>2. Inv /\ NoOrphan => InstancesOwned
  BY DEF Inv, Typed, Fresh, PaidHasInstance, InstancesOwned
<1>3. Inv /\ NoOrphan /\ [Next]_vars => NoOrphan'
  BY NoOrphanStep
<1> QED BY <1>1, <1>2, <1>3, InitInv, InvStep, PTL DEF Spec

-----------------------------------------------------------------------------
(* What becomes of an order and of an instance that runs.                  *)

LEMMA OrderPathStep ==
  ASSUME Inv, [Next]_vars, ~mode.overlap, NEW o \in Orders, orders[o] # None, orders'[o] # orders[o]
  PROVE  /\ orders[o].inst # None => orders'[o].inst = orders[o].inst
         /\ \/ orders[o].status = "created" /\ orders'[o].status \in {"paid", "provisioned", "removed"}
            \/ orders[o].status \in Open /\ orders'[o].status = "removed"
<1>0. /\ Typed /\ OrdersThere /\ Fresh /\ orders \in [Orders -> OrderRow \cup {None}]
  BY DEF Inv, Typed, PlatformOK
<1>1. CASE Quiet
  BY <1>1 DEF Quiet, KeepsOrders
<1>2. ASSUME NEW p \in Procs, NEW q \in Orders, NEW g \in Games, CreateOrder(p, q, g) PROVE FALSE
  BY <1>0, <1>2 DEF CreateOrder
<1>3. ASSUME NEW p \in Procs, CreateGameInstance(p) PROVE FALSE
  BY <1>3 DEF CreateGameInstance, platform
<1>4. ASSUME NEW p \in Procs, SaveOrder(p)
      PROVE  orders[o].status = "created" /\ orders'[o].status \in {"paid", "provisioned"} /\ orders[o].inst = None
  <2>1. proc[p].op \in PayOps /\ proc[p].pc = "save"
    BY <1>4 DEF SaveOrder, At, PayOps
  <2>2. proc[p].arg \in Orders /\ proc[p].row \in OrderRow /\ orders[proc[p].arg].status = "created"
    BY <2>1, Known DEF Sound, Stage
  <2>3. o = proc[p].arg
    BY <1>0, <1>4, <2>2 DEF SaveOrder
  <2>4. orders'[o].status = IF proc[p].op = "pay" THEN "paid" ELSE "provisioned"
    BY <1>0, <1>4, <2>2, <2>3 DEF SaveOrder, OrderRow
  <2> QED BY <1>0, <2>2, <2>3, <2>4 DEF Fresh
<1> QED BY <1>0, <1>1, <1>2, <1>3, <1>4, QuietSteps

\* PayOrder, ProvisionOrder and MarkGameRemoved in sequence: no order goes
\* back, none is paid twice, none loses the instance it was paid for.
THEOREM OrdersGoForward == Spec => OrderPath
<1>1. Inv /\ [Next]_vars
        => [~mode.overlap => \A o \in Orders :
              orders[o] # None /\ orders'[o] # orders[o] =>
                /\ orders[o].inst # None => orders'[o].inst = orders[o].inst
                /\ \/ orders[o].status = "created" /\ orders'[o].status \in {"paid", "provisioned", "removed"}
                   \/ orders[o].status \in Open /\ orders'[o].status = "removed"]_vars
  BY OrderPathStep
<1> QED BY <1>1, InitInv, InvStep, PTL DEF Spec, OrderPath

LEMMA RunningStep ==
  ASSUME Inv, [Next]_vars, ~mode.overlap, NEW i \in Insts, insts[i] # None, insts[i].status = "active"
  PROVE  insts'[i] # None
<1>0. /\ insts \in [Insts -> InstRow \cup {None}] /\ insts' \in [Insts -> InstRow \cup {None}]
      /\ insts[i] \in InstRow
  BY InvStep DEF Inv, Typed, ControllerOK
<1>1. ASSUME NEW p \in Procs, DeleteGameInstance(p) PROVE insts'[i] # None
  <2>1. CASE UNCHANGED insts
    BY <2>1
  <2>2. ASSUME NEW j \in proc[p].todo, insts' = [insts EXCEPT ![j] = None] PROVE insts'[i] # None
    <3>1. insts[j] # None => insts[j].status = "stopped"
      BY <1>1, <2>2, Known DEF DeleteGameInstance, At, Cascade
    <3> QED BY <1>0, <2>2, <3>1
  <2> QED BY <1>1, <2>1, <2>2 DEF DeleteGameInstance
<1>2. ASSUME NEW p \in Procs, CallInstance(p) PROVE insts'[i] # None
  <2>1. \A st \in {"active", "stopped"} : \A r \in InstRow : [r EXCEPT !.status = st] \in InstRow
    BY DEF InstRow
  <2>2. proc[p].row.inst = i \/ insts'[i] = insts[i]
    BY <1>0, <1>2 DEF CallInstance
  <2>3. proc[p].row.inst = i => \E st \in {"active", "stopped"} : insts'[i] = [insts[i] EXCEPT !.status = st]
    BY <1>0, <1>2 DEF CallInstance
  <2> QED BY <1>0, <2>1, <2>2, <2>3, StorefrontAssumption
<1>3. ASSUME NEW j \in Insts, InstanceFails(j) PROVE insts'[i] # None
  <2>1. \A r \in InstRow : [r EXCEPT !.status = "stopped"] \in InstRow
    BY DEF InstRow
  <2>2. insts'[i] = insts[i] \/ insts'[i] = [insts[i] EXCEPT !.status = "stopped"]
    BY <1>0, <1>3 DEF InstanceFails
  <2> QED BY <1>0, <2>1, <2>2, StorefrontAssumption
<1>4. ASSUME NEW p \in Procs, CreateGameInstance(p) PROVE insts'[i] # None
  <2>1. PICK n \in Insts : insts[n] = None
          /\ insts' = [insts EXCEPT ![n] = [game |-> proc[p].row.game, status |-> "stopped", order |-> proc[p].arg]]
    BY <1>4 DEF CreateGameInstance
  <2> QED BY <1>0, <2>1
<1>5. ASSUME NEW p \in Procs, Move(p), ~DeleteGameInstance(p), ~CallInstance(p), ~CreateGameInstance(p)
      PROVE  UNCHANGED insts
  <2>1. CASE Request(p) \/ OrderStep(p) \/ Fail(p)
    BY <1>5, <2>1 DEF Request, CreateOrder, AskOrder, AskGame, AskPlan, Begin,
                      OrderStep, ReadOrder, resolveBuild, SaveOrder, ReadInstance, Fail, controller
  <2>2. CASE GameStep(p) \/ ShopStep(p)
    BY <2>2 DEF GameStep, CreateGameAsset, CreateGameSave, RegisterGameBuild, UpdateGameAsset,
                UpdateGameRead, UpdateGameSave, SyncBranchesRead, SyncBranchesSave,
                ShopStep, UploadGameIcon, UpdateProfile, CreatePlan, ReadPlan, SavePlan, DeletePlanList,
                DeletePlan, PurchaseRead, PurchaseSave, controller
  <2>3. CASE DeleteStep(p)
    BY <1>5, <2>3 DEF DeleteStep, DeleteGameList, DeleteGameAsset, DeleteGameBranches, DeleteGameConfig,
                      DeleteGameDropConfig, DeleteGameRow, DeleteGameProfile, MarkGameRemoved, controller
  <2> QED BY <1>5, <2>1, <2>2, <2>3 DEF Move
<1>6. CASE UNCHANGED vars
  BY <1>6 DEF vars, controller
<1> QED BY <1>1, <1>2, <1>3, <1>4, <1>5, <1>6, NextCases

\* DeleteGame in sequence with the other requests takes no instance that
\* runs, whatever the dispatcher does between the list and the deletes.
THEOREM RunningIsKept == Spec => RunningKept
<1>1. Inv /\ [Next]_vars
        => [~mode.overlap => \A i \in Insts : insts[i] # None /\ insts[i].status = "active" => insts'[i] # None]_vars
  BY RunningStep
<1> QED BY <1>1, InitInv, InvStep, PTL DEF Spec, RunningKept

-----------------------------------------------------------------------------
(* What is left of a game that was deleted.                                *)

LEMMA GoneFrame ==
  ASSUME [Next]_vars
  PROVE  gone' \subseteq gone \/ \E p \in Procs : MarkGameRemoved(p)
<1>1. ASSUME NEW p \in Procs, Request(p) \/ OrderStep(p) \/ Fail(p) PROVE gone' \subseteq gone
  BY <1>1 DEF Request, CreateOrder, AskOrder, AskGame, AskPlan, Begin,
         OrderStep, ReadOrder, resolveBuild, CreateGameInstance, SaveOrder, ReadInstance, CallInstance, Fail, history
<1>2. ASSUME NEW p \in Procs, GameStep(p) \/ ShopStep(p) PROVE gone' \subseteq gone
  BY <1>2 DEF GameStep, CreateGameAsset, CreateGameSave, RegisterGameBuild, UpdateGameAsset,
         UpdateGameRead, UpdateGameSave, SyncBranchesRead, SyncBranchesSave,
         ShopStep, UploadGameIcon, UpdateProfile, CreatePlan, ReadPlan, SavePlan, DeletePlanList,
         DeletePlan, PurchaseRead, PurchaseSave, history
<1>3. ASSUME NEW p \in Procs, DeleteStep(p), ~MarkGameRemoved(p) PROVE gone' \subseteq gone
  BY <1>3 DEF DeleteStep, DeleteGameList, DeleteGameInstance, DeleteGameAsset, DeleteGameBranches,
         DeleteGameConfig, DeleteGameDropConfig, DeleteGameRow, DeleteGameProfile, history
<1>4. ASSUME UNCHANGED vars \/ \E i \in Insts : InstanceFails(i) PROVE gone' \subseteq gone
  BY <1>4 DEF InstanceFails, vars, history
<1> QED BY <1>1, <1>2, <1>3, <1>4, NextCases DEF Move

LEMMA ProfileFrame ==
  ASSUME [Next]_vars
  PROVE  \/ UNCHANGED <<branches, profile>>
         \/ \E p \in Procs : SyncBranchesSave(p) \/ DeleteGameBranches(p) \/ DeleteGameProfile(p) \/ UpdateProfile(p)
<1>1. ASSUME NEW p \in Procs, Request(p) \/ OrderStep(p) \/ Fail(p) PROVE UNCHANGED <<branches, profile>>
  BY <1>1 DEF Request, CreateOrder, AskOrder, AskGame, AskPlan, Begin, OrderStep, ReadOrder, resolveBuild,
         CreateGameInstance, SaveOrder, ReadInstance, CallInstance, Fail, platform, controller
<1>2. ASSUME NEW p \in Procs, GameStep(p) \/ ShopStep(p), ~SyncBranchesSave(p), ~UpdateProfile(p)
      PROVE  UNCHANGED <<branches, profile>>
  BY <1>2 DEF GameStep, CreateGameAsset, CreateGameSave, RegisterGameBuild, UpdateGameAsset,
         UpdateGameRead, UpdateGameSave, SyncBranchesRead,
         ShopStep, UploadGameIcon, CreatePlan, ReadPlan, SavePlan, DeletePlanList,
         DeletePlan, PurchaseRead, PurchaseSave, platform, controller
<1>3. ASSUME NEW p \in Procs, DeleteStep(p), ~DeleteGameBranches(p), ~DeleteGameProfile(p)
      PROVE  UNCHANGED <<branches, profile>>
  BY <1>3 DEF DeleteStep, DeleteGameList, DeleteGameInstance, DeleteGameAsset, MarkGameRemoved,
         DeleteGameConfig, DeleteGameDropConfig, DeleteGameRow, platform, controller
<1>4. ASSUME UNCHANGED vars \/ \E i \in Insts : InstanceFails(i) PROVE UNCHANGED <<branches, profile>>
  BY <1>4 DEF InstanceFails, vars, platform, controller
<1> QED BY <1>1, <1>2, <1>3, <1>4, NextCases DEF Move

\* Nothing of a game: its rows, its instances, its open orders.
NoRows(g) == games[g] = None /\ g \notin asset
NoExtras(g) == g \notin branches /\ profile[g] = "none"
NoInstances(g) == \A i \in Insts : insts[i] # None => insts[i].game # g
NoOrders(g) == \A o \in Orders : orders[o] # None /\ orders[o].game = g => orders[o].status \notin Open
Bare(g) == NoRows(g) /\ NoExtras(g) /\ NoInstances(g) /\ NoOrders(g)
GoneBare == gone \subseteq Games /\ (~mode.overlap => \A g \in gone : Bare(g))

LEMMA NoRowsStep ==
  ASSUME Inv, [Next]_vars, ~mode.overlap, NEW g \in gone, g \in Games, NoRows(g)
  PROVE  NoRows(g)'
<1>0. games \in [Games -> GameRow \cup {None}] /\ games[g] = None /\ g \notin asset
  BY DEF Inv, Typed, ControllerOK, NoRows
<1>1. CASE UNCHANGED <<games, configs, asset, torn>>
  BY <1>0, <1>1 DEF NoRows
<1>2. ASSUME NEW p \in Procs, CreateGameAsset(p) \/ CreateGameSave(p) PROVE NoRows(g)'
  <2>1. proc[p].op = "create game"
    BY <1>2 DEF CreateGameAsset, CreateGameSave, At
  <2>2. g # proc[p].arg
    BY <2>1, Known DEF Stage, Restores
  <2> QED BY <1>0, <1>2, <2>2 DEF CreateGameAsset, CreateGameSave, controller, assetService, NoRows
<1>3. ASSUME NEW p \in Procs, UpdateGameSave(p) PROVE NoRows(g)'
  <2>1. proc[p].row = games[proc[p].arg]
    BY <1>3, Known DEF UpdateGameSave, At, Stage
  <2> QED BY <1>0, <1>3, <2>1 DEF UpdateGameSave, assetService, NoRows
<1>4. ASSUME NEW p \in Procs, DeleteGameList(p) \/ DeleteGameAsset(p) \/ DeleteGameDropConfig(p) \/ MarkGameRemoved(p)
      PROVE  NoRows(g)'
  <2>1. UNCHANGED games /\ asset' \subseteq asset
    BY <1>4 DEF DeleteGameList, DeleteGameAsset, DeleteGameDropConfig, MarkGameRemoved, controller, assetService
  <2> QED BY <1>0, <2>1 DEF NoRows
<1>5. ASSUME NEW p \in Procs, DeleteGameRow(p) PROVE NoRows(g)'
  BY <1>0, <1>5 DEF DeleteGameRow, assetService, NoRows
<1> QED BY <1>1, <1>2, <1>3, <1>4, <1>5, GameFrame

LEMMA NoExtrasStep ==
  ASSUME Inv, [Next]_vars, ~mode.overlap, NEW g \in gone, g \in Games, NoRows(g), NoExtras(g)
  PROVE  NoExtras(g)'
<1>0. profile \in [Games -> {"none", "enabled", "disabled"}] /\ g \notin branches /\ profile[g] = "none"
  BY DEF Inv, Typed, PlatformOK, NoExtras
<1>1. CASE UNCHANGED <<branches, profile>>
  BY <1>0, <1>1 DEF NoExtras
<1>2. ASSUME NEW p \in Procs, SyncBranchesSave(p) PROVE NoExtras(g)'
  <2>1. g # proc[p].arg
    BY <1>2, Known DEF SyncBranchesSave, At, Stage, Restores
  <2> QED BY <1>0, <1>2, <2>1 DEF SyncBranchesSave, platform, NoExtras
<1>3. ASSUME NEW p \in Procs, DeleteGameBranches(p) \/ DeleteGameProfile(p) PROVE NoExtras(g)'
  BY <1>0, <1>3 DEF DeleteGameBranches, DeleteGameProfile, platform, controller, NoExtras
<1>4. ASSUME NEW p \in Procs, UpdateProfile(p) PROVE NoExtras(g)'
  <2>1. proc[p].op \in {"enable", "disable", "icon"} /\ proc[p].pc = "save"
    BY <1>4 DEF UpdateProfile, At
  <2>2. g # proc[p].arg
    BY <2>1, Known DEF Stage, Restores, NoRows
  <2> QED BY <1>0, <1>4, <2>2 DEF UpdateProfile, controller, NoExtras
<1> QED BY <1>1, <1>2, <1>3, <1>4, ProfileFrame

LEMMA NoInstancesStep ==
  ASSUME Inv, [Next]_vars, ~mode.overlap, NEW g \in gone, g \in gone', NoInstances(g), NoOrders(g)
  PROVE  NoInstances(g)' /\ NoOrders(g)'
<1>0. /\ Typed /\ OrdersThere
      /\ orders \in [Orders -> OrderRow \cup {None}] /\ insts \in [Insts -> InstRow \cup {None}]
  BY DEF Inv, Typed, PlatformOK, ControllerOK
<1>1. CASE Quiet
  BY <1>1 DEF Quiet, KeepsInsts, KeepsOrders, NoInstances, NoOrders, Open
<1>2. ASSUME NEW p \in Procs, NEW o \in Orders, NEW h \in Games, CreateOrder(p, o, h)
      PROVE  NoInstances(g)' /\ NoOrders(g)'
  <2>1. g # h /\ UNCHANGED insts /\ orders' = [orders EXCEPT ![o] = [game |-> h, status |-> "created", inst |-> None]]
    BY <1>2 DEF CreateOrder, controller
  <2>2. orders'[o].game # g /\ \A q \in Orders \ {o} : orders'[q] = orders[q]
    BY <1>0, <2>1
  <2> QED BY <2>1, <2>2 DEF NoInstances, NoOrders
<1>3. ASSUME NEW p \in Procs, At(p, PayOps, "create") \/ At(p, PayOps, "save")
      PROVE  /\ proc[p].arg \in Orders /\ orders[proc[p].arg] # None
             /\ proc[p].row \in OrderRow /\ proc[p].row.game # g
  <2>1. proc[p].op \in PayOps /\ proc[p].pc # "read"
    BY <1>3 DEF At
  <2>2. /\ proc[p].arg \in Orders /\ orders[proc[p].arg] # None /\ proc[p].row \in OrderRow
        /\ orders[proc[p].arg].status = "created" /\ orders[proc[p].arg].game = proc[p].row.game
    BY <1>0, <2>1, Known DEF Sound, Stage, OrdersThere
  <2> QED BY <2>2 DEF NoOrders, Open
<1>4. ASSUME NEW p \in Procs, CreateGameInstance(p) PROVE NoInstances(g)' /\ NoOrders(g)'
  <2>1. PICK n \in Insts :
          insts' = [insts EXCEPT ![n] = [game |-> proc[p].row.game, status |-> "stopped", order |-> proc[p].arg]]
    BY <1>4 DEF CreateGameInstance
  <2>2. At(p, PayOps, "create") /\ UNCHANGED orders
    BY <1>4 DEF CreateGameInstance, platform, PayOps
  <2>3. insts'[n].game # g /\ \A i \in Insts \ {n} : insts'[i] = insts[i]
    BY <1>0, <1>3, <2>1, <2>2
  <2> QED BY <2>2, <2>3 DEF NoInstances, NoOrders
<1>5. ASSUME NEW p \in Procs, SaveOrder(p) PROVE NoInstances(g)' /\ NoOrders(g)'
  <2>1. At(p, PayOps, "save") /\ UNCHANGED insts
    BY <1>5 DEF SaveOrder, controller, PayOps
  <2>2. orders'[proc[p].arg].game = proc[p].row.game /\ \A q \in Orders \ {proc[p].arg} : orders'[q] = orders[q]
    BY <1>0, <1>3, <1>5, <2>1 DEF SaveOrder, OrderRow
  <2> QED BY <1>3, <2>1, <2>2 DEF NoInstances, NoOrders
<1> QED BY <1>0, <1>1, <1>2, <1>4, <1>5, QuietSteps

\* The end of the cascade.
LEMMA MarkBare ==
  ASSUME Inv, ~mode.overlap, NEW p \in Procs, MarkGameRemoved(p), NEW g, g = proc[p].arg
  PROVE  Bare(g)'
<1>1. proc[p].op = "delete game" /\ proc[p].pc = "orders"
  BY DEF MarkGameRemoved, At
<1>2. g \in Games /\ games[g] = None /\ g \notin asset /\ g \notin branches /\ profile[g] = "none" /\ InstancesOf(g) = {}
  BY <1>1, Known DEF Sound, ForGames, Cascade, FromAsset, FromBranches, FromConfig, FromProfile
<1>3. UNCHANGED <<games, asset, branches, profile, insts>>
  BY DEF MarkGameRemoved, controller, assetService
<1>4. NoInstances(g)'
  BY <1>2, <1>3 DEF InstancesOf, NoInstances
<1>5. ASSUME NEW o \in Orders, orders'[o] # None, orders'[o].game = g PROVE orders'[o].status \notin Open
  <2>1. orders[o] \in OrderRow \cup {None}
    BY DEF Inv, Typed, PlatformOK
  <2>2. orders'[o] = IF orders[o] # None /\ orders[o].game = g /\ orders[o].status \in Open
                     THEN [orders[o] EXCEPT !.status = "removed"] ELSE orders[o]
    BY DEF MarkGameRemoved
  <2> QED BY <1>5, <2>1, <2>2 DEF OrderRow, Open
<1> QED BY <1>2, <1>3, <1>4, <1>5 DEF Bare, NoRows, NoExtras, NoOrders

LEMMA GoneStep ==
  ASSUME Inv, GoneBare, [Next]_vars
  PROVE  GoneBare'
<1>1. gone' \subseteq Games
  <2>1. ASSUME NEW p \in Procs, MarkGameRemoved(p) PROVE gone' \subseteq Games
    BY <2>1 DEF MarkGameRemoved, At, Inv, Typed, ProcOK, Sound, ForGames, GoneBare
  <2> QED BY <2>1, GoneFrame DEF GoneBare
<1>2. ASSUME ~mode.overlap, NEW g \in gone' PROVE Bare(g)'
  <2>1. CASE g \in gone
    BY <1>2, <2>1, NoRowsStep, NoExtrasStep, NoInstancesStep DEF GoneBare, Bare
  <2>2. CASE g \notin gone
    <3>1. PICK p \in Procs : MarkGameRemoved(p)
      BY <2>2, GoneFrame
    <3>2. g = proc[p].arg
      BY <2>2, <3>1 DEF MarkGameRemoved
    <3> QED BY <1>2, <3>1, <3>2, MarkBare
  <2> QED BY <2>1, <2>2
<1> QED BY <1>1, <1>2, AloneStep DEF GoneBare, Inv

\* DeleteGame that fails anywhere and is repeated until it succeeds leaves no
\* row, no instance and no open order of the game; none comes back unless
\* somebody asks for one.
THEOREM DeletedGamesAreGone == Spec => []DeletedIsGone
<1>1. Init => GoneBare
  BY DEF Init, GoneBare
<1>2. GoneBare => DeletedIsGone
  BY DEF GoneBare, Bare, NoRows, NoExtras, NoInstances, NoOrders, DeletedIsGone, InstancesOf
<1>3. Inv /\ GoneBare /\ [Next]_vars => GoneBare'
  BY GoneStep
<1> QED BY <1>1, <1>2, <1>3, InitInv, InvStep, PTL DEF Spec
=============================================================================
