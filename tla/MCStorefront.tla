---------------------------- MODULE MCStorefront ----------------------------
(***************************************************************************)
(* Two games that share a configuration and two orders.  Each kind of      *)
(* behaviour has the requests that meet in the same rows: orders and the   *)
(* deletion of their game; games, their branches and profiles; plans and   *)
(* purchases.  Orders and plans also with two requests at a time.          *)
(***************************************************************************)
EXTENDS Storefront

OrderOps == {"create order", "pay", "start", "stop", "delete game"}
GameOps == {"create game", "register build", "update game", "sync", "delete game"}
CatalogOps == {"create game", "delete game", "icon", "enable", "disable"}
PlanOps == {"create plan", "enable plan", "disable plan", "delete plan", "purchase"}

MCModes ==
  [overlap : {FALSE}, sql : BOOLEAN, ops : {OrderOps, GameOps, CatalogOps}]
  \cup [overlap : BOOLEAN, sql : {FALSE}, ops : {{"create order", "pay", "provision"}, PlanOps}]
  \cup [overlap : {TRUE}, sql : {FALSE}, ops : {{"create order", "pay", "delete game"}}]

MCSymmetry == Permutations(Games) \cup Permutations(Orders) \cup Permutations(Insts)
              \cup Permutations(Procs) \cup Permutations(Subs) \cup Permutations(Plans)
=============================================================================
