--------------------------- MODULE MCSubscription ---------------------------
(* Two subscriptions, of a plan for two instances and of one for a single. *)
EXTENDS Subscription

MCSubs == {"s", "t"}
MCMaxInstances == [s |-> 2, t |-> 1]
=============================================================================
