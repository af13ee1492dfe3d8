------------------------------ MODULE WorkPool ------------------------------
(***************************************************************************)
(* What the reconcile dispatcher's queue promises its callers: a pool of   *)
(* instances waiting for the one consumer goroutine.  An instance handed   *)
(* to the dispatcher is neither lost nor duplicated; no order is promised. *)
(* DispatchQueue, the channel plus overflow buffer of                      *)
(* reconcile_dispatcher.go, is shown to implement this specification.      *)
(***************************************************************************)
CONSTANTS Items,    \* the in-memory instance objects (pointers)
          NoItem    \* "no object"

VARIABLES outside,  \* objects held by API handlers, pollers and the waker
          pool,     \* objects accepted by the dispatcher and not yet taken
          hand      \* the object the consumer is dispatching, or NoItem

wvars == <<outside, pool, hand>>

Init == /\ outside = Items
        /\ pool = {}
        /\ hand = NoItem

\* A caller's RequestDispatch or ForceDispatch is accepted.
Submit(x) == /\ x \in outside
             /\ outside' = outside \ {x}
             /\ pool' = pool \cup {x}
             /\ UNCHANGED hand

\* The consumer takes any waiting object.
Take(x) == /\ hand = NoItem
           /\ x \in pool
           /\ pool' = pool \ {x}
           /\ hand' = x
           /\ UNCHANGED outside

\* The handler re-queues the object it is working on.
Resubmit == /\ hand # NoItem
            /\ pool' = pool \cup {hand}
            /\ hand' = NoItem
            /\ UNCHANGED outside

\* The handler is done with the object, or has passed it to a poller.
Return == /\ hand # NoItem
          /\ outside' = outside \cup {hand}
          /\ hand' = NoItem
          /\ UNCHANGED pool

Next == \/ \E x \in Items : Submit(x) \/ Take(x)
        \/ Resubmit
        \/ Return

Spec == Init /\ [][Next]_wvars
=============================================================================
