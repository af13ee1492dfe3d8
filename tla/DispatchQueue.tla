---------------------------- MODULE DispatchQueue ----------------------------
(***************************************************************************)
(* The dispatch queue of ReconcileDispatcher (controller-go/internal/biz/  *)
(* reconcile_dispatcher.go): a channel of capacity QueueCap, an overflow   *)
(* slice for requests that find the channel full, callers that enqueue     *)
(* through RequestDispatch (never blocking) or ForceDispatch (blocking),   *)
(* and one consumer goroutine that looks at the overflow slice first and   *)
(* otherwise blocks on the channel.                                        *)
(*                                                                         *)
(* The try-send and the append to the overflow slice are two steps: no     *)
(* lock covers both.  So are the consumer's look at the overflow slice and *)
(* its receive from the channel.                                           *)
(***************************************************************************)
EXTENDS Naturals, Sequences, Functions

CONSTANTS Items,     \* instance objects; an object is in one place at a time
          Senders,   \* goroutines calling RequestDispatch or ForceDispatch
          QueueCap,  \* capacity of the channel (100 in the code)
          NoItem     \* "no object"

ASSUME QueueAssumption == /\ QueueCap \in Nat \ {0}
                          /\ NoItem \notin Items

VARIABLES queue,     \* the channel's buffer
          overflow,  \* the overflow slice
          sender,    \* sender[p]: where p is in its call, and the object it holds
          cons,      \* where the consumer is, and the object it holds
          outside,   \* objects nobody has handed to the dispatcher
          ctx        \* the context of Start: "live", or "done" once cancelled

vars == <<queue, overflow, sender, cons, outside, ctx>>

Idle == [pc |-> "idle", item |-> NoItem]

Init == /\ queue = <<>>
        /\ overflow = <<>>
        /\ sender = [p \in Senders |-> Idle]
        /\ cons = [pc |-> "check", item |-> NoItem]
        /\ outside = Items
        /\ ctx = "live"
-----------------------------------------------------------------------------
\* RequestDispatch: a non-blocking send; a full channel sends the caller to
\* the default branch, whose append is the step AppendOverflow.
RequestDispatch(p, x) ==
  /\ sender[p].pc = "idle"
  /\ x \in outside
  /\ outside' = outside \ {x}
  /\ \/ /\ Len(queue) < QueueCap
        /\ queue' = Append(queue, x)
        /\ UNCHANGED sender
     \/ /\ Len(queue) = QueueCap
        /\ sender' = [sender EXCEPT ![p] = [pc |-> "full", item |-> x]]
        /\ UNCHANGED queue
  /\ UNCHANGED <<overflow, cons, ctx>>

\* Mutant: the default branch returns without the append.
AppendOverflowLost(p) ==
  /\ sender[p].pc = "full"
  /\ sender' = [sender EXCEPT ![p] = Idle]
  /\ UNCHANGED <<queue, overflow, cons, outside, ctx>>

AppendOverflow(p) ==
  /\ sender[p].pc = "full"
  /\ overflow' = Append(overflow, sender[p].item)
  /\ sender' = [sender EXCEPT ![p] = Idle]
  /\ UNCHANGED <<queue, cons, outside, ctx>>

\* ForceDispatch: a plain channel send, which blocks while the channel is full.
ForceDispatch(p, x) ==
  /\ sender[p].pc = "idle"
  /\ x \in outside
  /\ outside' = outside \ {x}
  /\ sender' = [sender EXCEPT ![p] = [pc |-> "force", item |-> x]]
  /\ UNCHANGED <<queue, overflow, cons, ctx>>

ForceSend(p) ==
  /\ sender[p].pc = "force"
  /\ Len(queue) < QueueCap
  /\ queue' = Append(queue, sender[p].item)
  /\ sender' = [sender EXCEPT ![p] = Idle]
  /\ UNCHANGED <<overflow, cons, outside, ctx>>
-----------------------------------------------------------------------------
\* Mutants: the overflow is looked at only when the channel is empty; the
\* entry taken stays in the slice.
CheckOverflowLast ==
  /\ cons.pc = "check"
  /\ \/ /\ overflow # <<>> /\ queue = <<>>
        /\ cons' = [pc |-> "busy", item |-> Head(overflow)]
        /\ overflow' = Tail(overflow)
     \/ /\ overflow = <<>> \/ queue # <<>>
        /\ cons' = [cons EXCEPT !.pc = "wait"]
        /\ UNCHANGED overflow
  /\ UNCHANGED <<queue, sender, outside, ctx>>

CheckOverflowKeeps ==
  /\ cons.pc = "check"
  /\ cons' = IF overflow # <<>> THEN [pc |-> "busy", item |-> Head(overflow)]
                                ELSE [cons EXCEPT !.pc = "wait"]
  /\ UNCHANGED <<queue, overflow, sender, outside, ctx>>

\* nextDispatchInstance, first half: under overflowMu, take the oldest
\* overflow entry; an empty slice sends the consumer to the channel receive.
CheckOverflow ==
  /\ cons.pc = "check"
  /\ \/ /\ overflow # <<>>
        /\ cons' = [pc |-> "busy", item |-> Head(overflow)]
        /\ overflow' = Tail(overflow)
     \/ /\ overflow = <<>>
        /\ cons' = [cons EXCEPT !.pc = "wait"]
        /\ UNCHANGED overflow
  /\ UNCHANGED <<queue, sender, outside, ctx>>

\* nextDispatchInstance, second half: block until the channel has an entry.
ReceiveQueue ==
  /\ cons.pc = "wait"
  /\ queue # <<>>
  /\ cons' = [pc |-> "busy", item |-> Head(queue)]
  /\ queue' = Tail(queue)
  /\ UNCHANGED <<overflow, sender, outside, ctx>>

\* ... or the context is cancelled and the goroutine of Start returns.
ConsumerExit ==
  /\ cons.pc = "wait"
  /\ ctx = "done"
  /\ cons' = [cons EXCEPT !.pc = "exited"]
  /\ UNCHANGED <<queue, overflow, sender, outside, ctx>>

\* Dispatch ends without re-queueing: the object is finished or with a poller.
HandOver ==
  /\ cons.pc = "busy"
  /\ outside' = outside \cup {cons.item}
  /\ cons' = [pc |-> "check", item |-> NoItem]
  /\ UNCHANGED <<queue, overflow, sender, ctx>>

\* Dispatch calls RequestDispatch on its own object, from the consumer.
SelfRequest ==
  /\ cons.pc = "busy"
  /\ \/ /\ Len(queue) < QueueCap
        /\ queue' = Append(queue, cons.item)
        /\ cons' = [pc |-> "check", item |-> NoItem]
     \/ /\ Len(queue) = QueueCap
        /\ cons' = [cons EXCEPT !.pc = "full"]
        /\ UNCHANGED queue
  /\ UNCHANGED <<overflow, sender, outside, ctx>>

SelfOverflow ==
  /\ cons.pc = "full"
  /\ overflow' = Append(overflow, cons.item)
  /\ cons' = [pc |-> "check", item |-> NoItem]
  /\ UNCHANGED <<queue, sender, outside, ctx>>

\* main cancels the context on SIGINT or SIGTERM.
Shutdown ==
  /\ ctx = "live"
  /\ ctx' = "done"
  /\ UNCHANGED <<queue, overflow, sender, cons, outside>>

\* After the consumer has returned the process ends; nothing has to move.
Exited == cons.pc = "exited" /\ UNCHANGED vars
-----------------------------------------------------------------------------
Consumer == \/ CheckOverflow \/ ReceiveQueue \/ ConsumerExit
            \/ HandOver \/ SelfRequest \/ SelfOverflow

Callers == \E p \in Senders :
             \/ \E x \in Items : RequestDispatch(p, x) \/ ForceDispatch(p, x)
             \/ AppendOverflow(p)
             \/ ForceSend(p)

Next == Consumer \/ Callers \/ Shutdown \/ Exited

Spec == Init /\ [][Next]_vars

\* The Go scheduler runs every runnable goroutine: the consumer, and a caller
\* that is in the middle of its call.  Nothing obliges anyone to make a call.
FairSpec == /\ Spec
            /\ WF_vars(Consumer)
            /\ \A p \in Senders : WF_vars(AppendOverflow(p)) /\ WF_vars(ForceSend(p))
-----------------------------------------------------------------------------
\* The channel holds at most QueueCap entries (make(chan, QueueCap)), and all
\* that callers and consumer hold are submitted objects.
TypeOK ==
  /\ queue \in Seq(Items) /\ Len(queue) <= QueueCap
  /\ overflow \in Seq(Items)
  /\ sender \in [Senders -> [pc : {"idle", "full", "force"}, item : Items \cup {NoItem}]]
  /\ cons \in [pc : {"check", "wait", "busy", "full", "exited"}, item : Items \cup {NoItem}]
  /\ outside \in SUBSET Items
  /\ ctx \in {"live", "done"}

InCall == {p \in Senders : sender[p].pc # "idle"}
InHands == {sender[p].item : p \in InCall}
Accepted == Range(queue) \cup Range(overflow) \cup InHands

\* Every object is in exactly one of: outside, accepted and waiting, in the
\* consumer's hand; and no object waits twice.  RequestDispatch's promise
\* that an instance is not lost when the channel is full (line 144), and
\* that one request is dispatched once.
OnePlace ==
  /\ IsInjective(queue) /\ IsInjective(overflow)
  /\ Range(queue) \cap Range(overflow) = {}
  /\ InHands \cap (Range(queue) \cup Range(overflow)) = {}
  /\ \A p, q \in InCall : sender[p].item = sender[q].item => p = q
  /\ cons.item \notin Accepted
  /\ outside \cap (Accepted \cup {cons.item}) = {}
  /\ Items = outside \cup Accepted \cup ({cons.item} \ {NoItem})

\* Who holds an object and where it is in its call always agree.
PcItems ==
  /\ \A p \in Senders : sender[p].pc = "idle" <=> sender[p].item = NoItem
  /\ cons.pc \in {"busy", "full"} <=> cons.item # NoItem

\* A request that met a full channel reaches the consumer, unless the
\* consumer is parked on an empty channel when the append happens or the
\* process shuts down.
OverflowMoves ==
  \A x \in Items :
    x \in Range(overflow) ~> \/ cons.item = x
                             \/ cons.pc = "wait" /\ queue = <<>>
                             \/ ctx = "done"

Pool == INSTANCE WorkPool
          WITH pool <- Accepted,
               hand <- cons.item

\* The queue implements the unordered pool of WorkPool.
ImplementsWorkPool == Pool!Spec
=============================================================================
