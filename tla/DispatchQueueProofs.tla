------------------------- MODULE DispatchQueueProofs -------------------------
(***************************************************************************)
(* For every number of objects, senders and every channel capacity: the    *)
(* dispatch queue keeps its types, keeps every object in exactly one place *)
(* and implements WorkPool.                                                *)
(***************************************************************************)
EXTENDS DispatchQueue, TLAPS

-----------------------------------------------------------------------------
(* Ranges and injectivity of the two sequence operations the queue uses.   *)

\* Appending an object adds exactly that object, once if it was absent.
LEMMA AppendFacts ==
  ASSUME NEW S, NEW s \in Seq(S), NEW x \in S
  PROVE  /\ Append(s, x) \in Seq(S) /\ Len(Append(s, x)) = Len(s) + 1
         /\ Range(Append(s, x)) = Range(s) \cup {x}
         /\ IsInjective(s) /\ x \notin Range(s) => IsInjective(Append(s, x))
<1> DEFINE t == Append(s, x)
<1>1. /\ Len(t) = Len(s) + 1 /\ DOMAIN t = 1 .. Len(s) + 1
      /\ DOMAIN s = 1 .. Len(s) /\ Len(s) \in Nat
      /\ t[Len(s) + 1] = x /\ \A i \in 1 .. Len(s) : t[i] = s[i]
  OBVIOUS
<1>2. Range(t) = Range(s) \cup {x}
  <2>1. ASSUME NEW y \in Range(t) PROVE y \in Range(s) \cup {x}
    BY <1>1 DEF Range
  <2>2. ASSUME NEW y \in Range(s) PROVE y \in Range(t)
    BY <1>1 DEF Range
  <2>3. x \in Range(t)
    BY <1>1 DEF Range
  <2> QED BY <2>1, <2>2, <2>3
<1>3. ASSUME IsInjective(s), x \notin Range(s) PROVE IsInjective(t)
  BY <1>1, <1>3 DEF IsInjective, Range
<1>4. t \in Seq(S)
  OBVIOUS
<1> QED BY <1>1, <1>2, <1>3, <1>4

\* Removing the head removes exactly one object.
LEMMA HeadTailFacts ==
  ASSUME NEW S, NEW s \in Seq(S), s # <<>>
  PROVE  /\ Head(s) \in S /\ Tail(s) \in Seq(S) /\ Len(Tail(s)) = Len(s) - 1
         /\ Range(s) = Range(Tail(s)) \cup {Head(s)}
         /\ IsInjective(s) => /\ IsInjective(Tail(s))
                              /\ Head(s) \notin Range(Tail(s))
<1> DEFINE t == Tail(s)
<1>1. /\ t \in Seq(S) /\ Len(t) = Len(s) - 1 /\ DOMAIN t = 1 .. Len(s) - 1
      /\ DOMAIN s = 1 .. Len(s) /\ Len(s) \in Nat /\ Len(s) > 0
      /\ Head(s) = s[1] /\ \A i \in 1 .. Len(s) - 1 : t[i] = s[i + 1]
  OBVIOUS
<1>2. Range(s) = Range(t) \cup {Head(s)}
  <2>1. ASSUME NEW y \in Range(s) PROVE y \in Range(t) \cup {Head(s)}
    <3>1. PICK i \in 1 .. Len(s) : y = s[i]
      BY <1>1 DEF Range
    <3>2. CASE i = 1 BY <3>1, <3>2, <1>1
    <3>3. CASE i # 1
      <4>1. i - 1 \in 1 .. Len(s) - 1 /\ t[i - 1] = y
        BY <3>1, <3>3, <1>1
      <4> QED BY <4>1, <1>1 DEF Range
    <3> QED BY <3>2, <3>3
  <2>2. ASSUME NEW y \in Range(t) PROVE y \in Range(s)
    BY <1>1 DEF Range
  <2>3. Head(s) \in Range(s)
    BY <1>1 DEF Range
  <2> QED BY <2>1, <2>2, <2>3
<1>3. ASSUME IsInjective(s) PROVE IsInjective(t) /\ Head(s) \notin Range(t)
  BY <1>1, <1>3 DEF IsInjective, Range
<1>4. Head(s) \in S
  BY <1>1
<1> QED BY <1>1, <1>2, <1>3, <1>4
-----------------------------------------------------------------------------

Typed == TypeOK /\ PcItems

LEMMA TypedStep == Typed /\ [Next]_vars => Typed'
<1> SUFFICES ASSUME Typed, [Next]_vars PROVE Typed'
  OBVIOUS
<1> USE QueueAssumption DEF Typed, TypeOK, PcItems
<1>0. /\ Len(queue) \in Nat
      /\ cons.item \in Items \cup {NoItem}
      /\ cons.pc \in {"busy", "full"} => cons.item \in Items
      /\ \A p \in Senders : sender[p].pc # "idle" => sender[p].item \in Items
  OBVIOUS
<1>1. ASSUME NEW p \in Senders, NEW x \in Items, RequestDispatch(p, x) PROVE Typed'
  <2>1. CASE Len(queue) < QueueCap /\ queue' = Append(queue, x) /\ UNCHANGED sender
    BY <1>0, <1>1, <2>1, AppendFacts DEF RequestDispatch
  <2>2. CASE UNCHANGED queue /\ sender' = [sender EXCEPT ![p] = [pc |-> "full", item |-> x]]
    BY <1>1, <2>2 DEF RequestDispatch
  <2> QED BY <1>1, <2>1, <2>2 DEF RequestDispatch
<1>2. ASSUME NEW p \in Senders, NEW x \in Items, ForceDispatch(p, x) PROVE Typed'
  BY <1>2 DEF ForceDispatch
<1>3. ASSUME NEW p \in Senders, AppendOverflow(p) PROVE Typed'
  <2>1. overflow' \in Seq(Items)
    BY <1>0, <1>3, AppendFacts DEF AppendOverflow
  <2> QED BY <1>3, <2>1 DEF AppendOverflow, Idle
<1>4. ASSUME NEW p \in Senders, ForceSend(p) PROVE Typed'
  <2>1. queue' \in Seq(Items) /\ Len(queue') <= QueueCap
    BY <1>0, <1>4, AppendFacts DEF ForceSend
  <2> QED BY <1>4, <2>1 DEF ForceSend, Idle
<1>5. CASE CheckOverflow
  <2>1. CASE overflow # <<>>
    <3>1. overflow' = Tail(overflow)
      BY <1>5, <2>1 DEF CheckOverflow
    <3>2. overflow' \in Seq(Items) /\ Head(overflow) \in Items
      BY <2>1, <3>1, HeadTailFacts
    <3> QED BY <1>5, <2>1, <3>2 DEF CheckOverflow
  <2>2. CASE overflow = <<>>
    BY <1>5, <2>2 DEF CheckOverflow
  <2> QED BY <2>1, <2>2
<1>6. CASE ReceiveQueue
  <2>1. queue' \in Seq(Items) /\ Head(queue) \in Items /\ Len(queue') <= QueueCap
    <3>1. queue' = Tail(queue) /\ queue # <<>>
      BY <1>6 DEF ReceiveQueue
    <3>2. Len(queue') = Len(queue) - 1 /\ queue' \in Seq(Items) /\ Head(queue) \in Items
      BY <3>1, HeadTailFacts
    <3> QED BY <1>0, <3>2
  <2> QED BY <1>6, <2>1 DEF ReceiveQueue
<1>7. CASE ConsumerExit \/ Shutdown
  BY <1>7 DEF ConsumerExit, Shutdown
<1>8. CASE HandOver
  BY <1>0, <1>8 DEF HandOver
<1>9. CASE SelfRequest
  <2>1. queue' \in Seq(Items) /\ Len(queue') <= QueueCap
    BY <1>0, <1>9, AppendFacts DEF SelfRequest
  <2> QED BY <1>9, <2>1 DEF SelfRequest
<1>10. CASE SelfOverflow
  <2>1. overflow' \in Seq(Items)
    BY <1>0, <1>10, AppendFacts DEF SelfOverflow
  <2> QED BY <1>10, <2>1 DEF SelfOverflow
<1>11. CASE UNCHANGED vars
  BY <1>11 DEF vars
<1> QED
  BY <1>1, <1>2, <1>3, <1>4, <1>5, <1>6, <1>7, <1>8, <1>9, <1>10, <1>11
  DEF Next, Consumer, Callers, Exited

\* The queue's variables keep their types: in particular the channel never
\* holds more than its capacity, whoever sends (RequestDispatch, ForceDispatch
\* or the consumer itself).
THEOREM TypeCorrect == Spec => []TypeOK
<1>1. Init => Typed
  BY QueueAssumption DEF Init, Typed, TypeOK, PcItems, Idle
<1>2. Typed => TypeOK
  BY DEF Typed
<1> QED BY <1>1, <1>2, TypedStep, PTL DEF Spec
-----------------------------------------------------------------------------
(* What the senders hold, before and after a call begins or ends.          *)
Distinct == \A p, q \in InCall : sender[p].item = sender[q].item => p = q

LEMMA CallBegins ==
  ASSUME Typed, Distinct, NEW p \in Senders, NEW x \in Items, NEW k \in {"full", "force"},
         sender[p].pc = "idle", x \notin InHands,
         sender' = [sender EXCEPT ![p] = [pc |-> k, item |-> x]]
  PROVE  InHands' = InHands \cup {x} /\ Distinct'
<1>1. /\ InCall' = InCall \cup {p} /\ p \notin InCall
      /\ sender'[p].item = x /\ \A q \in InCall : sender'[q] = sender[q]
  BY DEF InCall, Typed, TypeOK
<1>2. InHands' = InHands \cup {x}
  BY <1>1 DEF InHands
<1>3. \A q \in InCall : sender[q].item # x
  BY DEF InHands
<1>4. Distinct'
  BY <1>1, <1>3 DEF Distinct
<1> QED BY <1>2, <1>4

LEMMA CallEnds ==
  ASSUME Typed, Distinct, NEW p \in InCall, sender' = [sender EXCEPT ![p] = Idle]
  PROVE  /\ InHands' = InHands \ {sender[p].item} /\ Distinct'
         /\ sender[p].item \in InHands /\ sender[p].item \in Items
<1>1. /\ InCall' = InCall \ {p} /\ p \in Senders
      /\ \A q \in InCall' : sender'[q] = sender[q]
  BY DEF InCall, Typed, TypeOK, Idle
<1>2. InHands' = InHands \ {sender[p].item}
  BY <1>1 DEF InHands, Distinct
<1>3. Distinct'
  BY <1>1 DEF Distinct
<1>4. sender[p].item \in InHands /\ sender[p].item \in Items
  BY <1>1 DEF InHands, Typed, TypeOK, PcItems, InCall
<1> QED BY <1>2, <1>3, <1>4

LEMMA SendersIdle ==
  ASSUME UNCHANGED sender
  PROVE  InHands' = InHands /\ (Distinct => Distinct')
BY DEF InHands, InCall, Distinct


\* OnePlace, over the sets of objects in each place.
Separate(q, o, h, c, out) ==
  /\ q \cap o = {} /\ h \cap (q \cup o) = {}
  /\ c \notin q \cup o \cup h
  /\ out \cap (q \cup o \cup h \cup {c}) = {}
  /\ Items = out \cup q \cup o \cup h \cup ({c} \ {NoItem})

Places == Separate(Range(queue), Range(overflow), InHands, cons.item, outside)
NoRepeats == IsInjective(queue) /\ IsInjective(overflow) /\ Distinct

LEMMA OnePlaceSplit == OnePlace <=> NoRepeats /\ Places
BY DEF OnePlace, NoRepeats, Places, Separate, Accepted, Distinct

LEMMA OnePlaceStep == Typed /\ OnePlace /\ [Next]_vars => OnePlace'
<1> SUFFICES ASSUME Typed, NoRepeats, Places, [Next]_vars PROVE NoRepeats' /\ Places'
  BY OnePlaceSplit DEF OnePlace, NoRepeats, Places, Separate, Accepted, Distinct
<1> USE QueueAssumption
<1>0. /\ queue \in Seq(Items) /\ overflow \in Seq(Items)
      /\ IsInjective(queue) /\ IsInjective(overflow) /\ Distinct
      /\ cons.pc \in {"busy", "full"} <=> cons.item # NoItem
      /\ cons.item \in Items \cup {NoItem}
      /\ Separate(Range(queue), Range(overflow), InHands, cons.item, outside)
  BY DEF NoRepeats, Places, Typed, TypeOK, PcItems
<1>1. ASSUME NEW p \in Senders, NEW x \in Items, RequestDispatch(p, x)
      PROVE  NoRepeats' /\ Places'
  <2>0. /\ x \notin Range(queue) \cup Range(overflow) \cup InHands \cup {cons.item}
        /\ sender[p].pc = "idle" /\ outside' = outside \ {x} /\ x \in outside
        /\ UNCHANGED <<overflow, cons>>
    BY <1>0, <1>1 DEF RequestDispatch, Separate
  <2>1. CASE queue' = Append(queue, x) /\ UNCHANGED sender
    <3>1. Range(queue') = Range(queue) \cup {x} /\ IsInjective(queue')
      BY <1>0, <2>0, <2>1, AppendFacts
    <3>2. InHands' = InHands /\ Distinct'
      BY <1>0, <2>1, SendersIdle
    <3>3. NoRepeats'
      BY <1>0, <2>0, <3>1, <3>2 DEF NoRepeats
    <3>4. Places'
      BY <1>0, <2>0, <3>1, <3>2 DEF Places, Separate
    <3> QED BY <3>3, <3>4
  <2>2. CASE UNCHANGED queue /\ sender' = [sender EXCEPT ![p] = [pc |-> "full", item |-> x]]
    <3>1. InHands' = InHands \cup {x} /\ Distinct'
      BY <1>0, <2>0, <2>2, CallBegins
    <3>2. NoRepeats'
      BY <1>0, <2>0, <2>2, <3>1 DEF NoRepeats
    <3>3. Places'
      BY <1>0, <2>0, <2>2, <3>1 DEF Places, Separate
    <3> QED BY <3>2, <3>3
  <2> QED BY <1>1, <2>1, <2>2 DEF RequestDispatch
<1>2. ASSUME NEW p \in Senders, NEW x \in Items, ForceDispatch(p, x)
      PROVE  NoRepeats' /\ Places'
  <2>0. /\ x \notin Range(queue) \cup Range(overflow) \cup InHands \cup {cons.item}
        /\ sender[p].pc = "idle" /\ outside' = outside \ {x} /\ x \in outside
        /\ UNCHANGED <<queue, overflow, cons>>
        /\ sender' = [sender EXCEPT ![p] = [pc |-> "force", item |-> x]]
    BY <1>0, <1>2 DEF ForceDispatch, Separate
  <2>1. InHands' = InHands \cup {x} /\ Distinct'
    BY <1>0, <2>0, CallBegins
  <2>2. NoRepeats'
    BY <1>0, <2>0, <2>1 DEF NoRepeats
  <2>3. Places'
    BY <1>0, <2>0, <2>1 DEF Places, Separate
  <2> QED BY <2>2, <2>3
<1>3. ASSUME NEW p \in Senders, AppendOverflow(p) PROVE NoRepeats' /\ Places'
  <2> DEFINE x == sender[p].item
  <2>0. /\ p \in InCall /\ sender' = [sender EXCEPT ![p] = Idle]
        /\ overflow' = Append(overflow, x) /\ UNCHANGED <<queue, cons, outside>>
    BY <1>3 DEF AppendOverflow, InCall
  <2>1. InHands' = InHands \ {x} /\ Distinct' /\ x \in InHands /\ x \in Items
    BY <1>0, <2>0, CallEnds
  <2> HIDE DEF x
  <2>2. Range(overflow') = Range(overflow) \cup {x} /\ IsInjective(overflow')
    <3>1. x \notin Range(overflow)
      BY <1>0, <2>1 DEF Separate
    <3> QED BY <1>0, <2>0, <2>1, <3>1, AppendFacts
  <2>3. NoRepeats'
    BY <1>0, <2>0, <2>1, <2>2 DEF NoRepeats
  <2>4. Places'
    BY <1>0, <2>0, <2>1, <2>2 DEF Places, Separate
  <2> QED BY <2>3, <2>4
<1>4. ASSUME NEW p \in Senders, ForceSend(p) PROVE NoRepeats' /\ Places'
  <2> DEFINE x == sender[p].item
  <2>0. /\ p \in InCall /\ sender' = [sender EXCEPT ![p] = Idle]
        /\ queue' = Append(queue, x) /\ UNCHANGED <<overflow, cons, outside>>
    BY <1>4 DEF ForceSend, InCall
  <2>1. InHands' = InHands \ {x} /\ Distinct' /\ x \in InHands /\ x \in Items
    BY <1>0, <2>0, CallEnds
  <2> HIDE DEF x
  <2>2. Range(queue') = Range(queue) \cup {x} /\ IsInjective(queue')
    <3>1. x \notin Range(queue)
      BY <1>0, <2>1 DEF Separate
    <3> QED BY <1>0, <2>0, <2>1, <3>1, AppendFacts
  <2>3. NoRepeats'
    BY <1>0, <2>0, <2>1, <2>2 DEF NoRepeats
  <2>4. Places'
    BY <1>0, <2>0, <2>1, <2>2 DEF Places, Separate
  <2> QED BY <2>3, <2>4
<1>5. CASE CheckOverflow
  <2>0. UNCHANGED <<queue, sender, outside>> /\ cons.item = NoItem
    BY <1>0, <1>5 DEF CheckOverflow
  <2>1. InHands' = InHands /\ Distinct'
    BY <1>0, <2>0, SendersIdle
  <2>2. CASE overflow = <<>>
    <3>1. cons'.item = cons.item /\ overflow' = overflow
      BY <1>0, <1>5, <2>2 DEF CheckOverflow, Typed, TypeOK
    <3>2. NoRepeats'
      BY <1>0, <2>0, <2>1, <3>1 DEF NoRepeats
    <3>3. Places'
      BY <1>0, <2>0, <2>1, <3>1 DEF Places, Separate
    <3> QED BY <3>2, <3>3
  <2>3. CASE overflow # <<>>
    <3>0. overflow' = Tail(overflow) /\ cons'.item = Head(overflow)
      BY <1>5, <2>3 DEF CheckOverflow
    <3>1. /\ Range(overflow) = Range(overflow') \cup {cons'.item}
          /\ IsInjective(overflow') /\ cons'.item \notin Range(overflow')
          /\ cons'.item \in Items
      BY <1>0, <2>3, <3>0, HeadTailFacts
    <3>2. NoRepeats'
      BY <1>0, <2>0, <2>1, <3>1 DEF NoRepeats
    <3>3. Places'
      BY <1>0, <2>0, <2>1, <3>1 DEF Places, Separate
    <3> QED BY <3>2, <3>3
  <2> QED BY <2>2, <2>3
<1>6. CASE ReceiveQueue
  <2>0. UNCHANGED <<overflow, sender, outside>> /\ cons.item = NoItem
    BY <1>0, <1>6 DEF ReceiveQueue
  <2>1. InHands' = InHands /\ Distinct'
    BY <1>0, <2>0, SendersIdle
  <2>2. /\ Range(queue) = Range(queue') \cup {cons'.item}
        /\ IsInjective(queue') /\ cons'.item \notin Range(queue')
        /\ cons'.item \in Items
    BY <1>0, <1>6, HeadTailFacts DEF ReceiveQueue
  <2>3. NoRepeats'
    BY <1>0, <2>0, <2>1, <2>2 DEF NoRepeats
  <2>4. Places'
    BY <1>0, <2>0, <2>1, <2>2 DEF Places, Separate
  <2> QED BY <2>3, <2>4
<1>7. CASE ConsumerExit \/ Shutdown \/ UNCHANGED vars
  <2>0. UNCHANGED <<queue, overflow, sender, outside>> /\ cons'.item = cons.item
    BY <1>7 DEF ConsumerExit, Shutdown, vars, Typed, TypeOK
  <2>1. InHands' = InHands /\ Distinct'
    BY <1>0, <2>0, SendersIdle
  <2>2. NoRepeats'
    BY <1>0, <2>0, <2>1 DEF NoRepeats
  <2>3. Places'
    BY <1>0, <2>0, <2>1 DEF Places, Separate
  <2> QED BY <2>2, <2>3
<1>8. CASE HandOver
  <2>0. /\ UNCHANGED <<queue, overflow, sender>> /\ cons'.item = NoItem
        /\ outside' = outside \cup {cons.item} /\ cons.item \in Items
    BY <1>0, <1>8 DEF HandOver
  <2>1. InHands' = InHands /\ Distinct'
    BY <1>0, <2>0, SendersIdle
  <2>2. NoRepeats'
    BY <1>0, <2>0, <2>1 DEF NoRepeats
  <2>3. Places'
    BY <1>0, <2>0, <2>1 DEF Places, Separate
  <2> QED BY <2>2, <2>3
<1>9. CASE SelfRequest
  <2>0. UNCHANGED <<overflow, sender, outside>> /\ cons.item \in Items
    BY <1>0, <1>9 DEF SelfRequest
  <2>1. InHands' = InHands /\ Distinct'
    BY <1>0, <2>0, SendersIdle
  <2>2. CASE queue' = Append(queue, cons.item) /\ cons' = [pc |-> "check", item |-> NoItem]
    <3>1. cons.item \notin Range(queue)
      BY <1>0 DEF Separate
    <3>2. Range(queue') = Range(queue) \cup {cons.item} /\ IsInjective(queue') /\ cons'.item = NoItem
      BY <1>0, <2>0, <2>2, <3>1, AppendFacts
    <3>3. NoRepeats'
      BY <1>0, <2>0, <2>1, <3>2 DEF NoRepeats
    <3>4. Places'
      BY <1>0, <2>0, <2>1, <3>2 DEF Places, Separate
    <3> QED BY <3>3, <3>4
  <2>3. CASE UNCHANGED queue /\ cons' = [cons EXCEPT !.pc = "full"]
    <3>1. cons'.item = cons.item
      BY <2>3 DEF Typed, TypeOK
    <3>2. NoRepeats'
      BY <1>0, <2>0, <2>1, <2>3 DEF NoRepeats
    <3>3. Places'
      BY <1>0, <2>0, <2>1, <2>3, <3>1 DEF Places, Separate
    <3> QED BY <3>2, <3>3
  <2> QED BY <1>9, <2>2, <2>3 DEF SelfRequest
<1>10. CASE SelfOverflow
  <2>0. /\ UNCHANGED <<queue, sender, outside>> /\ cons.item \in Items
        /\ overflow' = Append(overflow, cons.item) /\ cons'.item = NoItem
    BY <1>0, <1>10 DEF SelfOverflow
  <2>1. InHands' = InHands /\ Distinct'
    BY <1>0, <2>0, SendersIdle
  <2>2. Range(overflow') = Range(overflow) \cup {cons.item} /\ IsInjective(overflow')
    <3>1. cons.item \notin Range(overflow)
      BY <1>0 DEF Separate
    <3> QED BY <1>0, <2>0, <3>1, AppendFacts
  <2>3. NoRepeats'
    BY <1>0, <2>0, <2>1, <2>2 DEF NoRepeats
  <2>4. Places'
    BY <1>0, <2>0, <2>1, <2>2 DEF Places, Separate
  <2> QED BY <2>3, <2>4
<1> QED
  BY <1>1, <1>2, <1>3, <1>4, <1>5, <1>6, <1>7, <1>8, <1>9, <1>10
  DEF Next, Consumer, Callers, Exited

LEMMA InitOnePlace == Init => Typed /\ OnePlace
<1> SUFFICES ASSUME Init PROVE Typed /\ OnePlace
  OBVIOUS
<1>1. Typed
  BY QueueAssumption DEF Init, Typed, TypeOK, PcItems, Idle
<1>2. InCall = {} /\ InHands = {} /\ Range(queue) = {} /\ Range(overflow) = {}
  BY DEF Init, Idle, InCall, InHands, Range
<1>3. IsInjective(queue) /\ IsInjective(overflow)
  BY DEF Init, IsInjective
<1> QED BY <1>1, <1>2, <1>3, QueueAssumption DEF Init, OnePlace, Accepted

\* Whatever the callers, the consumer and the shutdown do, an object is never
\* lost and never waits twice: RequestDispatch's two steps (a full channel,
\* then the append) and nextDispatchInstance's two (overflow, then channel)
\* may interleave in any way.
THEOREM OnePlaceHolds == Spec => []OnePlace
<1>1. Typed /\ OnePlace /\ [Next]_vars => (Typed /\ OnePlace)'
  BY TypedStep, OnePlaceStep
<1> QED BY <1>1, InitOnePlace, PTL DEF Spec
-----------------------------------------------------------------------------
(* Refinement of WorkPool.                                                 *)

LEMMA PoolStep == Typed /\ OnePlace /\ [Next]_vars => [Pool!Next]_(Pool!wvars)
<1> SUFFICES ASSUME Typed, NoRepeats, Places, [Next]_vars
             PROVE  Pool!Next \/ UNCHANGED <<outside, Accepted, cons.item>>
  BY OnePlaceSplit DEF Pool!wvars
<1> USE QueueAssumption
<1>0. /\ queue \in Seq(Items) /\ overflow \in Seq(Items) /\ Distinct
      /\ IsInjective(queue) /\ IsInjective(overflow)
      /\ cons.pc \in {"busy", "full"} <=> cons.item # NoItem
      /\ cons.item \in Items \cup {NoItem}
      /\ Separate(Range(queue), Range(overflow), InHands, cons.item, outside)
  BY DEF NoRepeats, Places, Typed, TypeOK, PcItems
<1>1. ASSUME NEW p \in Senders, NEW x \in Items, RequestDispatch(p, x)
      PROVE  Pool!Submit(x)
  <2>0. /\ x \notin Range(queue) \cup Range(overflow) \cup InHands
        /\ sender[p].pc = "idle" /\ outside' = outside \ {x} /\ x \in outside
        /\ UNCHANGED <<overflow, cons>>
    BY <1>0, <1>1 DEF RequestDispatch, Separate
  <2>1. CASE queue' = Append(queue, x) /\ UNCHANGED sender
    <3>1. Range(queue') = Range(queue) \cup {x} /\ InHands' = InHands
      BY <1>0, <2>1, AppendFacts, SendersIdle
    <3> QED BY <2>0, <3>1 DEF Pool!Submit, Accepted
  <2>2. CASE UNCHANGED queue /\ sender' = [sender EXCEPT ![p] = [pc |-> "full", item |-> x]]
    <3>1. InHands' = InHands \cup {x}
      BY <1>0, <2>0, <2>2, CallBegins
    <3> QED BY <2>0, <2>2, <3>1 DEF Pool!Submit, Accepted
  <2> QED BY <1>1, <2>1, <2>2 DEF RequestDispatch
<1>2. ASSUME NEW p \in Senders, NEW x \in Items, ForceDispatch(p, x)
      PROVE  Pool!Submit(x)
  <2>0. /\ x \notin InHands /\ sender[p].pc = "idle"
        /\ outside' = outside \ {x} /\ x \in outside
        /\ UNCHANGED <<queue, overflow, cons>>
        /\ sender' = [sender EXCEPT ![p] = [pc |-> "force", item |-> x]]
    BY <1>0, <1>2 DEF ForceDispatch, Separate
  <2>1. InHands' = InHands \cup {x}
    BY <1>0, <2>0, CallBegins
  <2> QED BY <2>0, <2>1 DEF Pool!Submit, Accepted
<1>3. ASSUME NEW p \in Senders, AppendOverflow(p) \/ ForceSend(p)
      PROVE  UNCHANGED <<outside, Accepted, cons.item>>
  <2> DEFINE x == sender[p].item
  <2>0. /\ p \in InCall /\ sender' = [sender EXCEPT ![p] = Idle]
        /\ \/ overflow' = Append(overflow, x) /\ queue' = queue
           \/ queue' = Append(queue, x) /\ overflow' = overflow
        /\ UNCHANGED <<cons, outside>>
    BY <1>3 DEF AppendOverflow, ForceSend, InCall
  <2>1. InHands' = InHands \ {x} /\ x \in InHands /\ x \in Items
    BY <1>0, <2>0, CallEnds
  <2> HIDE DEF x
  <2>2. Range(overflow') \cup Range(queue') = Range(overflow) \cup Range(queue) \cup {x}
    <3>1. CASE overflow' = Append(overflow, x) /\ queue' = queue
      <4>1. Range(overflow') = Range(overflow) \cup {x}
        BY <1>0, <2>1, <3>1, AppendFacts
      <4> QED BY <3>1, <4>1
    <3>2. CASE queue' = Append(queue, x) /\ overflow' = overflow
      <4>1. Range(queue') = Range(queue) \cup {x}
        BY <1>0, <2>1, <3>2, AppendFacts
      <4> QED BY <3>2, <4>1
    <3> QED BY <2>0, <3>1, <3>2
  <2>3. Accepted' = Accepted
    BY <2>1, <2>2 DEF Accepted
  <2> QED BY <2>0, <2>3
<1>4. CASE CheckOverflow
  <2>0. UNCHANGED <<queue, sender, outside>> /\ cons.item = NoItem
    BY <1>0, <1>4 DEF CheckOverflow
  <2>1. InHands' = InHands
    BY <2>0, SendersIdle
  <2>2. CASE overflow = <<>>
    <3>1. cons'.item = cons.item /\ overflow' = overflow
      BY <1>4, <2>2 DEF CheckOverflow, Typed, TypeOK
    <3> QED BY <2>0, <2>1, <3>1 DEF Accepted
  <2>3. CASE overflow # <<>>
    <3>0. overflow' = Tail(overflow) /\ cons'.item = Head(overflow)
      BY <1>4, <2>3 DEF CheckOverflow
    <3>1. /\ Range(overflow) = Range(overflow') \cup {cons'.item}
          /\ cons'.item \notin Range(overflow') /\ cons'.item \in Items
      BY <1>0, <2>3, <3>0, HeadTailFacts
    <3>2. Accepted' = Accepted \ {cons'.item} /\ cons'.item \in Accepted
      BY <1>0, <2>0, <2>1, <3>1 DEF Accepted, Separate
    <3>3. Pool!Take(cons'.item)
      BY <2>0, <3>2 DEF Pool!Take
    <3> QED BY <3>1, <3>3 DEF Pool!Next
  <2> QED BY <2>2, <2>3
<1>5. CASE ReceiveQueue
  <2>0. UNCHANGED <<overflow, sender, outside>> /\ cons.item = NoItem
    BY <1>0, <1>5 DEF ReceiveQueue
  <2>1. InHands' = InHands
    BY <2>0, SendersIdle
  <2>2. /\ Range(queue) = Range(queue') \cup {cons'.item}
        /\ cons'.item \notin Range(queue') /\ cons'.item \in Items
    BY <1>0, <1>5, HeadTailFacts DEF ReceiveQueue
  <2>3. Accepted' = Accepted \ {cons'.item} /\ cons'.item \in Accepted
    BY <1>0, <2>0, <2>1, <2>2 DEF Accepted, Separate
  <2>4. Pool!Take(cons'.item)
    BY <2>0, <2>3 DEF Pool!Take
  <2> QED BY <2>2, <2>4 DEF Pool!Next
<1>6. CASE ConsumerExit \/ Shutdown \/ UNCHANGED vars
  <2>0. UNCHANGED <<queue, overflow, sender, outside>> /\ cons'.item = cons.item
    BY <1>6 DEF ConsumerExit, Shutdown, vars, Typed, TypeOK
  <2>1. InHands' = InHands
    BY <2>0, SendersIdle
  <2> QED BY <2>0, <2>1 DEF Accepted
<1>7. CASE HandOver
  <2>0. /\ UNCHANGED <<queue, overflow, sender>> /\ cons'.item = NoItem
        /\ outside' = outside \cup {cons.item} /\ cons.item # NoItem
    BY <1>0, <1>7 DEF HandOver
  <2>1. InHands' = InHands
    BY <2>0, SendersIdle
  <2> QED BY <2>0, <2>1 DEF Pool!Next, Pool!Return, Accepted
<1>8. CASE SelfRequest
  <2>0. UNCHANGED <<overflow, sender, outside>> /\ cons.item \in Items /\ cons.item # NoItem
    BY <1>0, <1>8 DEF SelfRequest
  <2>1. InHands' = InHands
    BY <2>0, SendersIdle
  <2>2. CASE queue' = Append(queue, cons.item) /\ cons' = [pc |-> "check", item |-> NoItem]
    <3>1. Range(queue') = Range(queue) \cup {cons.item} /\ cons'.item = NoItem
      BY <1>0, <2>0, <2>2, AppendFacts
    <3>2. Pool!Resubmit
      BY <2>0, <2>1, <3>1 DEF Pool!Resubmit, Accepted
    <3> QED BY <3>2 DEF Pool!Next
  <2>3. CASE UNCHANGED queue /\ cons' = [cons EXCEPT !.pc = "full"]
    <3>1. cons'.item = cons.item
      BY <2>3 DEF Typed, TypeOK
    <3> QED BY <2>0, <2>1, <2>3, <3>1 DEF Accepted
  <2> QED BY <1>8, <2>2, <2>3 DEF SelfRequest
<1>9. CASE SelfOverflow
  <2>0. /\ UNCHANGED <<queue, sender, outside>> /\ cons.item \in Items /\ cons.item # NoItem
        /\ overflow' = Append(overflow, cons.item) /\ cons'.item = NoItem
    BY <1>0, <1>9 DEF SelfOverflow
  <2>1. InHands' = InHands
    BY <2>0, SendersIdle
  <2>2. Range(overflow') = Range(overflow) \cup {cons.item}
    BY <1>0, <2>0, AppendFacts
  <2>3. Pool!Resubmit
    BY <2>0, <2>1, <2>2 DEF Pool!Resubmit, Accepted
  <2> QED BY <2>3 DEF Pool!Next
<1> QED
  BY <1>1, <1>2, <1>3, <1>4, <1>5, <1>6, <1>7, <1>8, <1>9
  DEF Next, Consumer, Callers, Exited, Pool!Next

\* The channel, the overflow slice and the callers' local variables together
\* behave as one unordered pool: what the rest of the system may assume of
\* RequestDispatch, ForceDispatch and NextDispatch.
THEOREM QueueIsAPool == Spec => ImplementsWorkPool
<1>1. Init => Pool!Init
  <2> SUFFICES ASSUME Init PROVE Pool!Init
    OBVIOUS
  <2>1. InHands = {} /\ Range(queue) = {} /\ Range(overflow) = {}
    BY DEF Init, Idle, InCall, InHands, Range
  <2> QED BY <2>1 DEF Init, Pool!Init, Accepted
<1>2. Typed /\ OnePlace /\ [Next]_vars => (Typed /\ OnePlace)'
  BY TypedStep, OnePlaceStep
<1> QED BY <1>1, <1>2, InitOnePlace, PoolStep, PTL DEF Spec, ImplementsWorkPool, Pool!Spec
=============================================================================
