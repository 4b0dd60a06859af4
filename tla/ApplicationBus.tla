---------------------------- MODULE ApplicationBus ----------------------------
(***************************************************************************)
(* The application bus (application-bus.go).  Every method hands a closure *)
(* to the bus' own goroutine through the channel syncedOperations, which   *)
(* holds one; the caller waits while it is full.  The bus runs one closure *)
(* after the other.  To post, it sends the event to one receiver after the *)
(* other, in the arbitrary order of a Go map, and waits at each one whose  *)
(* channel is full.                                                        *)
(*                                                                         *)
(* A goroutine owns at most one channel and does one thing at a time: it   *)
(* waits in a call, or it may receive from its channel or begin a call.    *)
(* The collectors of the APIs use an unbuffered channel: a capacity of 1,  *)
(* the event in it being in the collector's hand.                          *)
(*                                                                         *)
(* An event is its poster and a bit that tells it from the poster's        *)
(* previous one; nothing else is ever asked of an event.                   *)
(***************************************************************************)
EXTENDS Naturals, Sequences, FiniteSets

CONSTANTS
  Goroutines,  \* everybody who uses the bus
  Calls,       \* per goroutine, the methods it calls
  Capacity,    \* per goroutine, the capacity of its channel
  None         \* no goroutine

Methods == {"post", "flush", "subscribe", "unsubscribe", "shutdown"}
Bits == {0, 1}
Events == Goroutines \X Bits

ASSUME CallsAssumption == Calls \in [Goroutines -> SUBSET Methods]
ASSUME CapacityAssumption == Capacity \in [Goroutines -> Nat \ {0}]
ASSUME NoneAssumption == None \notin Goroutines

\* The closures.  audience is who had been told, when Post was called, that
\* it is subscribed; the code does not keep it.
Operations == [op: Methods, by: Goroutines, bit: Bits, audience: SUBSET Goroutines]
NoOp == [op |-> "none"]

VARIABLES
  receivers,         \* ApplicationBus.receivers
  syncedOperations,  \* ApplicationBus.syncedOperations
  isRunning,         \* ApplicationBus.isRunning
  current,           \* the closure that posts an event, while it runs
  at,                \* the receiver it is sending to, None if it has sent to all
  left,              \* the receivers it has yet to send to, at included
  channel,           \* per goroutine, the events in its channel
  call,              \* per goroutine, the closure it waits to hand over
  loop,              \* per goroutine: "out", "in" or "left" its event loop
  bit                \* per goroutine, the bit of the next event it posts
bus == <<receivers, syncedOperations, isRunning, current, at, left>>
vars == <<bus, channel, call, loop, bit>>

Subscribed == {g \in Goroutines : loop[g] = "in" /\ call[g] = NoOp}

-----------------------------------------------------------------------------
(* The callers. *)

\* The closure a call makes.
Operation(g, op) ==
  [op |-> op, by |-> g, bit |-> bit[g],
   audience |-> IF op = "post" THEN Subscribed ELSE {}]

\* g calls op and waits for the bus.
Wait(g, op) ==
  /\ op \in Calls[g]
  /\ call[g] = NoOp
  /\ call' = [call EXCEPT ![g] = Operation(g, op)]
  /\ UNCHANGED <<bus, channel>>

Post(g) == Wait(g, "post") /\ bit' = [bit EXCEPT ![g] = 1 - @] /\ UNCHANGED loop
Flush(g) == Wait(g, "flush") /\ UNCHANGED <<loop, bit>>
Shutdown(g) == Wait(g, "shutdown") /\ UNCHANGED <<loop, bit>>

\* The start of an event loop, with a new channel, and its end.
Subscribe(g) == /\ loop[g] = "out" /\ loop' = [loop EXCEPT ![g] = "in"]
                /\ Wait(g, "subscribe") /\ UNCHANGED bit
Unsubscribe(g) == /\ loop[g] = "in" /\ loop' = [loop EXCEPT ![g] = "left"]
                  /\ Wait(g, "unsubscribe") /\ UNCHANGED bit

\* Slips: a queue one longer; an event loop that ends without unsubscribing.
Accept_Unbounded(g) ==
  /\ call[g] # NoOp
  /\ syncedOperations' = Append(syncedOperations, call[g])
  /\ call' = [call EXCEPT ![g] = NoOp]
  /\ UNCHANGED <<receivers, isRunning, current, at, left, channel, loop, bit>>
Receive_Last(g) ==
  /\ loop[g] = "in" /\ call[g] = NoOp
  /\ channel[g] # <<>>
  /\ channel' = [channel EXCEPT ![g] = Tail(@)]
  /\ loop' = [loop EXCEPT ![g] = "left"]
  /\ UNCHANGED <<bus, call, bit>>

\* syncedOperations takes the closure and g's call returns.
Accept(g) ==
  /\ call[g] # NoOp
  /\ Len(syncedOperations) < 1
  /\ syncedOperations' = Append(syncedOperations, call[g])
  /\ call' = [call EXCEPT ![g] = NoOp]
  /\ UNCHANGED <<receivers, isRunning, current, at, left, channel, loop, bit>>

\* g's event loop takes the next event.
Receive(g) ==
  /\ loop[g] = "in" /\ call[g] = NoOp
  /\ channel[g] # <<>>
  /\ channel' = [channel EXCEPT ![g] = Tail(@)]
  /\ UNCHANGED <<bus, call, loop, bit>>

-----------------------------------------------------------------------------
(* The goroutine of the bus, run(). *)

Idle == current = NoOp

\* Any order of the receivers.
StartWith(g, rest) == at' = g /\ left' = rest /\ (rest = {} => g = None)
                                              /\ (rest # {} => g \in rest)

\* Slip: who subscribes takes the place of the others.
Take_OneReceiver ==
  /\ isRunning /\ Idle /\ syncedOperations # <<>>
  /\ syncedOperations' = Tail(syncedOperations)
  /\ LET o == Head(syncedOperations) IN
       /\ receivers' = IF o.op = "subscribe" THEN {o.by}
                       ELSE IF o.op = "unsubscribe" THEN receivers \ {o.by}
                       ELSE receivers
       /\ isRunning' = (o.op # "shutdown")
       /\ IF o.op = "post" /\ receivers # {}
          THEN /\ current' = o
               /\ \E g \in receivers : StartWith(g, receivers)
          ELSE UNCHANGED <<current, at, left>>
  /\ UNCHANGED <<channel, call, loop, bit>>

\* The next closure is run: all of it, unless it has an event to send.
Take ==
  /\ isRunning /\ Idle /\ syncedOperations # <<>>
  /\ syncedOperations' = Tail(syncedOperations)
  /\ LET o == Head(syncedOperations) IN
       /\ receivers' = IF o.op = "subscribe" THEN receivers \cup {o.by}
                       ELSE IF o.op = "unsubscribe" THEN receivers \ {o.by}
                       ELSE receivers
       /\ isRunning' = (o.op # "shutdown")
       /\ IF o.op = "post" /\ receivers # {}
          THEN /\ current' = o
               /\ \E g \in receivers : StartWith(g, receivers)
          ELSE UNCHANGED <<current, at, left>>
  /\ UNCHANGED <<channel, call, loop, bit>>

\* Slip: a receiver whose channel is full is passed over.
Deliver_NoWait ==
  /\ ~Idle
  /\ channel' = IF Len(channel[at]) < Capacity[at]
                THEN [channel EXCEPT ![at] = Append(@, <<current.by, current.bit>>)]
                ELSE channel
  /\ \E g \in (left \ {at}) \cup {None} : StartWith(g, left \ {at})
  /\ current' = IF left = {at} THEN NoOp ELSE current
  /\ UNCHANGED <<receivers, syncedOperations, isRunning, call, loop, bit>>

\* The event is sent to the receiver the iteration is at, once there is room.
Deliver ==
  /\ ~Idle
  /\ Len(channel[at]) < Capacity[at]
  /\ channel' = [channel EXCEPT ![at] = Append(@, <<current.by, current.bit>>)]
  /\ \E g \in (left \ {at}) \cup {None} : StartWith(g, left \ {at})
  /\ current' = IF left = {at} THEN NoOp ELSE current
  /\ UNCHANGED <<receivers, syncedOperations, isRunning, call, loop, bit>>

-----------------------------------------------------------------------------
Init ==
  /\ receivers = {} /\ syncedOperations = <<>> /\ isRunning = TRUE
  /\ current = NoOp /\ at = None /\ left = {}
  /\ channel = [g \in Goroutines |-> <<>>]
  /\ call = [g \in Goroutines |-> NoOp]
  /\ loop = [g \in Goroutines |-> "out"]
  /\ bit = [g \in Goroutines |-> 0]

Next ==
  \/ \E g \in Goroutines :
       \/ Post(g) \/ Flush(g) \/ Shutdown(g) \/ Subscribe(g) \/ Unsubscribe(g)
       \/ Accept(g) \/ Receive(g)
  \/ Take \/ Deliver

Spec == Init /\ [][Next]_vars

\* Go runs every goroutine that can run, and a send that waits gets its turn:
\* the senders waiting at a channel are served first come, first served.
Fairness == /\ WF_vars(Take) /\ WF_vars(Deliver)
            /\ \A g \in Goroutines : SF_vars(Accept(g)) /\ WF_vars(Receive(g))
FairSpec == Spec /\ Fairness

-----------------------------------------------------------------------------
TypeOK ==
  /\ receivers \subseteq Goroutines
  /\ syncedOperations \in Seq(Operations) /\ Len(syncedOperations) <= 1
  /\ isRunning \in BOOLEAN
  /\ current \in Operations \cup {NoOp}
  /\ at \in Goroutines \cup {None}
  /\ left \subseteq receivers
  /\ channel \in [Goroutines -> Seq(Events)]
  /\ \A g \in Goroutines : Len(channel[g]) <= Capacity[g]
  /\ call \in [Goroutines -> Operations \cup {NoOp}]
  /\ loop \in [Goroutines -> {"out", "in", "left"}]
  /\ bit \in [Goroutines -> Bits]

Queued(op) == syncedOperations # <<>> /\ Head(syncedOperations).op = op

\* Whoever's Subscribe had returned before Post was called is sent the event,
\* unless it has ended its event loop since ("The appliation bus allows
\* interested parties to Subscribe() to events that are being Post()ed").
AudienceIsServed ==
  Idle /\ Queued("post") =>
    \A g \in Head(syncedOperations).audience : g \in receivers \/ loop[g] = "left"

\* The bus is a broadcast: same events, same order, each once, at everybody.
\* An event is published when its closure is taken.
Unreceived(g) == IF g \in left THEN Append(channel[g], <<current.by, current.bit>>)
                 ELSE channel[g]
NextBit(p) ==
  IF Queued("post") /\ Head(syncedOperations).by = p THEN Head(syncedOperations).bit
  ELSE IF call[p].op = "post" THEN call[p].bit
  ELSE bit[p]

Pending == [g \in Goroutines |-> IF g \in receivers THEN Unreceived(g) ELSE <<>>]

EventHub == INSTANCE Broadcast WITH
  members <- receivers,
  pending <- Pending,
  next <- [p \in Goroutines |-> NextBit(p)]
ImplementsBroadcast == EventHub!Spec

\* Every call of a method of the bus returns: the bus lets each handler "deal
\* with things in their own pace" (application-bus.go:15-16).
CallsReturn == \A g \in Goroutines : (call[g] # NoOp) ~> (call[g] = NoOp)

\* They do as long as nobody who listens calls the bus again, to post or to
\* leave, and the bus is not shut down: the bus waits for the listeners only.
ListenersListen ==
  /\ isRunning
  /\ \A g \in Goroutines : loop[g] # "out" => call[g].op \in {"none", "subscribe"}
CallsReturnToListeners == []ListenersListen => CallsReturn

\* application-bus.go:95-96: Flush waits "until the previous operation is
\* through".
FlushWaits ==
  [][\A g \in Goroutines :
       (call[g] # NoOp /\ call[g].op = "flush" /\ call'[g] = NoOp) => Idle]_vars
==============================================================================
