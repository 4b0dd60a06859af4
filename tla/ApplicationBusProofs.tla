------------------------- MODULE ApplicationBusProofs -------------------------
(***************************************************************************)
(* The bus is a broadcast, for any number of goroutines and any capacity   *)
(* of their channels.                                                      *)
(***************************************************************************)
EXTENDS ApplicationBus, SequenceTheorems, TLAPS

-----------------------------------------------------------------------------
(* The inductive invariant: what is true of the closures under way. *)

Waiting(g, op) == Queued(op) /\ Head(syncedOperations).by = g

\* A closure says who made it.
Signed == \A g \in Goroutines : call[g] # NoOp => call[g].by = g

\* The bus is busy as long as there is a receiver left, and is sending to it.
Sending == /\ Idle <=> left = {}
           /\ ~Idle => at \in left /\ current.op = "post"

\* The bits of a goroutine's events alternate: those of the queued one, of the
\* one to be queued and of the next one.
Alternating == \A p \in Goroutines :
  /\ call[p].op = "post" => bit[p] = 1 - call[p].bit
  /\ Waiting(p, "post") =>
       IF call[p].op = "post" THEN call[p].bit = 1 - Head(syncedOperations).bit
       ELSE bit[p] = 1 - Head(syncedOperations).bit

\* Whoever has yet to become a receiver has an empty channel.
Newcomers == \A g \in Goroutines :
  /\ loop[g] = "out" => call[g].op # "subscribe" /\ ~Waiting(g, "subscribe")
  /\ call[g].op = "subscribe" => loop[g] = "in" /\ ~Waiting(g, "subscribe")
  /\ (loop[g] = "out" \/ call[g].op = "subscribe" \/ Waiting(g, "subscribe"))
       => g \notin receivers /\ channel[g] = <<>>

\* Only who has left asks to be unsubscribed.
Leavers == \A g \in Goroutines :
  call[g].op = "unsubscribe" \/ Waiting(g, "unsubscribe") => loop[g] = "left"

\* Whoever's Subscribe has returned is a receiver, or is about to be.
Joined == \A g \in Goroutines :
  loop[g] = "in" /\ call[g].op # "subscribe" => g \in receivers \/ Waiting(g, "subscribe")

\* The audience of a closure consists of such.
Told(o) == \A g \in o.audience : loop[g] # "out" /\ call[g].op # "subscribe"
Audiences == /\ \A p \in Goroutines : call[p] # NoOp => Told(call[p])
             /\ syncedOperations # <<>> => Told(Head(syncedOperations))

IInv == /\ TypeOK /\ Signed /\ Sending /\ Alternating
        /\ Newcomers /\ Leavers /\ Joined /\ Audiences

-----------------------------------------------------------------------------
(* The queue holds one closure. *)

\* What Accept finds and leaves in syncedOperations.
LEMMA QueueTakes ==
  ASSUME TypeOK, Len(syncedOperations) < 1, NEW o \in Operations
  PROVE  /\ syncedOperations = <<>>
         /\ Append(syncedOperations, o) \in Seq(Operations)
         /\ Len(Append(syncedOperations, o)) = 1
         /\ Append(syncedOperations, o) # <<>>
         /\ Head(Append(syncedOperations, o)) = o
<1>1. syncedOperations \in Seq(Operations)
  BY DEF TypeOK
<1>2. syncedOperations = <<>>
  BY <1>1, EmptySeq
<1> QED
  BY <1>1, <1>2, EmptySeq, AppendProperties, HeadTailAppend

\* What Take finds and leaves there.
LEMMA QueueGives ==
  ASSUME TypeOK, syncedOperations # <<>>
  PROVE  /\ Head(syncedOperations) \in Operations
         /\ Tail(syncedOperations) = <<>>
<1>1. syncedOperations \in Seq(Operations) /\ Len(syncedOperations) <= 1
  BY DEF TypeOK
<1>2. /\ Head(syncedOperations) \in Operations
      /\ Tail(syncedOperations) \in Seq(Operations)
      /\ Len(Tail(syncedOperations)) = Len(syncedOperations) - 1
  BY <1>1, HeadTailProperties
<1>3. Len(syncedOperations) \in Nat /\ Len(syncedOperations) # 0
  BY <1>1, EmptySeq
<1>4. Len(Tail(syncedOperations)) = 0
  BY <1>1, <1>2, <1>3
<1> QED
  BY <1>2, <1>4, EmptySeq

\* A closure is a well-formed one.
LEMMA OperationTyped ==
  ASSUME TypeOK, NEW g \in Goroutines, NEW op \in Methods
  PROVE  Operation(g, op) \in Operations
BY DEF TypeOK, Operation, Operations, Subscribed

-----------------------------------------------------------------------------
(* Types. *)

\* Every step keeps the types.
LEMMA TypesKept == TypeOK /\ Sending /\ [Next]_vars => TypeOK'
<1> SUFFICES ASSUME TypeOK, Sending, [Next]_vars PROVE TypeOK'
  OBVIOUS
<1> USE CallsAssumption, CapacityAssumption, NoneAssumption
<1>1. ASSUME NEW g \in Goroutines, NEW op, Wait(g, op),
             loop' \in [Goroutines -> {"out", "in", "left"}],
             bit' \in [Goroutines -> Bits]
      PROVE  TypeOK'
  <2>1. op \in Methods
    BY <1>1 DEF Wait, Methods
  <2>2. call' \in [Goroutines -> Operations \cup {NoOp}]
    BY <1>1, <2>1, OperationTyped DEF Wait, TypeOK
  <2> QED
    BY <1>1, <2>2 DEF Wait, TypeOK, bus
<1>2. ASSUME NEW g \in Goroutines, Post(g) PROVE TypeOK'
  <2>1. bit[g] \in Bits /\ 1 - bit[g] \in Bits
    BY DEF TypeOK, Bits
  <2>2. bit' \in [Goroutines -> Bits]
    BY <1>2, <2>1 DEF Post, TypeOK
  <2> QED
    BY <1>1, <1>2, <2>2 DEF Post, TypeOK
<1>3. ASSUME NEW g \in Goroutines, Flush(g) \/ Shutdown(g) PROVE TypeOK'
  BY <1>1, <1>3 DEF Flush, Shutdown, TypeOK
<1>4. ASSUME NEW g \in Goroutines, Subscribe(g) \/ Unsubscribe(g) PROVE TypeOK'
  <2>1. loop' \in [Goroutines -> {"out", "in", "left"}] /\ bit' = bit
    BY <1>4 DEF Subscribe, Unsubscribe, TypeOK
  <2> QED
    BY <1>1, <1>4, <2>1 DEF Subscribe, Unsubscribe, TypeOK
<1>5. ASSUME NEW g \in Goroutines, Accept(g) PROVE TypeOK'
  <2>1. call[g] \in Operations
    BY <1>5 DEF Accept, TypeOK
  <2>2. syncedOperations' \in Seq(Operations) /\ Len(syncedOperations') <= 1
    BY <1>5, <2>1, QueueTakes DEF Accept
  <2> QED
    BY <1>5, <2>2 DEF Accept, TypeOK
<1>6. ASSUME NEW g \in Goroutines, Receive(g) PROVE TypeOK'
  <2>1. channel[g] \in Seq(Events) /\ Len(channel[g]) <= Capacity[g] /\ channel[g] # <<>>
    BY <1>6 DEF Receive, TypeOK
  <2>2. Tail(channel[g]) \in Seq(Events) /\ Len(Tail(channel[g])) = Len(channel[g]) - 1
    BY <2>1, HeadTailProperties
  <2>3. Len(channel[g]) \in Nat
    BY <2>1, LenProperties
  <2>4. /\ channel' \in [Goroutines -> Seq(Events)]
        /\ \A h \in Goroutines : Len(channel'[h]) <= Capacity[h]
    BY <1>6, <2>1, <2>2, <2>3 DEF Receive, TypeOK
  <2> QED
    BY <1>6, <2>4 DEF Receive, TypeOK, bus
<1>7. ASSUME Take PROVE TypeOK'
  <2> DEFINE o == Head(syncedOperations)
  <2>1. o \in Operations /\ syncedOperations' = <<>>
    BY <1>7, QueueGives DEF Take
  <2>2. syncedOperations' \in Seq(Operations) /\ Len(syncedOperations') <= 1
    BY <2>1, EmptySeq
  <2>3. o.by \in Goroutines /\ o.op \in Methods
    BY <2>1 DEF Operations
  <2>4. receivers' \subseteq Goroutines /\ isRunning' \in BOOLEAN
    BY <1>7, <2>3 DEF Take, TypeOK
  <2>5. left = {}
    BY <1>7 DEF Take, Sending
  <2>6. CASE o.op = "post" /\ receivers # {}
    <3>1. receivers' = receivers /\ current' = o /\ at' \in receivers /\ left' = receivers
      BY <1>7, <2>6 DEF Take, StartWith
    <3> QED
      BY <1>7, <2>1, <2>2, <2>4, <3>1 DEF Take, TypeOK
  <2>7. CASE ~(o.op = "post" /\ receivers # {})
    <3>1. current' = current /\ at' = at /\ left' = left
      BY <1>7, <2>7 DEF Take
    <3> QED
      BY <1>7, <2>2, <2>4, <2>5, <3>1 DEF Take, TypeOK
  <2> QED
    BY <2>6, <2>7
<1>8. ASSUME Deliver PROVE TypeOK'
  <2>1. at \in left /\ at \in Goroutines /\ current \in Operations
    BY <1>8 DEF Deliver, Idle, Sending, TypeOK
  <2>2. <<current.by, current.bit>> \in Events
    BY <2>1 DEF Operations, Events
  <2>3. channel[at] \in Seq(Events) /\ Len(channel[at]) < Capacity[at]
    BY <1>8, <2>1 DEF Deliver, TypeOK
  <2>4. /\ Append(channel[at], <<current.by, current.bit>>) \in Seq(Events)
        /\ Len(Append(channel[at], <<current.by, current.bit>>)) = Len(channel[at]) + 1
    BY <2>2, <2>3, AppendProperties
  <2>5. Len(channel[at]) \in Nat /\ Capacity[at] \in Nat
    BY <2>1, <2>3, LenProperties
  <2>6. /\ channel' \in [Goroutines -> Seq(Events)]
        /\ \A h \in Goroutines : Len(channel'[h]) <= Capacity[h]
    BY <1>8, <2>1, <2>3, <2>4, <2>5 DEF Deliver, TypeOK
  <2>7. /\ current' \in Operations \cup {NoOp}
        /\ at' \in Goroutines \cup {None} /\ left' \subseteq receivers
    BY <1>8, <2>1 DEF Deliver, StartWith, TypeOK
  <2> QED
    BY <1>8, <2>6, <2>7 DEF Deliver, TypeOK
<1>9. ASSUME UNCHANGED vars PROVE TypeOK'
  BY <1>9 DEF vars, bus, TypeOK
<1> QED
  BY <1>2, <1>3, <1>4, <1>5, <1>6, <1>7, <1>8, <1>9 DEF Next

-----------------------------------------------------------------------------
(* The invariant is inductive. *)

\* Every step of a goroutine that begins a call keeps it.
LEMMA CallsKeep ==
  ASSUME IInv, TypeOK', NEW g \in Goroutines,
         Post(g) \/ Flush(g) \/ Shutdown(g) \/ Subscribe(g) \/ Unsubscribe(g)
  PROVE  IInv'
<1> USE DEF IInv
<1>1. PICK op \in Methods :
        /\ Wait(g, op)
        /\ bit' = IF op = "post" THEN [bit EXCEPT ![g] = 1 - @] ELSE bit
        /\ loop' = IF op = "subscribe" THEN [loop EXCEPT ![g] = "in"]
                   ELSE IF op = "unsubscribe" THEN [loop EXCEPT ![g] = "left"] ELSE loop
        /\ op = "subscribe" => loop[g] = "out"
        /\ op = "unsubscribe" => loop[g] = "in"
  BY DEF Post, Flush, Shutdown, Subscribe, Unsubscribe, Methods
<1>2. /\ UNCHANGED <<receivers, syncedOperations, current, at, left, channel>>
      /\ call[g] = NoOp
      /\ call' = [call EXCEPT ![g] = Operation(g, op)]
      /\ call'[g] = Operation(g, op)
      /\ \A h \in Goroutines : h # g => call'[h] = call[h]
  BY <1>1 DEF Wait, bus, TypeOK
<1>3. /\ Operation(g, op).op = op /\ Operation(g, op).by = g
      /\ Operation(g, op).bit = bit[g]
      /\ \A h \in Operation(g, op).audience : h \in Subscribed
  BY DEF Operation
<1>4. \A h \in Goroutines, m \in Methods : Waiting(h, m)' <=> Waiting(h, m)
  BY <1>2 DEF Waiting, Queued
<1>5. /\ op = "post" => bit'[g] = 1 - bit[g]
      /\ op # "post" => bit'[g] = bit[g]
      /\ op = "subscribe" => loop[g] = "out" /\ loop'[g] = "in"
      /\ op = "unsubscribe" => loop[g] = "in" /\ loop'[g] = "left"
      /\ op \notin {"subscribe", "unsubscribe"} => loop'[g] = loop[g]
      /\ \A h \in Goroutines : h # g => loop'[h] = loop[h] /\ bit'[h] = bit[h]
  BY <1>1 DEF TypeOK
<1>6. Signed'
  BY <1>2, <1>3 DEF Signed
<1>7. Sending'
  BY <1>2 DEF Sending, Idle
<1>8. Alternating'
  BY <1>2, <1>3, <1>4, <1>5 DEF Alternating, NoOp, Methods
<1>9. Newcomers'
  BY <1>2, <1>3, <1>4, <1>5 DEF Newcomers, NoOp, Methods
<1>10. Leavers'
  BY <1>2, <1>3, <1>4, <1>5 DEF Leavers, NoOp, Methods
<1>11. Joined'
  BY <1>2, <1>3, <1>4, <1>5 DEF Joined, NoOp, Methods
<1>12. Audiences'
  <2>1. \A h \in Goroutines : loop[h] # "out" /\ call[h].op # "subscribe"
          => loop'[h] # "out" /\ call'[h].op # "subscribe"
    BY <1>2, <1>3, <1>5
  <2>2. \A h \in call'[g].audience : loop[h] # "out" /\ call[h].op # "subscribe"
    BY <1>2, <1>3 DEF Subscribed, NoOp
  <2>3. call'[g].audience \subseteq Goroutines
    BY <1>2, <1>3 DEF Subscribed
  <2>4. Told(call[g])'
    BY <2>1, <2>2, <2>3 DEF Told
  <2>5. ASSUME NEW p \in Goroutines, p # g, call[p] # NoOp PROVE Told(call[p])'
    <3>1. call'[p] = call[p] /\ call[p].audience \subseteq Goroutines
      BY <1>2, <2>5 DEF TypeOK, Operations
    <3> QED
      BY <2>1, <2>5, <3>1 DEF Audiences, Told
  <2>6. ASSUME syncedOperations # <<>> PROVE Told(Head(syncedOperations))'
    <3>1. Head(syncedOperations).audience \subseteq Goroutines
      BY <2>6, QueueGives DEF Operations
    <3> QED
      BY <1>2, <2>1, <2>6, <3>1 DEF Audiences, Told
  <2> QED
    BY <1>2, <2>4, <2>5, <2>6 DEF Audiences
<1> QED
  BY <1>6, <1>7, <1>8, <1>9, <1>10, <1>11, <1>12
\* So does every closure that is queued.
LEMMA AcceptKeeps ==
  ASSUME IInv, TypeOK', NEW g \in Goroutines, Accept(g)
  PROVE  IInv'
<1> USE DEF IInv
<1>1. /\ UNCHANGED <<receivers, current, at, left, channel, loop, bit>>
      /\ call[g] # NoOp /\ call[g].by = g /\ call[g] \in Operations
      /\ call'[g] = NoOp
      /\ \A h \in Goroutines : h # g => call'[h] = call[h]
  BY DEF Accept, TypeOK, Signed
<1>2. /\ syncedOperations = <<>> /\ syncedOperations' # <<>>
      /\ Head(syncedOperations') = call[g]
  BY <1>1, QueueTakes DEF Accept
<1>3. \A h \in Goroutines, m \in Methods :
        /\ ~Waiting(h, m)
        /\ Waiting(h, m)' <=> h = g /\ call[g].op = m
  BY <1>1, <1>2 DEF Waiting, Queued
<1>4. Signed'
  BY <1>1 DEF Signed
<1>5. Sending'
  BY <1>1 DEF Sending, Idle
<1>6. Alternating'
  <2>1. call[g].op = "post" => call[g].bit \in Bits /\ bit[g] = 1 - call[g].bit
    BY <1>1 DEF Alternating, Operations
  <2> QED
    BY <1>1, <1>2, <1>3, <2>1 DEF Alternating, NoOp, Methods
<1>7. Newcomers'
  BY <1>1, <1>3 DEF Newcomers, NoOp, Methods
<1>8. Leavers'
  BY <1>1, <1>3 DEF Leavers, NoOp, Methods
<1>9. Joined'
  BY <1>1, <1>3 DEF Joined, NoOp, Methods
<1>10. Audiences'
  <2>1. ASSUME NEW p \in Goroutines, call[p] # NoOp
        PROVE  \A h \in call[p].audience : loop'[h] # "out" /\ call'[h].op # "subscribe"
    <3>1. call[p].audience \subseteq Goroutines
      BY <2>1 DEF TypeOK, Operations
    <3> QED
      BY <1>1, <2>1, <3>1 DEF Audiences, Told, NoOp
  <2> QED
    BY <1>1, <1>2, <2>1 DEF Audiences, Told
<1> QED
  BY <1>4, <1>5, <1>6, <1>7, <1>8, <1>9, <1>10

\* So does every event that is received: who receives is no newcomer.
LEMMA ReceiveKeeps ==
  ASSUME IInv, TypeOK', NEW g \in Goroutines, Receive(g)
  PROVE  IInv'
<1> USE DEF IInv
<1>1. /\ UNCHANGED <<bus, call, loop, bit>>
      /\ loop[g] = "in" /\ call[g] = NoOp /\ channel[g] # <<>>
      /\ \A h \in Goroutines : h # g => channel'[h] = channel[h]
  BY DEF Receive, TypeOK
<1>2. \A h \in Goroutines, m \in Methods : Waiting(h, m)' <=> Waiting(h, m)
  BY <1>1 DEF Waiting, Queued, bus
<1>3. Newcomers'
  BY <1>1, <1>2 DEF Newcomers, NoOp, Methods, bus
<1>4. Signed' /\ Sending'
  BY <1>1 DEF Signed, Sending, Idle, bus
<1>5. Alternating' /\ Leavers' /\ Joined'
  BY <1>1, <1>2 DEF Alternating, Leavers, Joined, Waiting, Queued, bus
<1>6. Audiences'
  BY <1>1 DEF Audiences, Told, bus
<1> QED
  BY <1>3, <1>4, <1>5, <1>6

\* So does every closure that is run.
LEMMA TakeKeeps ==
  ASSUME IInv, TypeOK', Take
  PROVE  IInv'
<1> USE DEF IInv
<1> DEFINE o == Head(syncedOperations)
<1>1. /\ UNCHANGED <<channel, call, loop, bit>>
      /\ o \in Operations /\ syncedOperations' = <<>>
      /\ current = NoOp /\ left = {}
  BY QueueGives DEF Take, Idle, Sending
<1>2. /\ o.op = "subscribe" => receivers' = receivers \cup {o.by}
      /\ o.op = "unsubscribe" => receivers' = receivers \ {o.by}
      /\ o.op \notin {"subscribe", "unsubscribe"} => receivers' = receivers
  BY DEF Take
<1>3. \A h \in Goroutines, m \in Methods :
        /\ Waiting(h, m) <=> h = o.by /\ o.op = m
        /\ ~Waiting(h, m)'
  BY <1>1 DEF Waiting, Queued, Take
<1>4. Signed'
  BY <1>1 DEF Signed
<1>5. Sending'
  <2>1. CASE o.op = "post" /\ receivers # {}
    <3>1. current' = o /\ left' = receivers /\ at' \in receivers
      BY <2>1 DEF Take, StartWith
    <3>2. o # NoOp
      BY <1>1 DEF Operations, NoOp, Methods
    <3> QED
      BY <2>1, <3>1, <3>2 DEF Sending, Idle
  <2>2. CASE ~(o.op = "post" /\ receivers # {})
    BY <1>1, <2>2 DEF Take, Sending, Idle
  <2> QED
    BY <2>1, <2>2
<1>6. Alternating' /\ Leavers'
  BY <1>1, <1>3 DEF Alternating, Leavers, Methods
<1>7. Newcomers'
  BY <1>1, <1>2, <1>3 DEF Newcomers, Methods
<1>8. Joined'
  BY <1>1, <1>2, <1>3 DEF Joined, Leavers, Methods
<1>9. Audiences'
  BY <1>1 DEF Audiences, Told
<1> QED
  BY <1>4, <1>5, <1>6, <1>7, <1>8, <1>9

\* So does every event that is sent: a receiver is no newcomer.
LEMMA DeliverKeeps ==
  ASSUME IInv, TypeOK', Deliver
  PROVE  IInv'
<1> USE DEF IInv
<1>1. /\ UNCHANGED <<receivers, syncedOperations, isRunning, call, loop, bit>>
      /\ at \in left /\ at \in receivers /\ at \in Goroutines
      /\ current \in Operations /\ current # NoOp /\ current.op = "post"
      /\ \A h \in Goroutines : h # at => channel'[h] = channel[h]
  BY DEF Deliver, Sending, Idle, TypeOK
<1>2. \A h \in Goroutines, m \in Methods : Waiting(h, m)' <=> Waiting(h, m)
  BY <1>1 DEF Waiting, Queued
<1>3. Sending'
  BY <1>1 DEF Deliver, StartWith, Sending, Idle
<1>4. Newcomers'
  BY <1>1, <1>2 DEF Newcomers, Methods
<1>5. Signed'
  BY <1>1 DEF Signed
<1>6. Alternating' /\ Leavers' /\ Joined'
  BY <1>1, <1>2 DEF Alternating, Leavers, Joined, Methods
<1>7. Audiences'
  BY <1>1 DEF Audiences, Told
<1> QED
  BY <1>3, <1>4, <1>5, <1>6, <1>7

\* Hence every step does.
LEMMA InvariantKept == IInv /\ [Next]_vars => IInv'
<1> SUFFICES ASSUME IInv, [Next]_vars PROVE IInv'
  OBVIOUS
<1>1. TypeOK'
  BY TypesKept DEF IInv
<1>2. CASE UNCHANGED vars
  BY <1>1, <1>2 DEF IInv, vars, bus, Signed, Sending, Idle, Alternating, Newcomers, Leavers,
                    Joined, Audiences, Told, Waiting, Queued
<1>3. CASE Next
  BY <1>1, <1>3, CallsKeep, AcceptKeeps, ReceiveKeeps, TakeKeeps, DeliverKeeps DEF Next
<1> QED
  BY <1>2, <1>3

\* It holds initially.
LEMMA InvariantInitially == Init => IInv
<1> SUFFICES ASSUME Init PROVE IInv
  OBVIOUS
<1> USE CallsAssumption, CapacityAssumption, NoneAssumption DEF Init
<1>1. TypeOK
  <2>1. <<>> \in Seq(Operations) /\ <<>> \in Seq(Events) /\ Len(<<>>) = 0
    BY EmptySeq
  <2> QED
    BY <2>1 DEF TypeOK, NoOp, Bits
<1>2. \A g \in Goroutines : call[g].op = "none" /\ call[g] = NoOp
  BY DEF NoOp
<1>3. \A h \in Goroutines, m \in Methods : ~Waiting(h, m)
  BY DEF Waiting, Queued
<1>4. Signed /\ Sending /\ Alternating /\ Newcomers /\ Leavers /\ Joined /\ Audiences
  BY <1>2, <1>3 DEF Signed, Sending, Idle, Alternating, Newcomers, Leavers, Joined, Audiences,
                    Methods
<1> QED
  BY <1>1, <1>4 DEF IInv

LEMMA Invariant == Spec => []IInv
BY InvariantInitially, InvariantKept, PTL DEF Spec

-----------------------------------------------------------------------------
(* What the bus is for. *)

\* The state of the bus, its queue and the channels within their capacities
\* stay well-formed (application-bus.go:66-120).
THEOREM TypeCorrect == Spec => []TypeOK
<1>1. IInv => TypeOK
  BY DEF IInv
<1> QED
  BY <1>1, Invariant, PTL

\* Whoever had been told that it is subscribed when an event was posted gets
\* it, or has left.
THEOREM Served == Spec => []AudienceIsServed
<1>1. IInv => AudienceIsServed
  <2> SUFFICES ASSUME IInv, Queued("post"), NEW g \in Head(syncedOperations).audience
               PROVE  g \in receivers \/ loop[g] = "left"
    BY DEF AudienceIsServed
  <2>1. g \in Goroutines /\ loop[g] # "out" /\ call[g].op # "subscribe"
    BY QueueGives DEF IInv, Queued, Audiences, Told, Operations
  <2>2. ~Waiting(g, "subscribe")
    BY DEF Queued, Waiting
  <2>3. loop[g] \in {"out", "in", "left"}
    BY <2>1 DEF IInv, TypeOK
  <2> QED
    BY <2>1, <2>2, <2>3 DEF IInv, Joined
<1> QED
  BY <1>1, Invariant, PTL
-----------------------------------------------------------------------------
(* The bus implements Broadcast. *)

\* A call that begins is no step of the broadcast: the bit of the next event is
\* counted on when the closure is run.
LEMMA CallsStutter ==
  ASSUME IInv, NEW g \in Goroutines,
         Post(g) \/ Flush(g) \/ Shutdown(g) \/ Subscribe(g) \/ Unsubscribe(g)
  PROVE  UNCHANGED EventHub!vars
<1> USE DEF IInv
<1>1. PICK op \in Methods :
        Wait(g, op) /\ bit' = IF op = "post" THEN [bit EXCEPT ![g] = 1 - @] ELSE bit
  BY DEF Post, Flush, Shutdown, Subscribe, Unsubscribe, Methods
<1>2. /\ UNCHANGED <<receivers, syncedOperations, current, left, channel>>
      /\ call[g].op = "none" /\ call'[g].op = op /\ call'[g].bit = bit[g]
      /\ op # "post" => bit' = bit
      /\ \A h \in Goroutines : h # g => call'[h] = call[h] /\ bit'[h] = bit[h]
  BY <1>1 DEF Wait, bus, TypeOK, Operation, NoOp
<1>3. Pending' = Pending
  BY <1>2 DEF Pending, Unreceived
<1>4. \A p \in Goroutines : NextBit(p)' = NextBit(p)
  BY <1>2 DEF NextBit, Queued
<1> QED
  BY <1>2, <1>3, <1>4 DEF EventHub!vars

\* Neither is a closure that is queued.
LEMMA AcceptStutters ==
  ASSUME IInv, NEW g \in Goroutines, Accept(g)
  PROVE  UNCHANGED EventHub!vars
<1> USE DEF IInv
<1>1. /\ UNCHANGED <<receivers, current, left, channel, bit>>
      /\ call[g].by = g /\ call[g] \in Operations /\ call'[g].op = "none"
      /\ \A h \in Goroutines : h # g => call'[h] = call[h]
  BY DEF Accept, TypeOK, Signed, NoOp
<1>2. /\ syncedOperations = <<>> /\ syncedOperations' # <<>>
      /\ Head(syncedOperations') = call[g]
  BY <1>1, QueueTakes DEF Accept
<1>3. Pending' = Pending
  BY <1>1 DEF Pending, Unreceived
<1>4. \A p \in Goroutines : NextBit(p)' = NextBit(p)
  BY <1>1, <1>2 DEF NextBit, Queued
<1> QED
  BY <1>1, <1>3, <1>4 DEF EventHub!vars

\* An event that is received is a Receive of a member; what is received by one
\* who is a member no longer is none of the broadcast's business.
LEMMA ReceiveRefines ==
  ASSUME IInv, NEW g \in Goroutines, Receive(g)
  PROVE  EventHub!Receive(g) \/ UNCHANGED EventHub!vars
<1> USE DEF IInv
<1>1. /\ UNCHANGED <<receivers, syncedOperations, current, left, call, bit>>
      /\ channel[g] # <<>> /\ channel' = [channel EXCEPT ![g] = Tail(@)]
  BY DEF Receive, bus
<1>2. \A p \in Goroutines : NextBit(p)' = NextBit(p)
  BY <1>1 DEF NextBit, Queued
<1>3. \A h \in Goroutines : h # g => Unreceived(h)' = Unreceived(h)
  BY <1>1 DEF Unreceived, TypeOK
<1>4. CASE g \in receivers
  <2>1. channel[g] \in Seq(Events) /\ channel'[g] = Tail(channel[g])
    BY <1>1 DEF TypeOK
  <2>2. Unreceived(g) # <<>> /\ Unreceived(g)' = Tail(Unreceived(g))
    <3>1. CASE g \notin left
      BY <1>1, <2>1, <3>1 DEF Unreceived
    <3>2. CASE g \in left
      <4>1. current \in Operations
        BY <3>2 DEF Sending, Idle, TypeOK
      <4>2. <<current.by, current.bit>> \in Events
        BY <4>1 DEF Operations, Events
      <4>3. Tail(Append(channel[g], <<current.by, current.bit>>))
              = Append(Tail(channel[g]), <<current.by, current.bit>>)
        BY <1>1, <2>1, <4>2, HeadTailAppend
      <4>4. Append(channel[g], <<current.by, current.bit>>) # <<>>
        BY <2>1, <4>2, AppendProperties
      <4> QED
        BY <1>1, <2>1, <3>2, <4>3, <4>4 DEF Unreceived
    <3> QED
      BY <3>1, <3>2
  <2>3. Pending[g] = Unreceived(g) /\ Pending' = [Pending EXCEPT ![g] = Tail(@)]
    BY <1>1, <1>3, <1>4, <2>2 DEF Pending
  <2> QED
    BY <1>1, <1>2, <2>2, <2>3 DEF EventHub!Receive
<1>5. CASE g \notin receivers
  <2>1. Pending' = Pending
    BY <1>1, <1>3, <1>5 DEF Pending
  <2> QED
    BY <1>1, <1>2, <2>1 DEF EventHub!vars
<1> QED
  BY <1>4, <1>5

\* Nor is an event that is sent a step: who it is for was settled before.
LEMMA DeliverStutters ==
  ASSUME IInv, Deliver
  PROVE  UNCHANGED EventHub!vars
<1> USE DEF IInv
<1>1. /\ UNCHANGED <<receivers, syncedOperations, call, bit>>
      /\ at \in left /\ left' = left \ {at} /\ at \in Goroutines
      /\ left' # {} => current' = current
      /\ channel' = [channel EXCEPT ![at] = Append(@, <<current.by, current.bit>>)]
  BY DEF Deliver, StartWith, Sending, Idle, TypeOK
<1>2. \A h \in Goroutines : Unreceived(h)' = Unreceived(h)
  BY <1>1 DEF Unreceived, TypeOK
<1>3. Pending' = Pending
  BY <1>1, <1>2 DEF Pending
<1>4. \A p \in Goroutines : NextBit(p)' = NextBit(p)
  BY <1>1 DEF NextBit, Queued
<1> QED
  BY <1>1, <1>3, <1>4 DEF EventHub!vars

\* A closure that is run is a Join, a Leave or a Publish of who made it.
LEMMA TakeRefines ==
  ASSUME IInv, Take
  PROVE  EventHub!Next \/ UNCHANGED EventHub!vars
<1> USE DEF IInv
<1> DEFINE o == Head(syncedOperations)
<1>1. /\ UNCHANGED <<channel, call, loop, bit>> /\ syncedOperations # <<>>
      /\ o \in Operations /\ syncedOperations' = <<>>
      /\ left = {}
  BY QueueGives DEF Take, Idle, Sending
<1>2. o.by \in Goroutines /\ o.op \in Methods /\ o.bit \in Bits
  BY <1>1 DEF Operations
<1>3. \A g \in Goroutines : Unreceived(g) = channel[g]
  BY <1>1 DEF Unreceived
<1>4. ASSUME o.op # "post" PROVE \A p \in Goroutines : NextBit(p)' = NextBit(p)
  BY <1>1, <1>4 DEF NextBit, Queued
<1>5. ASSUME o.op # "post" \/ receivers = {}
      PROVE  \A g \in Goroutines : Unreceived(g)' = channel[g]
  BY <1>1, <1>5 DEF Unreceived, Take
<1>6. CASE o.op = "subscribe"
  <2>1. o.by \notin receivers /\ channel[o.by] = <<>>
    BY <1>1, <1>2, <1>6 DEF Newcomers, Waiting, Queued
  <2>2. receivers' = receivers \cup {o.by}
    BY <1>6 DEF Take
  <2>3. Pending' = Pending
    BY <1>3, <1>5, <1>6, <2>1, <2>2 DEF Pending
  <2>4. EventHub!Join(o.by)
    BY <1>4, <1>6, <2>2, <2>3 DEF EventHub!Join
  <2> QED
    BY <1>2, <2>4 DEF EventHub!Next
<1>7. CASE o.op = "unsubscribe"
  <2>1. receivers' = receivers \ {o.by}
    BY <1>7 DEF Take
  <2>2. Pending' = [Pending EXCEPT ![o.by] = <<>>]
    BY <1>2, <1>3, <1>5, <1>7, <2>1 DEF Pending
  <2>3. EventHub!Leave(o.by)
    BY <1>4, <1>7, <2>1, <2>2 DEF EventHub!Leave
  <2> QED
    BY <1>2, <2>3 DEF EventHub!Next
<1>8. CASE o.op = "post"
  <2> PICK p \in Goroutines : p = o.by
    BY <1>2
  <2>1. NextBit(p) = o.bit /\ NextBit(p)' = 1 - NextBit(p)
    BY <1>1, <1>2, <1>8 DEF NextBit, Queued, Waiting, Alternating
  <2>2. \A q \in Goroutines : q # p => NextBit(q)' = NextBit(q)
    BY <1>1 DEF NextBit, Queued
  <2>3. receivers' = receivers
    BY <1>8 DEF Take
  <2>4. ASSUME NEW g \in Goroutines, g \in receivers
        PROVE  Unreceived(g)' = Append(Unreceived(g), <<o.by, o.bit>>)
    <3>1. left' = receivers /\ current' = o
      BY <1>8, <2>4 DEF Take, StartWith
    <3> QED
      BY <1>1, <1>3, <2>4, <3>1 DEF Unreceived
  <2>5. Pending' = [g \in Goroutines |->
                      IF g \in receivers THEN Append(Pending[g], <<p, NextBit(p)>>)
                      ELSE Pending[g]]
    BY <2>1, <2>3, <2>4 DEF Pending
  <2>6. EventHub!Publish(p)
    BY <2>1, <2>2, <2>3, <2>5 DEF EventHub!Publish
  <2> QED
    BY <2>6 DEF EventHub!Next
<1>9. CASE o.op \in {"flush", "shutdown"}
  <2>1. receivers' = receivers
    BY <1>9 DEF Take
  <2>2. Pending' = Pending
    BY <1>3, <1>5, <1>9, <2>1 DEF Pending
  <2> QED
    BY <1>4, <1>9, <2>1, <2>2 DEF EventHub!vars
<1> QED
  BY <1>2, <1>6, <1>7, <1>8, <1>9 DEF Methods

\* Everybody who is subscribed gets every event that is posted, once, all in
\* the same order, and those of one goroutine in the order of its calls: each
\* step of the bus is one of the broadcast or none.
THEOREM Refines == Spec => ImplementsBroadcast
<1>1. Init => EventHub!Init
  BY DEF Init, EventHub!Init, Pending, Unreceived, NextBit, Queued, NoOp
<1>2. IInv /\ [Next]_vars => [EventHub!Next]_(EventHub!vars)
  <2> SUFFICES ASSUME IInv, [Next]_vars PROVE EventHub!Next \/ UNCHANGED EventHub!vars
    OBVIOUS
  <2>1. CASE UNCHANGED vars
    BY <2>1 DEF vars, bus, EventHub!vars, Pending, Unreceived, NextBit, Queued
  <2>2. CASE Next
    BY <2>2, CallsStutter, AcceptStutters, ReceiveRefines, DeliverStutters, TakeRefines
       DEF Next, EventHub!Next
  <2> QED
    BY <2>1, <2>2
<1> QED
  BY <1>1, <1>2, Invariant, PTL DEF Spec, ImplementsBroadcast, EventHub!Spec
==============================================================================
