---------------------------- MODULE EntranceProofs ----------------------------
(***************************************************************************)
(* What was typed and what is shown at a door does not outlive its time,   *)
(* and the door stays open for its time, for all times of the code and all *)
(* delays of the terminal and of goroutines.                               *)
(***************************************************************************)
EXTENDS Entrance, TLAPS

-----------------------------------------------------------------------------
(* The inductive invariant. *)

Pcs == {"loop", "select", "find", "auth", "post", "panic"} \cup Requests

Handlers == [typed : BOOLEAN, sinceKey : Nat, rfid : {"none"} \cup RFIDs,
             rfidWait : Nat, shown : BOOLEAN, colorLeft : Int]

Loops == [pc : Pcs, code : {"none", "pin", "other"} \cup RFIDs, found : BOOLEAN,
          posts : {"none", "open", "bell"}, color : {"none", "R", "G", "B"},
          sinceTick : Nat, waited : 0 .. Idle, left : 0 .. 2 * AnswerTime]

Openings == [at : {"none", "start", "asleep"}, time : 0 .. OpenTime, late : 0 .. Slack]

Types ==
    /\ member \in AuthResults
    /\ bus \in {<<>>, <<"open">>, <<"bell">>}
    /\ handler \in Handlers
    /\ loop \in Loops
    /\ gpio \in [nextOpen : 0 .. NextOpen, relay : BOOLEAN]
    /\ opening \in [Goroutines -> Openings]
    /\ seen \in [changed : BOOLEAN, on : Nat, stuck : BOOLEAN]

\* The loop has waited only where it waits for events, and shows colors.
Waited ==
    /\ loop.pc \notin {"select", "idle"} => loop.waited = 0
    /\ loop.pc = "show" => loop.color # "none"

\* Digits are as old as the last tick and what it let pass, and that is no
\* longer ago than the code checks, but for the wait for an event.
DigitsAge ==
    handler.typed =>
        /\ loop.sinceTick <= Forced =>
              handler.sinceKey <= KeypadTimeout + AnswerTime + loop.sinceTick
        /\ loop.pc = "select" =>
              handler.sinceKey <= KeypadTimeout + AnswerTime + Forced + loop.waited
        /\ loop.pc \in {"forced", "idle"} =>
              loop.left <= AnswerTime
              /\ handler.sinceKey + loop.left <= KeypadTimeout + AnswerTime

\* The same for the light.
LightsAge ==
    handler.shown =>
        /\ loop.sinceTick <= Forced => handler.colorLeft >= -(AnswerTime + loop.sinceTick)
        /\ loop.pc = "select" => handler.colorLeft >= -(AnswerTime + Forced + loop.waited)
        /\ loop.pc \in {"forced", "idle"} =>
              loop.left <= AnswerTime /\ handler.colorLeft >= loop.left - AnswerTime

\* Without a change the second lookup says what the first one said.
Lookups ==
    /\ loop.pc = "auth" /\ ~seen.changed /\ loop.code \in Codes =>
          (loop.found <=> member # "none")
    /\ loop.pc = "show" /\ loop.color = "B" /\ ~loop.found => seen.changed
    /\ loop.pc = "panic" => seen.changed

\* There is one opening at a time: as long as its goroutine is busy the next
\* one is too early.
OneOpening ==
    /\ \A g, h \in Busy : g = h
    /\ \A g \in Busy : gpio.nextOpen = OpenRateLimit + opening[g].time - opening[g].late
    /\ \A g \in Goroutines : opening[g].at = "start" => opening[g].time = OpenTime
    /\ gpio.relay /\ ~seen.stuck => \E g \in Goroutines : opening[g].at = "asleep"

\* How long the door has been open.
OpenSince ==
    \A g \in Goroutines : opening[g].at = "asleep" /\ gpio.relay =>
        /\ seen.on >= OpenTime - opening[g].time
        /\ ~seen.stuck => seen.on <= OpenTime - opening[g].time + opening[g].late

IInv == Types /\ Waited /\ DigitsAge /\ LightsAge /\ Lookups /\ OneOpening /\ OpenSince

-----------------------------------------------------------------------------
\* Times are numbers.
LEMMA Times ==
  /\ Idle \in Nat \ {0} /\ AnswerTime \in Nat /\ KeypadTimeout \in Nat
  /\ RFIDRepeatDebounce \in Nat /\ OpenTime \in Nat \ {0} /\ OpenRateLimit \in Nat
  /\ Slack \in Nat /\ Slack < OpenRateLimit /\ ColorTime \in [{"R", "G", "B"} -> Nat]
  /\ Forced \in Nat /\ Forced = 4 * Idle /\ Late \in Nat /\ Late = Forced + Idle + AnswerTime + 1
  /\ NextOpen = OpenTime + OpenRateLimit
BY EntranceAssumption DEF Forced, Late, NextOpen

LEMMA InitIInv == Init => IInv
<1> SUFFICES ASSUME Init PROVE IInv
  OBVIOUS
<1> USE Times DEF Init, NewHandler, NewLoop
<1>1. handler \in Handlers /\ loop \in Loops
  BY DEF Handlers, Loops, Pcs
<1>2. Types
  BY <1>1 DEF Types, Openings, AuthResults
<1>3. Waited /\ DigitsAge /\ LightsAge /\ Lookups
  BY DEF Waited, DigitsAge, LightsAge, Lookups
<1>4. Busy = {}
  BY DEF Busy
<1>5. OneOpening /\ OpenSince
  BY <1>4 DEF OneOpening, OpenSince
<1> QED
  BY <1>2, <1>3, <1>5 DEF IInv

-----------------------------------------------------------------------------
(* Time passes. *)

LEMMA PassKeepsLoop ==
  ASSUME IInv, Pass
  PROVE  Waited' /\ DigitsAge' /\ LightsAge' /\ Lookups'
<1> USE Times
<1>0. Types /\ Waited /\ DigitsAge /\ LightsAge /\ Lookups
  BY DEF IInv
<1>1. /\ Waits
      /\ handler' = [handler EXCEPT
            !.sinceKey = IF handler.typed THEN Least(@ + 1, KeypadTimeout + Late) ELSE 0,
            !.rfidWait = Most(@ - 1, 0),
            !.colorLeft = IF handler.shown THEN Most(@ - 1, -Late) ELSE 0]
      /\ loop' = [loop EXCEPT !.sinceTick = Least(@ + 1, Forced + 1),
                              !.waited = IF At("select") THEN @ + 1 ELSE 0,
                              !.left = IF loop.pc \in Requests THEN @ - 1 ELSE 0]
      /\ seen'.changed = seen.changed /\ member' = member
  BY <1>0 DEF Pass, Types, Loops, Handlers
<1>2. /\ loop'.pc = loop.pc /\ loop'.color = loop.color /\ loop'.code = loop.code
      /\ loop'.found = loop.found
      /\ handler'.typed = handler.typed /\ handler'.shown = handler.shown
  BY <1>0, <1>1 DEF Types, Handlers, Loops
<1>3. Waited'
  BY <1>0, <1>1, <1>2 DEF Waited, Types, Loops, At
<1>4. Lookups'
  BY <1>0, <1>1, <1>2 DEF Lookups
<1>5. /\ loop.sinceTick \in Nat /\ loop.waited \in Nat /\ loop.left \in Nat
      /\ handler.sinceKey \in Nat /\ handler.colorLeft \in Int
  BY <1>0 DEF Types, Handlers, Loops
<1>6. loop'.sinceTick <= Forced => loop'.sinceTick = loop.sinceTick + 1
  <2>1. loop'.sinceTick = Least(loop.sinceTick + 1, Forced + 1)
    BY <1>0, <1>1 DEF Types, Loops
  <2> QED
    BY <1>5, <2>1 DEF Least
<1>7. loop.pc = "select" => loop'.waited = loop.waited + 1
  BY <1>0, <1>1, <1>5 DEF At, Types, Loops
<1>8. loop.pc \in {"forced", "idle"} => loop'.left = loop.left - 1
  BY <1>0, <1>1, <1>5 DEF Requests, Types, Loops
<1>9. /\ handler.typed => handler'.sinceKey <= handler.sinceKey + 1
      /\ handler'.sinceKey \in Nat
      /\ handler.shown => handler'.colorLeft >= handler.colorLeft - 1
      /\ handler'.colorLeft \in Int
  <2>1. /\ handler'.sinceKey = IF handler.typed THEN Least(handler.sinceKey + 1, KeypadTimeout + Late) ELSE 0
        /\ handler'.colorLeft = IF handler.shown THEN Most(handler.colorLeft - 1, -Late) ELSE 0
    BY <1>0, <1>1 DEF Types, Handlers
  <2> QED
    BY <1>5, <2>1 DEF Least, Most
<1>10. DigitsAge'
  <2> SUFFICES ASSUME handler.typed PROVE DigitsAge'
    BY <1>2 DEF DigitsAge
  <2>1. ASSUME loop'.sinceTick <= Forced
        PROVE  handler'.sinceKey <= KeypadTimeout + AnswerTime + loop'.sinceTick
    <3>1. loop'.sinceTick = loop.sinceTick + 1 /\ loop.sinceTick <= Forced
      BY <1>5, <1>6, <2>1
    <3>2. handler.sinceKey <= KeypadTimeout + AnswerTime + loop.sinceTick
      BY <1>0, <3>1 DEF DigitsAge
    <3> QED
      BY <1>5, <1>9, <3>1, <3>2
  <2>2. loop.pc = "select" =>
            handler'.sinceKey <= KeypadTimeout + AnswerTime + Forced + loop'.waited
    BY <1>0, <1>5, <1>7, <1>9 DEF DigitsAge
  <2>3. ASSUME loop.pc \in {"forced", "idle"}
        PROVE  /\ loop'.left <= AnswerTime
               /\ handler'.sinceKey + loop'.left <= KeypadTimeout + AnswerTime
    <3>1. /\ loop.left <= AnswerTime
          /\ handler.sinceKey + loop.left <= KeypadTimeout + AnswerTime
      BY <1>0, <2>3 DEF DigitsAge
    <3>2. loop'.left = loop.left - 1
      BY <1>8, <2>3
    <3> QED
      BY <1>5, <1>9, <3>1, <3>2
  <2> QED
    BY <1>2, <2>1, <2>2, <2>3 DEF DigitsAge
<1>11. LightsAge'
  <2> SUFFICES ASSUME handler.shown PROVE LightsAge'
    BY <1>2 DEF LightsAge
  <2>1. ASSUME loop'.sinceTick <= Forced
        PROVE  handler'.colorLeft >= -(AnswerTime + loop'.sinceTick)
    <3>1. loop'.sinceTick = loop.sinceTick + 1 /\ loop.sinceTick <= Forced
      BY <1>5, <1>6, <2>1
    <3>2. handler.colorLeft >= -(AnswerTime + loop.sinceTick)
      BY <1>0, <3>1 DEF LightsAge
    <3> QED
      BY <1>5, <1>9, <3>1, <3>2
  <2>2. loop.pc = "select" =>
            handler'.colorLeft >= -(AnswerTime + Forced + loop'.waited)
    BY <1>0, <1>5, <1>7, <1>9 DEF LightsAge
  <2>3. ASSUME loop.pc \in {"forced", "idle"}
        PROVE  loop'.left <= AnswerTime /\ handler'.colorLeft >= loop'.left - AnswerTime
    <3>1. loop.left <= AnswerTime /\ handler.colorLeft >= loop.left - AnswerTime
      BY <1>0, <2>3 DEF LightsAge
    <3>2. loop'.left = loop.left - 1
      BY <1>8, <2>3
    <3> QED
      BY <1>5, <1>9, <3>1, <3>2
  <2> QED
    BY <1>2, <2>1, <2>2, <2>3 DEF LightsAge
<1> QED
  BY <1>3, <1>4, <1>10, <1>11

LEMMA PassTypes ==
  ASSUME IInv, Pass
  PROVE  Types'
<1> USE Times
<1>0. Types /\ Waited
  BY DEF IInv
<1>1. member' \in AuthResults /\ bus' \in {<<>>, <<"open">>, <<"bell">>}
  BY <1>0 DEF Pass, Types
<1>2. handler' \in Handlers
  <2>1. /\ Least(handler.sinceKey + 1, KeypadTimeout + Late) \in Nat
        /\ Most(handler.rfidWait - 1, 0) \in Nat
        /\ Most(handler.colorLeft - 1, -Late) \in Int
    BY <1>0 DEF Types, Handlers, Least, Most
  <2>2. /\ (IF handler.typed THEN Least(handler.sinceKey + 1, KeypadTimeout + Late) ELSE 0) \in Nat
        /\ (IF handler.shown THEN Most(handler.colorLeft - 1, -Late) ELSE 0) \in Int
    BY <2>1
  <2>3. handler' = [handler EXCEPT
          !.sinceKey = IF handler.typed THEN Least(handler.sinceKey + 1, KeypadTimeout + Late) ELSE 0,
          !.rfidWait = Most(handler.rfidWait - 1, 0),
          !.colorLeft = IF handler.shown THEN Most(handler.colorLeft - 1, -Late) ELSE 0]
    BY <1>0 DEF Pass, Types, Handlers
  <2> QED
    BY <1>0, <2>1, <2>2, <2>3 DEF Types, Handlers
<1>3. loop' \in Loops
  <2>1. Least(loop.sinceTick + 1, Forced + 1) \in Nat
    BY <1>0 DEF Types, Loops, Least
  <2>2. loop.pc = "select" => loop.waited + 1 \in 0 .. Idle
    <3>1. loop.waited \in 0 .. Idle
      BY <1>0 DEF Types, Loops
    <3>2. loop.pc = "select" => loop.waited < Idle
      BY DEF Pass, Waits, At, Requests
    <3> QED
      BY <3>1, <3>2
  <2>3. loop.pc \in Requests => loop.left - 1 \in 0 .. 2 * AnswerTime
    <3> SUFFICES ASSUME loop.pc \in Requests PROVE loop.left - 1 \in 0 .. 2 * AnswerTime
      OBVIOUS
    <3>1. loop.left > 0
      BY DEF Pass, Waits, At, Requests
    <3>2. loop.left \in 0 .. 2 * AnswerTime
      BY <1>0 DEF Types, Loops
    <3> QED
      BY <3>1, <3>2
  <2>4. 0 \in 0 .. Idle /\ 0 \in 0 .. 2 * AnswerTime
    OBVIOUS
  <2> QED
    BY <1>0, <2>1, <2>2, <2>3, <2>4 DEF Pass, Types, Loops, At
<1>4. gpio' \in [nextOpen : 0 .. NextOpen, relay : BOOLEAN]
  <2>1. Most(gpio.nextOpen - 1, 0) \in 0 .. NextOpen
    BY <1>0 DEF Types, Most
  <2> QED
    BY <1>0, <2>1 DEF Pass, Types
<1>5. opening' \in [Goroutines -> Openings]
  <2>1. ASSUME NEW g \in Goroutines
        PROVE  opening'[g] \in Openings
    <3>1. opening[g].time \in 0 .. OpenTime /\ opening[g].late \in 0 .. Slack
      BY <1>0 DEF Types, Openings
    <3>2. g \in Sleeping => opening[g].time - 1 \in 0 .. OpenTime
      BY <3>1 DEF Sleeping
    <3>3. g \in Busy \ Sleeping => opening[g].late + 1 \in 0 .. Slack
      BY <3>1 DEF Pass
    <3> QED
      BY <1>0, <3>2, <3>3 DEF Pass, Types, Openings
  <2> QED
    BY <2>1 DEF Pass
<1>6. seen' \in [changed : BOOLEAN, on : Nat, stuck : BOOLEAN]
  <2>1. Least(seen.on + 1, OpenTime + Slack + 1) \in Nat
    BY <1>0 DEF Types, Least
  <2> QED
    BY <1>0, <2>1 DEF Pass, Types
<1> QED
  BY <1>1, <1>2, <1>3, <1>4, <1>5, <1>6 DEF Types

\* A goroutine that is busy sleeps or is late, by less than the rate limit.
LEMMA PassKeepsDoor ==
  ASSUME IInv, Pass
  PROVE  OneOpening' /\ OpenSince'
<1> USE Times
<1>0. Types /\ OneOpening /\ OpenSince
  BY DEF IInv
<1>1. ASSUME NEW g \in Goroutines
      PROVE  /\ opening'[g].at = opening[g].at
             /\ g \in Sleeping => /\ opening'[g].time = opening[g].time - 1
                                  /\ opening'[g].late = opening[g].late
             /\ g \in Busy \ Sleeping => /\ opening'[g].time = opening[g].time
                                         /\ opening'[g].late = opening[g].late + 1
                                         /\ opening[g].late < Slack
             /\ g \notin Busy => opening'[g] = opening[g]
  BY <1>0 DEF Pass, Types, Openings, Sleeping
<1>2. Busy' = Busy
  BY <1>1 DEF Busy
<1>3. ASSUME NEW g \in Goroutines
      PROVE  opening[g].time \in 0 .. OpenTime /\ opening[g].late \in 0 .. Slack
  BY <1>0 DEF Types, Openings
<1>4. /\ gpio.nextOpen \in Nat /\ seen.on \in Nat
      /\ gpio'.nextOpen = Most(gpio.nextOpen - 1, 0)
      /\ gpio'.relay = gpio.relay /\ seen'.stuck = seen.stuck
      /\ gpio.relay => seen'.on = Least(seen.on + 1, OpenTime + Slack + 1)
  BY <1>0 DEF Pass, Types
<1>5. ASSUME NEW g \in Busy
      PROVE  gpio'.nextOpen = OpenRateLimit + opening'[g].time - opening'[g].late
  <2>1. gpio.nextOpen = OpenRateLimit + opening[g].time - opening[g].late
    BY <1>0 DEF OneOpening
  <2>2. g \in Goroutines
    BY DEF Busy
  <2>3. gpio.nextOpen > 0
    BY <1>3, <2>1, <2>2
  <2>4. gpio'.nextOpen = gpio.nextOpen - 1
    BY <1>4, <2>3 DEF Most
  <2>5. opening'[g].time - opening'[g].late = opening[g].time - opening[g].late - 1
    BY <1>1, <1>3, <2>2
  <2>6. opening'[g].time \in Int /\ opening'[g].late \in Int
    BY <1>1, <1>3, <2>2
  <2> QED
    BY <1>3, <1>4, <2>1, <2>2, <2>4, <2>5, <2>6
<1>6. OneOpening'
  <2>1. \A g \in Goroutines : opening'[g].at = "start" => opening'[g].time = OpenTime
    BY <1>0, <1>1 DEF OneOpening, Sleeping, Busy
  <2>2. gpio'.relay /\ ~seen'.stuck => \E g \in Goroutines : opening'[g].at = "asleep"
    BY <1>0, <1>1, <1>4 DEF OneOpening
  <2> QED
    BY <1>0, <1>2, <1>5, <2>1, <2>2 DEF OneOpening
<1>7. OpenSince'
  <2> SUFFICES ASSUME NEW g \in Goroutines, opening[g].at = "asleep", gpio.relay
               PROVE  /\ seen'.on >= OpenTime - opening'[g].time
                      /\ ~seen.stuck => seen'.on <= OpenTime - opening'[g].time + opening'[g].late
    BY <1>1, <1>4 DEF OpenSince
  <2>1. g \in Busy
    BY DEF Busy
  <2>2. /\ seen.on >= OpenTime - opening[g].time
        /\ ~seen.stuck => seen.on <= OpenTime - opening[g].time + opening[g].late
    BY <1>0 DEF OpenSince
  <2>3. /\ seen'.on <= seen.on + 1
        /\ seen'.on = seen.on + 1 \/ seen'.on = OpenTime + Slack + 1
        /\ seen'.on \in Int
    BY <1>4 DEF Least
  <2>4. \/ opening'[g].time = opening[g].time - 1 /\ opening'[g].late = opening[g].late
        \/ opening'[g].time = opening[g].time /\ opening'[g].late = opening[g].late + 1
    BY <1>1, <2>1
  <2>5. opening'[g].time \in Int /\ opening'[g].late \in Int
    BY <1>3, <2>4
  <2>6. opening'[g].time >= 0
    <3>1. g \in Sleeping => opening[g].time > 0
      BY DEF Sleeping
    <3> QED
      BY <1>1, <1>3, <2>1, <3>1
  <2>7. seen'.on >= OpenTime - opening'[g].time
    BY <1>3, <1>4, <2>2, <2>3, <2>4, <2>5, <2>6
  <2>8. ~seen.stuck => seen'.on <= OpenTime - opening'[g].time + opening'[g].late
    BY <1>3, <1>4, <2>2, <2>3, <2>4, <2>5
  <2> QED
    BY <2>7, <2>8
<1> QED
  BY <1>6, <1>7

-----------------------------------------------------------------------------
(* The event loop, which leaves the door alone. *)

LEMMA DoorRests ==
  ASSUME OneOpening, OpenSince, UNCHANGED door, seen'.on = seen.on, seen'.stuck = seen.stuck
  PROVE  OneOpening' /\ OpenSince'
<1>1. gpio' = gpio /\ opening' = opening
  BY DEF door
<1>2. Busy' = Busy
  BY <1>1 DEF Busy
<1> QED
  BY <1>1, <1>2 DEF OneOpening, OpenSince

\* A tick forgets what is too old.
LEMMA TickForgets ==
  ASSUME NEW kind \in {"forced", "idle"}, IInv, HandleTick(kind),
         loop.waited = 0 \/ kind = "idle"
  PROVE  /\ handler' \in Handlers /\ loop' \in Loops
         /\ Waited' /\ DigitsAge' /\ LightsAge'
         /\ loop'.pc = kind
<1> USE Times
<1>0. Types /\ Waited
  BY DEF IInv
<1> DEFINE n == (IF Forgets THEN 1 ELSE 0) + (IF Darkens THEN 1 ELSE 0)
<1>1. /\ handler.sinceKey \in Nat /\ handler.colorLeft \in Int
      /\ loop.sinceTick \in Nat /\ loop.waited \in 0 .. Idle
  BY <1>0 DEF Types, Handlers, Loops
<1>2. /\ handler' = [handler EXCEPT !.typed = handler.typed /\ ~Forgets,
                                    !.shown = handler.shown /\ ~Darkens,
                                    !.colorLeft = IF Darkens THEN 0 ELSE handler.colorLeft]
      /\ loop' = [loop EXCEPT !.pc = kind, !.left = n * AnswerTime]
  BY <1>0 DEF HandleTick, Ask, Types, Handlers
<1>3. n \in 0 .. 2
  OBVIOUS
<1>4. n * AnswerTime \in 0 .. 2 * AnswerTime
  <2> HIDE DEF n
  <2>1. n = 0 \/ n = 1 \/ n = 2
    BY <1>3
  <2> QED
    BY <2>1
<1>5. handler' \in Handlers
  <2>1. (IF Darkens THEN 0 ELSE handler.colorLeft) \in Int
    BY <1>1
  <2> QED
    BY <1>0, <1>2, <2>1 DEF Types, Handlers, Forgets, Darkens
<1>6. loop' \in Loops
  <2>1. kind \in Pcs
    BY DEF Pcs, Requests
  <2> HIDE DEF n
  <2> QED
    BY <1>0, <1>2, <1>4, <2>1 DEF Types, Loops
<1>7. /\ loop'.pc = kind /\ loop'.sinceTick = loop.sinceTick /\ loop'.left = n * AnswerTime
      /\ loop'.waited = loop.waited /\ loop'.color = loop.color
  BY <1>0, <1>2 DEF Types, Loops
<1>8. Waited'
  BY <1>0, <1>7 DEF Waited
<1>9. DigitsAge'
  <2> SUFFICES ASSUME handler'.typed PROVE DigitsAge'
    BY DEF DigitsAge
  <2>1. ~Forgets /\ handler.typed /\ handler'.sinceKey = handler.sinceKey
    BY <1>0, <1>2 DEF Types, Handlers
  <2>2. handler'.sinceKey <= KeypadTimeout /\ handler'.sinceKey \in Nat
    BY <1>1, <2>1 DEF Forgets
  <2>3. n = 0 \/ n = 1
    BY <2>1
  <2> HIDE DEF n
  <2>4. loop'.left = 0 \/ loop'.left = AnswerTime
    BY <1>7, <2>3
  <2>5. handler'.sinceKey <= KeypadTimeout + AnswerTime + loop'.sinceTick
    BY <1>1, <1>7, <2>2
  <2>6. loop'.left <= AnswerTime /\ handler'.sinceKey + loop'.left <= KeypadTimeout + AnswerTime
    BY <2>2, <2>4
  <2> QED
    BY <1>7, <2>5, <2>6 DEF DigitsAge
<1>10. LightsAge'
  <2> SUFFICES ASSUME handler'.shown PROVE LightsAge'
    BY DEF LightsAge
  <2>1. ~Darkens /\ handler.shown /\ handler'.colorLeft = handler.colorLeft
    BY <1>0, <1>2 DEF Types, Handlers
  <2>2. handler'.colorLeft >= 0 /\ handler'.colorLeft \in Int
    BY <1>1, <2>1 DEF Darkens
  <2>3. n = 0 \/ n = 1
    BY <2>1
  <2> HIDE DEF n
  <2>4. loop'.left = 0 \/ loop'.left = AnswerTime
    BY <1>7, <2>3
  <2>5. handler'.colorLeft >= -(AnswerTime + loop'.sinceTick)
    BY <1>1, <1>7, <2>2
  <2>6. loop'.left <= AnswerTime /\ handler'.colorLeft >= loop'.left - AnswerTime
    BY <2>2, <2>4
  <2> QED
    BY <1>7, <2>5, <2>6 DEF LightsAge
<1> QED
  BY <1>5, <1>6, <1>7, <1>8, <1>9, <1>10

\* A step away from ticks that, at most, begins a code or a light.
LEMMA AgesStay ==
  ASSUME IInv, handler' \in Handlers, loop' \in Loops,
         loop'.pc \notin {"select", "forced", "idle"},
         loop'.sinceTick = loop.sinceTick,
         handler'.typed => \/ handler.typed /\ handler'.sinceKey = handler.sinceKey
                           \/ handler'.sinceKey = 0,
         handler'.shown => \/ handler.shown /\ handler'.colorLeft = handler.colorLeft
                           \/ handler'.colorLeft \in Nat
  PROVE  DigitsAge' /\ LightsAge'
<1> USE Times
<1>0. DigitsAge /\ LightsAge
  BY DEF IInv
<1>1. loop'.sinceTick \in Nat /\ handler'.sinceKey \in Nat /\ handler'.colorLeft \in Int
  BY DEF Handlers, Loops
<1>2. ASSUME handler'.typed, loop'.sinceTick <= Forced
      PROVE  handler'.sinceKey <= KeypadTimeout + AnswerTime + loop'.sinceTick
  <2>1. CASE handler'.sinceKey = 0
    BY <1>1, <2>1
  <2>2. CASE handler.typed /\ handler'.sinceKey = handler.sinceKey
    BY <1>0, <1>2, <2>2 DEF DigitsAge
  <2> QED
    BY <1>2, <2>1, <2>2
<1>3. ASSUME handler'.shown, loop'.sinceTick <= Forced
      PROVE  handler'.colorLeft >= -(AnswerTime + loop'.sinceTick)
  <2>1. CASE handler'.colorLeft \in Nat
    BY <1>1, <2>1
  <2>2. CASE handler.shown /\ handler'.colorLeft = handler.colorLeft
    BY <1>0, <1>3, <2>2 DEF LightsAge
  <2> QED
    BY <1>3, <2>1, <2>2
<1> QED
  BY <1>2, <1>3 DEF DigitsAge, LightsAge

LEMMA BeginLoopKeeps == IInv /\ BeginLoop => IInv'
<1> SUFFICES ASSUME IInv, BeginLoop PROVE IInv'
  OBVIOUS
<1> USE Times
<1>0. Types /\ Waited /\ DigitsAge /\ LightsAge /\ OneOpening /\ OpenSince
  BY DEF IInv
<1>1. /\ member' = member /\ bus' = bus /\ gpio' = gpio /\ opening' = opening /\ seen' = seen
      /\ loop.pc = "loop" /\ loop.waited = 0
  BY <1>0 DEF BeginLoop, door, At, Waited
<1>2. OneOpening' /\ OpenSince'
  BY <1>0, <1>1, DoorRests DEF door
<1>3. CASE loop.sinceTick > Forced /\ HandleTick("forced")
  <2>1. /\ handler' \in Handlers /\ loop' \in Loops
        /\ Waited' /\ DigitsAge' /\ LightsAge' /\ loop'.pc = "forced"
    BY <1>1, <1>3, TickForgets
  <2>2. Types'
    BY <1>0, <1>1, <2>1 DEF Types
  <2>3. Lookups'
    BY <2>1 DEF Lookups
  <2> QED
    BY <1>2, <2>1, <2>2, <2>3 DEF IInv
<1>4. CASE loop.sinceTick <= Forced /\ loop' = [loop EXCEPT !.pc = "select"] /\ handler' = handler
  <2>1. loop' \in Loops
    BY <1>0, <1>4 DEF Types, Loops, Pcs
  <2>2. /\ loop'.pc = "select" /\ loop'.sinceTick = loop.sinceTick /\ loop'.waited = 0
        /\ loop.sinceTick \in Nat /\ handler.sinceKey \in Nat /\ handler.colorLeft \in Int
    BY <1>0, <1>1, <1>4 DEF Types, Loops, Handlers
  <2>3. Types' /\ Waited' /\ Lookups'
    BY <1>0, <1>1, <1>4, <2>1, <2>2 DEF Types, Waited, Lookups
  <2>4. DigitsAge'
    <3> SUFFICES ASSUME handler.typed PROVE DigitsAge'
      BY <1>4 DEF DigitsAge
    <3>1. handler.sinceKey <= KeypadTimeout + AnswerTime + loop.sinceTick
      BY <1>0, <1>4 DEF DigitsAge
    <3>2. handler.sinceKey <= KeypadTimeout + AnswerTime + Forced + 0
      BY <1>4, <2>2, <3>1
    <3> QED
      BY <1>4, <2>2, <3>1, <3>2 DEF DigitsAge
  <2>5. LightsAge'
    <3> SUFFICES ASSUME handler.shown PROVE LightsAge'
      BY <1>4 DEF LightsAge
    <3>1. handler.colorLeft >= -(AnswerTime + loop.sinceTick)
      BY <1>0, <1>4 DEF LightsAge
    <3>2. handler.colorLeft >= -(AnswerTime + Forced + 0)
      BY <1>4, <2>2, <3>1
    <3> QED
      BY <1>4, <2>2, <3>1, <3>2 DEF LightsAge
  <2> QED
    BY <1>2, <2>3, <2>4, <2>5 DEF IInv
<1>5. loop.sinceTick \in Nat
  BY <1>0 DEF Types, Loops
<1> QED
  BY <1>3, <1>4, <1>5 DEF BeginLoop, GoTo

LEMMA IdleTickKeeps == IInv /\ IdleTick => IInv'
<1> SUFFICES ASSUME IInv, IdleTick PROVE IInv'
  OBVIOUS
<1>0. Types /\ OneOpening /\ OpenSince
  BY DEF IInv
<1>1. /\ member' = member /\ bus' = bus /\ gpio' = gpio /\ opening' = opening /\ seen' = seen
      /\ HandleTick("idle")
  BY DEF IdleTick, door
<1>2. /\ handler' \in Handlers /\ loop' \in Loops
      /\ Waited' /\ DigitsAge' /\ LightsAge' /\ loop'.pc = "idle"
  BY <1>1, TickForgets
<1>3. Types'
  BY <1>0, <1>1, <1>2 DEF Types
<1>4. Lookups'
  BY <1>2 DEF Lookups
<1>5. OneOpening' /\ OpenSince'
  BY <1>0, <1>1, DoorRests DEF door
<1> QED
  BY <1>2, <1>3, <1>4, <1>5 DEF IInv

\* After a tick nothing is older than the tick's requests.
LEMMA EndTickKeeps == IInv /\ EndTick => IInv'
<1> SUFFICES ASSUME IInv, EndTick PROVE IInv'
  OBVIOUS
<1> USE Times
<1>0. Types /\ Waited /\ DigitsAge /\ LightsAge /\ OneOpening /\ OpenSince
  BY DEF IInv
<1>1. /\ member' = member /\ bus' = bus /\ gpio' = gpio /\ opening' = opening /\ seen' = seen
      /\ handler' = handler /\ loop.pc \in {"forced", "idle", "ping"}
  BY DEF EndTick, door
<1>2. OneOpening' /\ OpenSince'
  BY <1>0, <1>1, DoorRests DEF door
<1>3. PICK pc \in CASE At("forced") -> {"select"}
                    [] At("idle") -> {"loop", "ping"}
                    [] OTHER -> {"loop"} :
        loop' = [loop EXCEPT !.pc = pc, !.waited = 0,
                     !.left = IF pc = "ping" THEN AnswerTime ELSE 0,
                     !.sinceTick = IF At("ping") THEN loop.sinceTick ELSE 0]
  BY <1>0 DEF EndTick, Types, Loops
<1>4. /\ pc \in {"select", "loop", "ping"}
      /\ loop.pc = "ping" => pc = "loop"
  BY <1>1, <1>3 DEF At
<1>5. /\ loop.sinceTick \in Nat /\ handler.sinceKey \in Nat /\ handler.colorLeft \in Int
      /\ loop.left \in Nat
  BY <1>0 DEF Types, Loops, Handlers
<1>6. loop' \in Loops
  <2>1. (IF pc = "ping" THEN AnswerTime ELSE 0) \in 0 .. 2 * AnswerTime /\ 0 \in 0 .. Idle
    OBVIOUS
  <2>2. (IF At("ping") THEN loop.sinceTick ELSE 0) \in Nat
    BY <1>5
  <2>3. pc \in Pcs
    BY <1>4 DEF Pcs, Requests
  <2> QED
    BY <1>0, <1>3, <2>1, <2>2, <2>3 DEF Types, Loops
<1>7. /\ loop'.pc = pc /\ loop'.waited = 0
      /\ loop.pc = "ping" => loop'.sinceTick = loop.sinceTick
      /\ loop.pc # "ping" => loop'.sinceTick = 0
  BY <1>0, <1>3 DEF Types, Loops, At
<1>8. Types' /\ Waited' /\ Lookups'
  BY <1>0, <1>1, <1>4, <1>6, <1>7 DEF Types, Waited, Lookups
<1>9. CASE loop.pc = "ping"
  <2>1. DigitsAge' /\ LightsAge'
    BY <1>0, <1>1, <1>4, <1>5, <1>6, <1>7, <1>8, <1>9, AgesStay DEF Types
  <2> QED
    BY <1>2, <1>8, <2>1 DEF IInv
<1>10. CASE loop.pc # "ping"
  <2>1. DigitsAge'
    <3> SUFFICES ASSUME handler.typed PROVE DigitsAge'
      BY <1>1 DEF DigitsAge
    <3>1. handler.sinceKey + loop.left <= KeypadTimeout + AnswerTime
      BY <1>0, <1>1, <1>10 DEF DigitsAge
    <3>2. /\ handler.sinceKey <= KeypadTimeout + AnswerTime + 0
          /\ handler.sinceKey <= KeypadTimeout + AnswerTime + Forced + 0
      BY <1>5, <3>1
    <3> QED
      BY <1>1, <1>4, <1>7, <1>10, <3>2 DEF DigitsAge
  <2>2. LightsAge'
    <3> SUFFICES ASSUME handler.shown PROVE LightsAge'
      BY <1>1 DEF LightsAge
    <3>1. handler.colorLeft >= loop.left - AnswerTime
      BY <1>0, <1>1, <1>10 DEF LightsAge
    <3>2. /\ handler.colorLeft >= -(AnswerTime + 0)
          /\ handler.colorLeft >= -(AnswerTime + Forced + 0)
      BY <1>5, <3>1
    <3> QED
      BY <1>1, <1>4, <1>7, <1>10, <3>2 DEF LightsAge
  <2> QED
    BY <1>2, <1>8, <2>1, <2>2 DEF IInv
<1> QED
  BY <1>9, <1>10

\* What is left to show of a step of the loop that is none of a tick.
LEMMA LoopStep ==
  ASSUME IInv, Types', Waited', Lookups', UNCHANGED door, seen'.on = seen.on, seen'.stuck = seen.stuck,
         loop'.pc \notin {"select", "forced", "idle"},
         loop'.sinceTick = loop.sinceTick,
         handler'.typed => \/ handler.typed /\ handler'.sinceKey = handler.sinceKey
                           \/ handler'.sinceKey = 0,
         handler'.shown => \/ handler.shown /\ handler'.colorLeft = handler.colorLeft
                           \/ handler'.colorLeft \in Nat
  PROVE  IInv'
<1>1. handler' \in Handlers /\ loop' \in Loops
  BY DEF Types
<1>2. DigitsAge' /\ LightsAge'
  BY <1>1, AgesStay
<1>3. OneOpening /\ OpenSince
  BY DEF IInv
<1>4. OneOpening' /\ OpenSince'
  BY <1>3, DoorRests
<1> QED
  BY <1>2, <1>4 DEF IInv

LEMMA AppEventKeeps == IInv /\ AppEvent => IInv'
<1> SUFFICES ASSUME IInv, AppEvent PROVE IInv'
  OBVIOUS
<1> USE Times
<1>0. Types
  BY DEF IInv
<1>1. PICK pc \in {"loop", "show"}, color \in {"none", "R", "B", "G"}, left \in {loop.left, AnswerTime} :
        /\ loop' = [loop EXCEPT !.pc = pc, !.color = color, !.waited = 0, !.left = left]
        /\ pc = "show" => color = "G"
  <2>1. CASE loop' = [loop EXCEPT !.pc = "loop", !.waited = 0]
    <3>1. loop' = [loop EXCEPT !.pc = "loop", !.color = loop.color, !.waited = 0, !.left = loop.left]
      BY <1>0, <2>1 DEF Types, Loops
    <3>2. loop.color \in {"none", "R", "B", "G"}
      BY <1>0 DEF Types, Loops
    <3> QED
      BY <3>1, <3>2
  <2>2. CASE loop' = [loop EXCEPT !.pc = "show", !.color = "G", !.waited = 0, !.left = AnswerTime]
    BY <2>2
  <2> QED
    BY <2>1, <2>2 DEF AppEvent
<1>2. /\ member' = member /\ bus' = bus /\ handler' = handler /\ seen' = seen
      /\ UNCHANGED door
  BY DEF AppEvent
<1>3. gpio' = gpio /\ opening' = opening
  BY <1>2 DEF door
<1>4. /\ loop'.pc = pc /\ loop'.color = color /\ loop'.waited = 0 /\ loop'.sinceTick = loop.sinceTick
      /\ loop' \in Loops
  <2>1. left \in 0 .. 2 * AnswerTime /\ 0 \in 0 .. Idle
    <3>1. loop.left \in 0 .. 2 * AnswerTime
      BY <1>0 DEF Types, Loops
    <3> QED
      BY <3>1
  <2>2. pc \in Pcs
    BY DEF Pcs, Requests
  <2> QED
    BY <1>0, <1>1, <2>1, <2>2 DEF Types, Loops
<1>5. Types' /\ Waited' /\ Lookups'
  BY <1>0, <1>1, <1>2, <1>3, <1>4 DEF Types, Waited, Lookups
<1> QED
  BY <1>2, <1>4, <1>5, LoopStep

LEMMA SetColorKeeps == IInv /\ SetColor => IInv'
<1> SUFFICES ASSUME IInv, SetColor PROVE IInv'
  OBVIOUS
<1> USE Times
<1>0. Types /\ Waited /\ Lookups
  BY DEF IInv
<1>1. /\ loop.pc = "show" /\ loop.color \in {"R", "G", "B"} /\ loop.waited = 0
      /\ handler' = [handler EXCEPT !.shown = TRUE, !.colorLeft = ColorTime[loop.color]]
      /\ member' = member /\ bus' = bus /\ seen' = seen /\ UNCHANGED door
  BY <1>0 DEF SetColor, At, Waited, Types, Loops
<1>2. gpio' = gpio /\ opening' = opening
  BY <1>1 DEF door
<1>3. PICK pc \in Pcs, left \in {0, AnswerTime} :
        /\ loop' = [loop EXCEPT !.color = "none", !.left = left, !.pc = pc]
        /\ pc \in {"loop", "buzz", "post", "panic"}
        /\ pc = "panic" => loop.color = "B" /\ ~loop.found
  <2> DEFINE pc == CASE loop.color = "G" -> "loop"
                     [] loop.color = "R" -> "buzz"
                     [] OTHER -> IF loop.found THEN "post" ELSE "panic"
  <2>1. pc \in {"loop", "buzz", "post", "panic"} /\ (pc = "panic" => loop.color = "B" /\ ~loop.found)
    BY <1>1
  <2>2. pc \in Pcs
    BY <2>1 DEF Pcs, Requests
  <2>3. loop' = [loop EXCEPT !.color = "none",
                     !.left = IF loop.color = "R" THEN AnswerTime ELSE 0, !.pc = pc]
    BY DEF SetColor
  <2> HIDE DEF pc
  <2> QED
    BY <2>1, <2>2, <2>3
<1>4. /\ loop'.pc = pc /\ loop'.color = "none" /\ loop'.waited = 0
      /\ loop'.sinceTick = loop.sinceTick /\ loop' \in Loops
  <2>1. left \in 0 .. 2 * AnswerTime
    OBVIOUS
  <2> QED
    BY <1>0, <1>1, <1>3, <2>1 DEF Types, Loops
<1>5. /\ ColorTime[loop.color] \in Nat
      /\ handler'.typed = handler.typed /\ handler'.sinceKey = handler.sinceKey
      /\ handler'.colorLeft \in Nat /\ handler' \in Handlers
  <2>1. ColorTime[loop.color] \in Nat
    BY <1>1
  <2>2. ColorTime[loop.color] \in Int
    BY <2>1
  <2> QED
    BY <1>0, <1>1, <2>1, <2>2 DEF Types, Handlers
<1>6. Types' /\ Waited'
  BY <1>0, <1>1, <1>2, <1>3, <1>4, <1>5 DEF Types, Waited
<1>7. Lookups'
  BY <1>0, <1>1, <1>3, <1>4 DEF Lookups
<1> QED
  BY <1>1, <1>3, <1>4, <1>5, <1>6, <1>7, LoopStep

\* An event of the terminal is taken, and a check or nothing begins.
LEMMA TakeEventKeeps ==
  ASSUME IInv, NEW there \in Loops, TakeEvent(there), handler' \in Handlers,
         there.pc \in {"loop", "find", "post"}, there.sinceTick = loop.sinceTick,
         handler'.typed => \/ handler.typed /\ handler'.sinceKey = handler.sinceKey
                           \/ handler'.sinceKey = 0,
         handler'.shown = handler.shown, handler'.colorLeft = handler.colorLeft
  PROVE  IInv'
<1> USE Times
<1>0. Types
  BY DEF IInv
<1>1. /\ loop' = [there EXCEPT !.waited = 0]
      /\ member' = member /\ bus' = bus /\ seen' = seen /\ UNCHANGED door
  BY DEF TakeEvent
<1>2. gpio' = gpio /\ opening' = opening
  BY <1>1 DEF door
<1>3. /\ loop'.pc = there.pc /\ loop'.waited = 0 /\ loop'.sinceTick = loop.sinceTick
      /\ loop' \in Loops
  <2>1. 0 \in 0 .. Idle
    OBVIOUS
  <2> QED
    BY <1>0, <1>1, <2>1 DEF Types, Loops
<1>4. Types' /\ Waited' /\ Lookups'
  BY <1>0, <1>1, <1>2, <1>3 DEF Types, Waited, Lookups
<1> QED
  BY <1>1, <1>3, <1>4, LoopStep

LEMMA KeysKeep == IInv /\ (Enter \/ Clear \/ Digit) => IInv'
<1> SUFFICES ASSUME IInv, Enter \/ Clear \/ Digit PROVE IInv'
  OBVIOUS
<1>0. Types
  BY DEF IInv
<1>1. ASSUME NEW typed \in BOOLEAN, Touched(typed)
      PROVE  /\ handler' \in Handlers /\ handler'.sinceKey = 0
             /\ handler'.shown = handler.shown /\ handler'.colorLeft = handler.colorLeft
  BY <1>0, <1>1 DEF Touched, Types, Handlers
<1>2. /\ \A code \in {"pin", "other"} :
            /\ Check(code) \in Loops /\ Check(code).pc = "find"
            /\ Check(code).sinceTick = loop.sinceTick
      /\ Then("loop") \in Loops /\ Then("loop").pc = "loop"
      /\ Then("loop").sinceTick = loop.sinceTick
      /\ [Then("post") EXCEPT !.posts = "bell"] \in Loops
      /\ [Then("post") EXCEPT !.posts = "bell"].pc = "post"
      /\ [Then("post") EXCEPT !.posts = "bell"].sinceTick = loop.sinceTick
  BY <1>0 DEF Check, Then, Types, Loops, Pcs
<1>3. PICK typed \in BOOLEAN, there \in Loops :
        /\ Touched(typed) /\ TakeEvent(there)
        /\ there.pc \in {"loop", "find", "post"} /\ there.sinceTick = loop.sinceTick
  <2>1. CASE Enter
    BY <1>2, <2>1 DEF Enter
  <2>2. CASE Clear
    BY <1>2, <2>2 DEF Clear
  <2>3. CASE Digit
    BY <1>2, <2>3 DEF Digit
  <2> QED
    BY <2>1, <2>2, <2>3
<1> QED
  BY <1>1, <1>3, TakeEventKeeps

LEMMA RFIDKeeps == IInv /\ HandleRFID => IInv'
<1> SUFFICES ASSUME IInv, HandleRFID PROVE IInv'
  OBVIOUS
<1>0. Types
  BY DEF IInv
<1>1. PICK rfid \in RFIDs :
        TakeEvent(IF rfid = handler.rfid /\ handler.rfidWait > 0 THEN Then("loop") ELSE Check(rfid))
  BY DEF HandleRFID
<1>2. handler' = handler /\ handler' \in Handlers
  BY <1>0 DEF HandleRFID, Types
<1>3. /\ Check(rfid) \in Loops /\ Check(rfid).pc = "find"
      /\ Check(rfid).sinceTick = loop.sinceTick
      /\ Then("loop") \in Loops /\ Then("loop").pc = "loop"
      /\ Then("loop").sinceTick = loop.sinceTick
  BY <1>0 DEF Check, Then, Types, Loops, Pcs
<1>4. PICK there \in Loops :
        /\ TakeEvent(there)
        /\ there.pc \in {"loop", "find", "post"} /\ there.sinceTick = loop.sinceTick
  BY <1>1, <1>3
<1> QED
  BY <1>2, <1>4, TakeEventKeeps

-----------------------------------------------------------------------------
(* A check. *)

\* The first lookup of a check.
LEMMA FindUserKeeps == IInv /\ FindUser => IInv'
<1> SUFFICES ASSUME IInv, FindUser PROVE IInv'
  OBVIOUS
<1>0. Types /\ Waited
  BY DEF IInv
<1>1. /\ loop.pc = "find" /\ loop.waited = 0 /\ member' \in AuthResults
      /\ bus' = bus /\ handler' = handler /\ UNCHANGED door
      /\ seen' = [seen EXCEPT !.changed = FALSE]
  BY <1>0 DEF FindUser, At, Waited
<1>2. gpio' = gpio /\ opening' = opening
  BY <1>1 DEF door
<1>3. PICK found \in BOOLEAN :
        /\ loop' = [loop EXCEPT !.pc = "auth", !.found = found]
        /\ found <=> ResultFor(loop.code, member') # "none"
  BY DEF FindUser
<1>4. /\ loop'.pc = "auth" /\ loop'.waited = 0 /\ loop'.sinceTick = loop.sinceTick
      /\ loop'.code = loop.code /\ loop'.found = found /\ loop' \in Loops
  BY <1>0, <1>1, <1>3 DEF Types, Loops, Pcs
<1>5. Types' /\ Waited'
  BY <1>0, <1>1, <1>2, <1>4 DEF Types, Waited
<1>6. Lookups'
  BY <1>3, <1>4 DEF Lookups, ResultFor
<1>7. seen'.on = seen.on /\ seen'.stuck = seen.stuck
  BY <1>0, <1>1 DEF Types
<1> QED
  BY <1>1, <1>4, <1>5, <1>6, <1>7, LoopStep

\* The second one.
LEMMA AuthUserKeeps == IInv /\ AuthUser => IInv'
<1> SUFFICES ASSUME IInv, AuthUser PROVE IInv'
  OBVIOUS
<1>0. Types /\ Waited /\ Lookups
  BY DEF IInv
<1>1. /\ loop.pc = "auth" /\ loop.waited = 0 /\ member' = "none"
      /\ bus' = bus /\ handler' = handler /\ seen' = seen /\ UNCHANGED door
  BY <1>0 DEF AuthUser, At, Waited
<1>2. gpio' = gpio /\ opening' = opening
  BY <1>1 DEF door
<1>3. PICK pc \in {"granted", "show"}, color \in {"none", "R", "B"} :
        /\ loop' = [loop EXCEPT !.pc = pc, !.color = color, !.left = AnswerTime]
        /\ pc = "show" => color = Denial
  BY DEF AuthUser, Denial
<1>4. /\ loop'.pc = pc /\ loop'.color = color /\ loop'.found = loop.found
      /\ loop'.waited = 0 /\ loop'.sinceTick = loop.sinceTick /\ loop' \in Loops
  <2>1. AnswerTime \in 0 .. 2 * AnswerTime
    BY Times
  <2>2. pc \in Pcs
    BY DEF Pcs, Requests
  <2> QED
    BY <1>0, <1>1, <1>3, <2>1, <2>2 DEF Types, Loops
<1>5. Types'
  BY <1>0, <1>1, <1>2, <1>4 DEF Types, AuthResults
<1>6. Waited'
  BY <1>3, <1>4 DEF Waited, Denial
<1>7. Lookups'
  <2> SUFFICES ASSUME pc = "show", color = "B", ~loop.found
               PROVE  seen.changed
    BY <1>1, <1>4 DEF Lookups
  <2>1. Denial = "B"
    BY <1>3
  <2>2. loop.code \in Codes /\ member # "none"
    BY <2>1 DEF Denial, ResultFor
  <2> QED
    BY <1>0, <1>1, <2>2 DEF Lookups
<1> QED
  BY <1>1, <1>3, <1>4, <1>5, <1>6, <1>7, LoopStep

LEMMA BuzzGrantedKeeps == IInv /\ BuzzGranted => IInv'
<1> SUFFICES ASSUME IInv, BuzzGranted PROVE IInv'
  OBVIOUS
<1>0. Types /\ Waited
  BY DEF IInv
<1>1. /\ loop.pc = "granted" /\ loop.waited = 0
      /\ loop' = [loop EXCEPT !.pc = "post", !.posts = "open", !.left = 0]
      /\ member' = member /\ bus' = bus /\ handler' = handler /\ seen' = seen /\ UNCHANGED door
  BY <1>0 DEF BuzzGranted, At, Waited
<1>2. gpio' = gpio /\ opening' = opening
  BY <1>1 DEF door
<1>3. /\ loop'.pc = "post" /\ loop'.waited = 0 /\ loop'.sinceTick = loop.sinceTick
      /\ loop' \in Loops
  <2>1. 0 \in 0 .. 2 * AnswerTime
    BY Times
  <2> QED
    BY <1>0, <1>1, <2>1 DEF Types, Loops, Pcs
<1>4. Types' /\ Waited' /\ Lookups'
  BY <1>0, <1>1, <1>2, <1>3 DEF Types, Waited, Lookups
<1> QED
  BY <1>1, <1>3, <1>4, LoopStep

\* The end of a check forgets what was typed, or takes note of the card.
LEMMA EndCheckIs ==
  ASSUME IInv, EndCheck, loop.waited = 0
  PROVE  /\ handler' \in Handlers /\ loop' \in Loops
         /\ loop'.pc = "loop" /\ loop'.waited = 0 /\ loop'.sinceTick = loop.sinceTick
         /\ handler'.typed => handler.typed /\ handler'.sinceKey = handler.sinceKey
         /\ handler'.shown = handler.shown /\ handler'.colorLeft = handler.colorLeft
<1>0. Types
  BY DEF IInv
<1>1. 0 \in 0 .. 2 * AnswerTime /\ RFIDRepeatDebounce \in Nat
  BY Times
<1>2. loop' \in Loops /\ loop'.pc = "loop" /\ loop'.waited = 0 /\ loop'.sinceTick = loop.sinceTick
  BY <1>0, <1>1 DEF EndCheck, Types, Loops, Pcs
<1>3. CASE loop.code \in RFIDs
  BY <1>0, <1>1, <1>2, <1>3 DEF EndCheck, Types, Handlers
<1>4. CASE loop.code \notin RFIDs
  BY <1>0, <1>2, <1>4 DEF EndCheck, Types, Handlers
<1> QED
  BY <1>3, <1>4

LEMMA PostKeeps == IInv /\ Post => IInv'
<1> SUFFICES ASSUME IInv, Post PROVE IInv'
  OBVIOUS
<1>0. Types /\ Waited
  BY DEF IInv
<1>1. /\ loop.pc = "post" /\ loop.waited = 0
      /\ bus' \in {<<"open">>, <<"bell">>} /\ member' = member /\ seen' = seen /\ UNCHANGED door
  BY <1>0 DEF Post, At, Waited
<1>2. gpio' = gpio /\ opening' = opening
  BY <1>1 DEF door
<1>3. CASE Ask(1, "buzz") /\ handler' = handler
  <2>1. 1 * AnswerTime \in 0 .. 2 * AnswerTime
    BY Times
  <2>2. /\ loop'.pc = "buzz" /\ loop'.waited = 0 /\ loop'.sinceTick = loop.sinceTick
        /\ loop' \in Loops
    BY <1>0, <1>1, <1>3, <2>1 DEF Ask, Types, Loops, Pcs, Requests
  <2>3. Types' /\ Waited' /\ Lookups'
    BY <1>0, <1>1, <1>2, <1>3, <2>2 DEF Types, Waited, Lookups
  <2> QED
    BY <1>1, <1>3, <2>2, <2>3, LoopStep
<1>4. CASE EndCheck
  <2>1. /\ handler' \in Handlers /\ loop' \in Loops
        /\ loop'.pc = "loop" /\ loop'.waited = 0 /\ loop'.sinceTick = loop.sinceTick
        /\ handler'.typed => handler.typed /\ handler'.sinceKey = handler.sinceKey
        /\ handler'.shown = handler.shown /\ handler'.colorLeft = handler.colorLeft
    BY <1>1, <1>4, EndCheckIs
  <2>2. Types' /\ Waited' /\ Lookups'
    BY <1>0, <1>1, <1>2, <2>1 DEF Types, Waited, Lookups
  <2> QED
    BY <1>1, <2>1, <2>2, LoopStep
<1> QED
  BY <1>3, <1>4 DEF Post

LEMMA BuzzDeniedKeeps == IInv /\ BuzzDenied => IInv'
<1> SUFFICES ASSUME IInv, BuzzDenied PROVE IInv'
  OBVIOUS
<1>0. Types /\ Waited
  BY DEF IInv
<1>1. /\ loop.waited = 0 /\ EndCheck
      /\ bus' = bus /\ member' = member /\ seen' = seen /\ UNCHANGED door
  BY <1>0 DEF BuzzDenied, At, Waited
<1>2. gpio' = gpio /\ opening' = opening
  BY <1>1 DEF door
<1>3. /\ handler' \in Handlers /\ loop' \in Loops
      /\ loop'.pc = "loop" /\ loop'.waited = 0 /\ loop'.sinceTick = loop.sinceTick
      /\ handler'.typed => handler.typed /\ handler'.sinceKey = handler.sinceKey
      /\ handler'.shown = handler.shown /\ handler'.colorLeft = handler.colorLeft
  BY <1>1, EndCheckIs
<1>4. Types' /\ Waited' /\ Lookups'
  BY <1>0, <1>1, <1>2, <1>3 DEF Types, Waited, Lookups
<1> QED
  BY <1>1, <1>3, <1>4, LoopStep

-----------------------------------------------------------------------------
(* The others: the users, the bus and the goroutines of openings. *)

LEMMA LoopRests ==
  ASSUME DigitsAge, LightsAge, Waited, UNCHANGED <<handler, loop>>
  PROVE  DigitsAge' /\ LightsAge' /\ Waited'
BY DEF DigitsAge, LightsAge, Waited

LEMMA EnvironmentKeeps == IInv /\ Environment => IInv'
<1> SUFFICES ASSUME IInv, Environment PROVE IInv'
  OBVIOUS
<1>0. Types /\ Waited /\ DigitsAge /\ LightsAge /\ Lookups /\ OneOpening /\ OpenSince
  BY DEF IInv
<1>1. /\ handler' = handler /\ loop' = loop /\ UNCHANGED door /\ seen'.on = seen.on
      /\ seen'.stuck = seen.stuck
  BY <1>0 DEF Environment, UsersChange, RequestOpen, Types
<1>2. OneOpening' /\ OpenSince' /\ DigitsAge' /\ LightsAge' /\ Waited'
  BY <1>0, <1>1, DoorRests, LoopRests
<1>3. Types'
  BY <1>0 DEF Environment, UsersChange, RequestOpen, Types, door
<1>4. Lookups'
  <2>1. CASE seen'.changed
    BY <1>1, <2>1 DEF Lookups
  <2>2. CASE RequestOpen
    BY <1>0, <2>2 DEF RequestOpen, Lookups
  <2> QED
    BY <1>0, <2>1, <2>2 DEF Environment, UsersChange, Types
<1> QED
  BY <1>2, <1>3, <1>4 DEF IInv

\* An opening begins when the one before has ended.
LEMMA OpenDoorKeeps == IInv /\ OpenDoor => IInv'
<1> SUFFICES ASSUME IInv, OpenDoor PROVE IInv'
  OBVIOUS
<1> USE Times
<1>0. Types /\ Waited /\ DigitsAge /\ LightsAge /\ Lookups /\ OneOpening /\ OpenSince
  BY DEF IInv
<1>1. handler' = handler /\ loop' = loop /\ seen' = seen /\ member' = member
  BY DEF OpenDoor
<1>2. DigitsAge' /\ LightsAge' /\ Waited' /\ Lookups'
  <2>1. DigitsAge' /\ LightsAge' /\ Waited'
    BY <1>0, <1>1, LoopRests
  <2> QED
    BY <1>0, <1>1, <2>1 DEF Lookups
<1>3. bus' = <<>>
  <2>1. PICK ev \in {"open", "bell"} : bus = <<ev>>
    BY <1>0 DEF OpenDoor, Types
  <2>2. Tail(<<ev>>) = <<>>
    OBVIOUS
  <2> QED
    BY <2>1, <2>2 DEF OpenDoor
<1>4. CASE gpio' = [gpio EXCEPT !.nextOpen = gpio.nextOpen] /\ opening' = opening
  <2>1. gpio' = gpio
    BY <1>0, <1>4 DEF Types
  <2>2. OneOpening' /\ OpenSince'
    BY <1>0, <1>1, <1>4, <2>1, DoorRests DEF door
  <2>3. Types'
    BY <1>0, <1>1, <1>3, <1>4, <2>1 DEF Types
  <2> QED
    BY <1>2, <2>2, <2>3 DEF IInv
<1>5. ASSUME gpio.nextOpen = 0, gpio' = [gpio EXCEPT !.nextOpen = NextOpen],
             NEW g \in Goroutines \ Busy,
             opening' = [opening EXCEPT ![g] = [at |-> "start", time |-> OpenTime, late |-> 0]]
      PROVE  IInv'
  <2>1. gpio'.nextOpen = NextOpen /\ gpio'.relay = gpio.relay
    BY <1>0, <1>5 DEF Types
  <2>2. /\ opening'[g].at = "start" /\ opening'[g].time = OpenTime /\ opening'[g].late = 0
        /\ \A h \in Goroutines : h # g => opening'[h] = opening[h]
    BY <1>0, <1>5 DEF Types
  <2>3. Busy = {}
    <3> SUFFICES ASSUME NEW h \in Busy PROVE FALSE
      OBVIOUS
    <3>1. 0 = OpenRateLimit + opening[h].time - opening[h].late
      BY <1>0, <1>5 DEF OneOpening
    <3>2. opening[h].time \in Nat /\ opening[h].late \in 0 .. Slack
      BY <1>0 DEF Types, Openings, Busy
    <3> QED
      BY <3>1, <3>2
  <2>4. \A h \in Goroutines : h # g => opening[h].at = "none"
    BY <2>3 DEF Busy
  <2>5. Busy' = {g}
    BY <2>2, <2>4 DEF Busy
  <2>6. gpio'.nextOpen = OpenRateLimit + OpenTime - 0
    BY <2>1
  <2>7. OneOpening'
    <3>1. \A h \in Goroutines : opening[h].at # "asleep" /\ opening'[h].at # "asleep"
      BY <2>2, <2>3, <2>4 DEF Busy
    <3>2. ~(gpio'.relay /\ ~seen'.stuck)
      BY <1>0, <1>1, <2>1, <3>1 DEF OneOpening
    <3>3. \A h \in Goroutines : opening'[h].at = "start" => opening'[h].time = OpenTime
      BY <2>2, <2>4
    <3>4. \A h \in Busy' : gpio'.nextOpen = OpenRateLimit + opening'[h].time - opening'[h].late
      BY <2>2, <2>5, <2>6
    <3> QED
      BY <2>5, <3>2, <3>3, <3>4 DEF OneOpening
  <2>8. OpenSince'
    BY <2>2, <2>4 DEF OpenSince
  <2>9. Types'
    <3>1. [at |-> "start", time |-> OpenTime, late |-> 0] \in Openings
      BY DEF Openings
    <3>2. opening' \in [Goroutines -> Openings]
      BY <1>0, <1>5, <3>1 DEF Types
    <3>3. NextOpen \in 0 .. NextOpen
      OBVIOUS
    <3>4. gpio' \in [nextOpen : 0 .. NextOpen, relay : BOOLEAN]
      BY <1>0, <1>5, <3>3 DEF Types
    <3> QED
      BY <1>0, <1>1, <1>3, <3>2, <3>4 DEF Types
  <2> QED
    BY <1>2, <2>7, <2>8, <2>9 DEF IInv
<1> QED
  BY <1>4, <1>5 DEF OpenDoor

LEMMA SwitchKeeps ==
  ASSUME IInv, NEW g \in Goroutines, SwitchOn(g) \/ SwitchOff(g)
  PROVE  IInv'
<1> USE Times
<1>0. Types /\ Waited /\ DigitsAge /\ LightsAge /\ Lookups /\ OneOpening /\ OpenSince
  BY DEF IInv
<1>1. handler' = handler /\ loop' = loop /\ seen'.changed = seen.changed /\ member' = member /\ bus' = bus
  BY <1>0 DEF SwitchOn, SwitchOff, Types
<1>2. DigitsAge' /\ LightsAge' /\ Waited' /\ Lookups'
  <2>1. DigitsAge' /\ LightsAge' /\ Waited'
    BY <1>0, <1>1, LoopRests
  <2> QED
    BY <1>0, <1>1, <2>1 DEF Lookups
<1>3. \A h \in Goroutines : h # g => opening[h].at = "none"
  BY <1>0 DEF OneOpening, Busy, SwitchOn, SwitchOff
<1>4. opening[g] \in Openings
  BY <1>0 DEF Types
<1>5. CASE SwitchOn(g)
  <2>1. PICK opened \in BOOLEAN :
          /\ gpio' = [gpio EXCEPT !.relay = @ \/ opened]
          /\ seen' = [seen EXCEPT !.on = IF opened THEN 0 ELSE @, !.stuck = @ /\ ~opened]
    BY <1>5 DEF SwitchOn
  <2>2. /\ opening[g].at = "start" /\ opening' = [opening EXCEPT ![g] = [opening[g] EXCEPT !.at = "asleep"]]
        /\ gpio'.nextOpen = gpio.nextOpen
        /\ gpio' \in [nextOpen : 0 .. NextOpen, relay : BOOLEAN]
    BY <1>0, <1>5, <2>1 DEF SwitchOn, Types
  <2>3. /\ seen' \in [changed : BOOLEAN, on : Nat, stuck : BOOLEAN]
        /\ opened => seen'.on = 0
        /\ ~opened => gpio'.relay = gpio.relay /\ seen'.on = seen.on /\ seen'.stuck = seen.stuck
    BY <1>0, <2>1 DEF Types
  <2>4. /\ opening'[g].at = "asleep" /\ opening'[g].time = opening[g].time
        /\ opening'[g].late = opening[g].late /\ opening'[g] \in Openings
        /\ \A h \in Goroutines : h # g => opening'[h].at = "none"
    BY <1>0, <1>3, <1>4, <2>2 DEF Types, Openings
  <2>5. Busy = {g} /\ Busy' = {g}
    <3>1. "start" # "none" /\ "asleep" # "none"
      OBVIOUS
    <3>2. \A h \in Goroutines : opening[h].at # "none" <=> h = g
      BY <1>3, <2>2, <3>1
    <3>3. \A h \in Goroutines : opening'[h].at # "none" <=> h = g
      BY <2>4, <3>1
    <3> QED
      BY <3>2, <3>3 DEF Busy
  <2>6. opening[g].time = OpenTime /\ opening[g].late \in Nat /\ seen.on \in Nat
    <3>1. opening[g].time = OpenTime
      BY <1>0, <2>2 DEF OneOpening
    <3>2. opening[g].late \in Nat
      BY <1>4 DEF Openings
    <3>3. seen.on \in Nat
      BY <1>0 DEF Types
    <3> QED
      BY <3>1, <3>2, <3>3
  <2>7. OneOpening'
    <3>1. gpio'.nextOpen = OpenRateLimit + opening'[g].time - opening'[g].late
      BY <1>0, <2>2, <2>4, <2>5 DEF OneOpening
    <3>2. \A h \in Goroutines : opening'[h].at # "start"
      BY <2>4
    <3> QED
      BY <2>4, <2>5, <3>1, <3>2 DEF OneOpening
  <2>8. ASSUME gpio'.relay, ~seen'.stuck PROVE seen'.on = 0
    <3>1. ASSUME ~opened PROVE FALSE
      <4>1. gpio.relay /\ ~seen.stuck
        BY <2>3, <2>8, <3>1
      <4>2. \E h \in Goroutines : opening[h].at = "asleep"
        BY <1>0, <4>1 DEF OneOpening
      <4> QED
        BY <1>3, <2>2, <4>2
    <3> QED
      BY <2>3, <3>1
  <2>9. OpenSince'
    BY <2>3, <2>4, <2>6, <2>8 DEF OpenSince
  <2>10. opening' \in [Goroutines -> Openings]
    BY <1>0, <2>2, <2>4 DEF Types
  <2>11. Types'
    BY <1>0, <1>1, <2>2, <2>3, <2>10 DEF Types
  <2> QED
    BY <1>2, <2>7, <2>9, <2>11 DEF IInv
<1>6. CASE SwitchOff(g)
  <2>1. PICK opened \in BOOLEAN :
          /\ gpio' = [gpio EXCEPT !.relay = @ /\ ~opened]
          /\ seen' = [seen EXCEPT !.stuck = gpio.relay /\ ~opened]
    BY <1>6 DEF SwitchOff
  <2>2. /\ opening' = [opening EXCEPT ![g] = [at |-> "none", time |-> 0, late |-> 0]]
        /\ gpio'.nextOpen = gpio.nextOpen /\ (gpio'.relay => seen'.stuck)
        /\ gpio' \in [nextOpen : 0 .. NextOpen, relay : BOOLEAN]
        /\ seen' \in [changed : BOOLEAN, on : Nat, stuck : BOOLEAN]
    BY <1>0, <1>6, <2>1 DEF SwitchOff, Types
  <2>3. [at |-> "none", time |-> 0, late |-> 0] \in Openings
    BY DEF Openings
  <2>4. \A h \in Goroutines : opening'[h].at = "none"
    BY <1>0, <1>3, <2>2 DEF Types
  <2>5. Busy' = {}
    BY <2>4 DEF Busy
  <2>6. OneOpening' /\ OpenSince'
    BY <2>2, <2>4, <2>5 DEF OneOpening, OpenSince
  <2>7. opening' \in [Goroutines -> Openings]
    BY <1>0, <2>2, <2>3 DEF Types
  <2>8. Types'
    BY <1>0, <1>1, <2>2, <2>7 DEF Types
  <2> QED
    BY <1>2, <2>6, <2>8 DEF IInv
<1> QED
  BY <1>5, <1>6

LEMMA RestartKeeps == IInv /\ Restart => IInv'
<1> SUFFICES ASSUME IInv, Restart PROVE IInv'
  OBVIOUS
<1> USE Times DEF Restart, NewHandler, NewLoop
<1>1. handler' \in Handlers /\ loop' \in Loops
  BY DEF Handlers, Loops, Pcs
<1>2. Types'
  BY <1>1 DEF IInv, Types, Openings
<1>3. Waited' /\ DigitsAge' /\ LightsAge' /\ Lookups'
  BY DEF Waited, DigitsAge, LightsAge, Lookups
<1>4. Busy' = {}
  BY DEF Busy
<1>5. OneOpening' /\ OpenSince'
  BY <1>4 DEF OneOpening, OpenSince
<1> QED
  BY <1>2, <1>3, <1>5 DEF IInv

-----------------------------------------------------------------------------
(* The theorems. *)

LEMMA PassKeeps == IInv /\ Pass => IInv'
BY PassTypes, PassKeepsLoop, PassKeepsDoor DEF IInv

LEMMA Stutters == IInv /\ UNCHANGED vars => IInv'
<1> SUFFICES ASSUME IInv, UNCHANGED vars PROVE IInv'
  OBVIOUS
<1>1. Busy' = Busy
  BY DEF Busy, vars, door
<1> QED
  BY <1>1 DEF IInv, Types, Waited, DigitsAge, LightsAge, Lookups, OneOpening, OpenSince, vars, door

LEMMA NextKeeps == IInv /\ [Next]_vars => IInv'
<1> SUFFICES ASSUME IInv, [Next]_vars PROVE IInv'
  OBVIOUS
<1>1. CASE Pass
  BY <1>1, PassKeeps
<1>2. CASE Loop
  BY <1>2, BeginLoopKeeps, IdleTickKeeps, EndTickKeeps, AppEventKeeps, SetColorKeeps, KeysKeep,
     RFIDKeeps, FindUserKeeps, AuthUserKeeps, BuzzGrantedKeeps, PostKeeps, BuzzDeniedKeeps DEF Loop
<1>3. CASE Relay
  BY <1>3, OpenDoorKeeps, SwitchKeeps DEF Relay
<1>4. CASE Environment \/ Restart
  BY <1>4, EnvironmentKeeps, RestartKeeps
<1>5. CASE UNCHANGED vars
  BY <1>5, Stutters
<1> QED
  BY <1>1, <1>2, <1>3, <1>4, <1>5 DEF Next

LEMMA IInvImpliesInv == IInv => DoorInv
<1> SUFFICES ASSUME IInv PROVE DoorInv
  OBVIOUS
<1> USE Times
<1>0. Types /\ Waited /\ DigitsAge /\ LightsAge /\ Lookups /\ OneOpening /\ OpenSince
  BY DEF IInv
<1>1. loop.waited \in 0 .. Idle /\ handler.sinceKey \in Nat /\ handler.colorLeft \in Int
  BY <1>0 DEF Types, Loops, Handlers
<1>2. TypeOK
  BY <1>0 DEF Types, TypeOK, Handlers, Loops, Openings
<1>3. CodesAreFresh
  <2> SUFFICES ASSUME loop.pc = "select", handler.typed
               PROVE  handler.sinceKey <= KeypadTimeout + AnswerTime + Forced + Idle
    BY DEF CodesAreFresh, At
  <2>1. handler.sinceKey <= KeypadTimeout + AnswerTime + Forced + loop.waited
    BY <1>0 DEF DigitsAge
  <2> QED
    BY <1>1, <2>1
<1>4. LightsGoOut
  <2> SUFFICES ASSUME loop.pc = "select", handler.shown
               PROVE  handler.colorLeft >= -(AnswerTime + Forced + Idle)
    BY DEF LightsGoOut, At
  <2>1. handler.colorLeft >= -(AnswerTime + Forced + loop.waited)
    BY <1>0 DEF LightsAge
  <2> QED
    BY <1>1, <2>1
<1>5. NilUserOnlyAfterChange
  BY <1>0 DEF Lookups, NilUserOnlyAfterChange, At
<1>6. DoorsClose
  <2> SUFFICES ASSUME gpio.relay, ~seen.stuck PROVE seen.on <= OpenTime + Slack
    BY DEF DoorsClose
  <2>1. PICK g \in Goroutines : opening[g].at = "asleep"
    BY <1>0 DEF OneOpening
  <2>2. seen.on <= OpenTime - opening[g].time + opening[g].late
    BY <1>0, <2>1 DEF OpenSince
  <2>3. opening[g].time \in Nat /\ opening[g].late \in 0 .. Slack /\ seen.on \in Nat
    BY <1>0 DEF Types, Openings
  <2> QED
    BY <2>2, <2>3
<1> QED
  BY <1>2, <1>3, <1>4, <1>5, <1>6 DEF DoorInv

\* What is kept of ages, lookups and openings is an invariant of the door.
THEOREM Invariant == Spec => []IInv
<1>1. Init => IInv
  BY InitIInv
<1>2. IInv /\ [Next]_vars => IInv'
  BY NextKeeps
<1> QED
  BY <1>1, <1>2, PTL DEF Spec

\* The digits typed at a door and its light last no longer than their time, one
\* answer of the terminal and the ticks that may pass; a check names a missing
\* user only when the users changed between its lookups; and the door is open
\* for no longer than its time and what goroutines are late, unless the relay
\* could not be switched off.
THEOREM DoorIsSafe == Spec => []DoorInv
BY Invariant, IInvImpliesInv, PTL

\* The one step that switches the relay off, at a door that was open.
LEMMA SwitchesOff ==
  ASSUME IInv, [Next]_vars, gpio.relay, ~gpio'.relay, ~At("panic")
  PROVE  seen.on >= OpenTime
<1>0. Types /\ OneOpening /\ OpenSince
  BY DEF IInv
<1>1. PICK g \in Goroutines : SwitchOff(g)
  <2>1. CASE Pass
    BY <1>0, <2>1 DEF Pass, Types
  <2>2. CASE Loop
    BY <2>2 DEF Loop, BeginLoop, IdleTick, EndTick, AppEvent, SetColor, Enter, Clear, Digit, TakeEvent,
                HandleRFID, FindUser, AuthUser, BuzzGranted, Post, BuzzDenied, door
  <2>3. CASE OpenDoor
    BY <1>0, <2>3 DEF OpenDoor, Types
  <2>4. ASSUME NEW g \in Goroutines, SwitchOn(g)
        PROVE  FALSE
    BY <1>0, <2>4 DEF SwitchOn, Types
  <2>5. CASE Environment
    BY <2>5 DEF Environment, UsersChange, RequestOpen, door
  <2>6. CASE Restart
    BY <2>6 DEF Restart
  <2>7. CASE UNCHANGED vars
    BY <2>7 DEF vars
  <2> QED
    BY <2>1, <2>2, <2>3, <2>4, <2>5, <2>6, <2>7 DEF Next, Relay
<1>2. opening[g].at = "asleep" /\ opening[g].time = 0
  BY <1>1 DEF SwitchOff
<1>3. seen.on >= OpenTime - 0
  BY <1>0, <1>2 DEF OpenSince
<1>4. seen.on \in Nat
  BY <1>0 DEF Types
<1> QED
  BY <1>3, <1>4, Times

\* No opening cuts another short, whichever goroutine switches the door off.
THEOREM OpeningsAreWhole == Spec => OpeningsLast
<1>1. IInv /\ [Next]_vars => (gpio.relay /\ ~gpio'.relay /\ ~At("panic") => seen.on >= OpenTime)
  BY SwitchesOff
<1>2. IInv /\ [Next]_vars =>
          [gpio.relay /\ ~gpio'.relay /\ ~At("panic") => seen.on >= OpenTime]_vars
  BY <1>1
<1> QED
  BY <1>2, Invariant, PTL DEF Spec, OpeningsLast
=============================================================================
