------------------------------- MODULE Entrance -------------------------------
(***************************************************************************)
(* A door: AccessHandler (accesshandler.go) in the event loop of its       *)
(* terminal (RunEventLoop, serial-terminal.go), the authenticator whose    *)
(* users others change meanwhile, the bus, and GPIOActions                 *)
(* (gpioactions.go), where every opening is a goroutine that switches the  *)
(* relay of the door on and later off. Time is counted in ticks, and kept  *)
(* as what is left of, or has passed since, the times of the code.         *)
(***************************************************************************)
EXTENDS Integers, Sequences

CONSTANTS
    Idle,              \* idleTickTime
    AnswerTime,        \* a terminal answers a request within this
    KeypadTimeout,     \* kKeypadTimeout
    RFIDRepeatDebounce,
    ColorTime,         \* [color -> for how long]
    OpenTime,          \* defaultDoorOpenTime
    OpenRateLimit,     \* defaultDoorOpenRateLimit
    Slack,             \* a goroutine of an opening is at most this late in all
    RFIDs              \* among them "card"

Forced == 4 * Idle
Codes == {"pin", "card"}
AuthResults == {"none", "ok", "late"}
Goroutines == 1 .. 2

ASSUME EntranceAssumption ==
    /\ Idle \in Nat \ {0} /\ AnswerTime \in Nat
    /\ KeypadTimeout \in Nat /\ RFIDRepeatDebounce \in Nat
    /\ ColorTime \in [{"R", "G", "B"} -> Nat]
    /\ OpenTime \in Nat \ {0} /\ OpenRateLimit \in Nat
    /\ Slack \in Nat /\ Slack < OpenRateLimit

VARIABLES
    member,      \* what AuthUser would say of the one who has the card and the
                 \* PIN, while it is asked; "none": there is no such user
    bus,         \* events that wait at the bus, or on from there
    handler,     \* AccessHandler
    loop,        \* where the event loop is, its locals and times
    gpio,        \* time of GPIOActions, and the relay
    opening,     \* the goroutines of openings
    seen         \* histories

vars == <<member, bus, handler, loop, gpio, opening, seen>>
door == <<gpio, opening>>

Least(a, b) == IF a < b THEN a ELSE b
Most(a, b) == IF a > b THEN a ELSE b

\* Ages and overdue times are counted as far as they matter.
Late == Forced + Idle + AnswerTime + 1

NewHandler == [typed |-> FALSE, sinceKey |-> 0, rfid |-> "none",
               rfidWait |-> 0, shown |-> FALSE, colorLeft |-> 0]

NewLoop == [pc |-> "loop", code |-> "none", found |-> FALSE, posts |-> "none",
            color |-> "none", sinceTick |-> 0, waited |-> 0, left |-> 0]

Init ==
    /\ member = "none"
    /\ bus = <<>>
    /\ handler = NewHandler /\ loop = NewLoop
    /\ gpio = [nextOpen |-> 0, relay |-> FALSE]
    /\ opening = [g \in Goroutines |-> [at |-> "none", time |-> 0, late |-> 0]]
    /\ seen = [changed |-> FALSE,    \* the users, since the check began
               on |-> 0,             \* ticks since the relay was switched on
               stuck |-> FALSE]      \* it did not switch off when it should

At(pc) == loop.pc = pc
GoTo(pc) == loop' = [loop EXCEPT !.pc = pc]

-----------------------------------------------------------------------------
\* Time passes while the loop waits for an event there is not, for an answer of
\* the terminal, in a lookup or in Post.
Requests == {"forced", "idle", "ping", "show", "granted", "buzz"}

Waits ==
    \/ At("select") /\ loop.waited < Idle
    \/ loop.pc \in Requests /\ loop.left > 0
    \/ loop.pc \in {"find", "auth", "post"}

\* The loop sends n requests, one after the other, and goes on there.
Ask(n, there) == loop' = [loop EXCEPT !.pc = there, !.left = n * AnswerTime]

Busy == {g \in Goroutines : opening[g].at # "none"}
Sleeping == {g \in Busy : opening[g].at = "asleep" /\ opening[g].time > 0}

Pass ==
    /\ Waits
    /\ \A g \in Busy \ Sleeping : opening[g].late < Slack
    /\ handler' = [handler EXCEPT
          !.sinceKey = IF handler.typed THEN Least(@ + 1, KeypadTimeout + Late) ELSE 0,
          !.rfidWait = Most(@ - 1, 0),
          !.colorLeft = IF handler.shown THEN Most(@ - 1, -Late) ELSE 0]
    /\ loop' = [loop EXCEPT !.sinceTick = Least(@ + 1, Forced + 1),
                            !.waited = IF At("select") THEN @ + 1 ELSE 0,
                            !.left = IF loop.pc \in Requests THEN @ - 1 ELSE 0]
    /\ gpio' = [gpio EXCEPT !.nextOpen = Most(@ - 1, 0)]
    /\ opening' = [g \in Goroutines |->
          IF g \in Sleeping THEN [opening[g] EXCEPT !.time = @ - 1]
          ELSE IF g \in Busy THEN [opening[g] EXCEPT !.late = @ + 1] ELSE opening[g]]
    /\ seen' = [seen EXCEPT !.on = IF gpio.relay THEN Least(@ + 1, OpenTime + Slack + 1) ELSE 0]
    /\ UNCHANGED <<member, bus>>

\* The member joins, leaves or is out of the hours between the two lookups.
UsersChange(result) ==
    /\ At("auth") /\ member # result
    /\ member' = result
    /\ seen' = [seen EXCEPT !.changed = TRUE]
    /\ UNCHANGED <<bus, handler, loop, door>>

\* Somebody else asks to open this door, a closure is queued.
RequestOpen ==
    /\ bus = <<>>
    /\ bus' = <<"open">>
    /\ UNCHANGED <<member, handler, loop, door, seen>>

-----------------------------------------------------------------------------
\* HandleTick, and how many requests it sends.
Forgets == handler.typed /\ handler.sinceKey > KeypadTimeout
Darkens == handler.shown /\ handler.colorLeft < 0

HandleTick(kind) ==
    /\ handler' = [handler EXCEPT !.typed = @ /\ ~Forgets,
                                  !.shown = @ /\ ~Darkens,
                                  !.colorLeft = IF Darkens THEN 0 ELSE @]
    /\ Ask((IF Forgets THEN 1 ELSE 0) + (IF Darkens THEN 1 ELSE 0), kind)

\* The slip: nothing is injected.
BeginLoop_Starved ==
    At("loop") /\ GoTo("select") /\ UNCHANGED <<member, bus, handler, door, seen>>

\* The event loop. Events may starve the tick; then one is injected.
BeginLoop ==
    /\ At("loop")
    /\ IF loop.sinceTick > Forced THEN HandleTick("forced")
       ELSE GoTo("select") /\ UNCHANGED handler
    /\ UNCHANGED <<member, bus, door, seen>>

IdleTick ==
    /\ At("select") /\ loop.waited = Idle
    /\ HandleTick("idle")
    /\ UNCHANGED <<member, bus, door, seen>>

\* Every tenth idle tick the terminal is asked for its name.
EndTick ==
    /\ loop.pc \in {"forced", "idle", "ping"}
    /\ loop' \in {[loop EXCEPT !.pc = pc, !.waited = 0,
                      !.left = IF pc = "ping" THEN AnswerTime ELSE 0,
                      !.sinceTick = IF At("ping") THEN @ ELSE 0] :
                   pc \in CASE At("forced") -> {"select"}
                            [] At("idle")   -> {"loop", "ping"}
                            [] OTHER             -> {"loop"}}
    /\ UNCHANGED <<member, bus, handler, door, seen>>

\* The channels hold what others put there, at any time: so an event of the
\* bus, a key or a card may be there, or not.
AppEvent ==
    /\ At("select")
    /\ \E ev \in {"open", "bell"} :
       IF ev # "open" THEN loop' = [loop EXCEPT !.pc = "loop", !.waited = 0]
       ELSE loop' = [loop EXCEPT !.pc = "show", !.color = "G", !.waited = 0,
                                 !.left = AnswerTime]
    /\ UNCHANGED <<member, bus, handler, door, seen>>

\* setColorForTime, when the terminal has shown it; then the check goes on.
SetColor ==
    /\ At("show")
    /\ handler' = [handler EXCEPT !.shown = TRUE, !.colorLeft = ColorTime[loop.color]]
    /\ loop' = [loop EXCEPT !.color = "none",
                   !.left = IF loop.color = "R" THEN AnswerTime ELSE 0,
                   !.pc = CASE loop.color = "G" -> "loop"
                            [] loop.color = "R" -> "buzz"
                            [] OTHER -> IF loop.found THEN "post" ELSE "panic"]
    /\ UNCHANGED <<member, bus, door, seen>>

TakeEvent(there) ==
    /\ At("select")
    /\ loop' = [there EXCEPT !.waited = 0]
    /\ UNCHANGED <<member, bus, door, seen>>

Then(pc) == [loop EXCEPT !.pc = pc]
Check(code) == [Then("find") EXCEPT !.code = code]

Touched(typed) == handler' = [handler EXCEPT !.sinceKey = 0, !.typed = typed]

\* '#': the code that was typed, known or not or too short for one, or else
\* the doorbell.
Enter ==
    \/ handler.typed /\ Touched(TRUE) /\ (\E code \in {"pin", "other"} : TakeEvent(Check(code)))
    \/ handler.typed /\ Touched(FALSE) /\ TakeEvent(Then("loop"))
    \/ ~handler.typed /\ Touched(FALSE) /\ TakeEvent([Then("post") EXCEPT !.posts = "bell"])

Clear == Touched(FALSE) /\ TakeEvent(Then("loop"))

Digit == Touched(TRUE) /\ TakeEvent(Then("loop"))

\* The reader may send IDs faster than they are checked.
HandleRFID ==
    /\ \E rfid \in RFIDs :
          TakeEvent(IF rfid = handler.rfid /\ handler.rfidWait > 0 THEN Then("loop")
                    ELSE Check(rfid))
    /\ UNCHANGED handler

-----------------------------------------------------------------------------
\* checkAccess: two lookups.
ResultFor(code, result) == IF code \in Codes THEN result ELSE "none"

FindUser ==
    /\ At("find")
    /\ member' \in AuthResults
    /\ loop' = [loop EXCEPT !.pc = "auth", !.found = (ResultFor(loop.code, member') # "none")]
    /\ seen' = [seen EXCEPT !.changed = FALSE]
    /\ UNCHANGED <<bus, handler, door>>

\* AuthUser. Without a user, there is nobody to name in the message of the bell.
Granted == loop.found /\ ResultFor(loop.code, member) = "ok"

Denial == IF ResultFor(loop.code, member) = "none" THEN "R" ELSE "B"

AuthUser ==
    /\ At("auth")
    /\ loop' = [loop EXCEPT !.pc = IF Granted THEN "granted" ELSE "show",
                            !.color = IF Granted THEN "none" ELSE Denial,
                            !.left = AnswerTime]
    /\ member' = "none"
    /\ UNCHANGED <<bus, handler, door, seen>>

\* The high tone comes before the opening.
BuzzGranted ==
    /\ At("granted")
    /\ loop' = [loop EXCEPT !.pc = "post", !.posts = "open", !.left = 0]
    /\ UNCHANGED <<member, bus, handler, door, seen>>

EndCheck ==
    /\ handler' = IF loop.code \in RFIDs
                  THEN [handler EXCEPT !.rfid = loop.code, !.rfidWait = RFIDRepeatDebounce]
                  ELSE [handler EXCEPT !.typed = FALSE]
    /\ loop' = [loop EXCEPT !.pc = "loop", !.code = "none", !.found = FALSE,
                            !.posts = "none", !.left = 0]

Post ==
    /\ At("post") /\ bus = <<>>
    /\ bus' = <<IF loop.posts = "open" THEN "open" ELSE "bell">>
    /\ IF loop.code # "none" /\ loop.posts # "open"
       THEN Ask(1, "buzz") /\ UNCHANGED handler ELSE EndCheck
    /\ UNCHANGED <<member, door, seen>>

BuzzDenied ==
    /\ At("buzz")
    /\ EndCheck
    /\ UNCHANGED <<member, bus, door, seen>>

-----------------------------------------------------------------------------
\* The slip: the next opening may begin when the door closes.
NextOpen_NoLimit == OpenTime

\* GPIOActions: requests that come too early are dropped.
NextOpen == OpenTime + OpenRateLimit

OpenDoor ==
    /\ ~At("panic")
    /\ bus # <<>>
    /\ bus' = Tail(bus)
    /\ LET opens == Head(bus) = "open" /\ gpio.nextOpen = 0 IN
       /\ gpio' = [gpio EXCEPT !.nextOpen = IF opens THEN NextOpen ELSE @]
       /\ \/ ~opens /\ UNCHANGED opening
          \/ /\ opens
             /\ \E g \in Goroutines \ Busy :
                   /\ \A h \in Goroutines \ Busy : g <= h
                   /\ opening' = [opening EXCEPT ![g] =
                                     [at |-> "start", time |-> OpenTime, late |-> 0]]
    /\ UNCHANGED <<member, handler, loop, seen>>

\* The goroutine of an opening. switchRelay may fail to open the file of the
\* pin; then the relay stays as it is, and nobody tries again.
SwitchOn(g) ==
    /\ ~At("panic") /\ opening[g].at = "start"
    /\ opening' = [opening EXCEPT ![g].at = "asleep"]
    /\ \E opened \in BOOLEAN :
          /\ gpio' = [gpio EXCEPT !.relay = @ \/ opened]
          /\ seen' = [seen EXCEPT !.on = IF opened THEN 0 ELSE @, !.stuck = @ /\ ~opened]
    /\ UNCHANGED <<member, bus, handler, loop>>

SwitchOff(g) ==
    /\ ~At("panic") /\ opening[g].at = "asleep" /\ opening[g].time = 0
    /\ opening' = [opening EXCEPT ![g] = [at |-> "none", time |-> 0, late |-> 0]]
    /\ \E opened \in BOOLEAN :
          /\ gpio' = [gpio EXCEPT !.relay = @ /\ ~opened]
          /\ seen' = [seen EXCEPT !.stuck = gpio.relay /\ ~opened]
    /\ UNCHANGED <<member, bus, handler, loop>>

\* Somebody starts the program again; NewGPIOActions switches the relay off.
Restart ==
    /\ At("panic")
    /\ bus' = <<>>
    /\ handler' = NewHandler /\ loop' = NewLoop
    /\ \E opened \in BOOLEAN :
          LET on == gpio.relay /\ ~opened IN
          /\ gpio' = [nextOpen |-> 0, relay |-> on]
          /\ seen' = [changed |-> FALSE, on |-> IF on THEN seen.on ELSE 0, stuck |-> on]
    /\ opening' = [g \in Goroutines |-> [at |-> "none", time |-> 0, late |-> 0]]
    /\ UNCHANGED member

Loop == BeginLoop \/ IdleTick \/ EndTick \/ AppEvent \/ SetColor \/ Enter \/ Clear \/ Digit \/ HandleRFID
        \/ FindUser \/ AuthUser \/ BuzzGranted \/ Post \/ BuzzDenied

Relay == OpenDoor \/ (\E g \in Goroutines : SwitchOn(g) \/ SwitchOff(g))

Environment ==
    /\ ~At("panic")
    /\ (\E result \in AuthResults : UsersChange(result)) \/ RequestOpen

Next == Pass \/ Loop \/ Relay \/ Environment \/ Restart

Spec == Init /\ [][Next]_vars

-----------------------------------------------------------------------------
TypeOK ==
    /\ member \in AuthResults
    /\ bus \in {<<>>, <<"open">>, <<"bell">>}
    /\ handler.typed \in BOOLEAN /\ handler.rfid \in {"none"} \cup RFIDs
    /\ loop.left \in 0 .. 2 * AnswerTime /\ loop.waited \in 0 .. Idle
    /\ gpio.nextOpen \in 0 .. NextOpen
    /\ \A g \in Goroutines : opening[g].late \in 0 .. Slack

\* However fast events come and however long lookups, the bus and the terminal
\* keep the loop: digits that wait for more are not older than the timeout, an
\* answer of the terminal and two ticks. The digits of somebody who left are
\* not part of the code of the next one.
CodesAreFresh ==
    At("select") /\ handler.typed =>
        handler.sinceKey <= KeypadTimeout + AnswerTime + Forced + Idle

\* ... and a light that was shown is switched off in that time, too.
LightsGoOut ==
    At("select") /\ handler.shown => handler.colorLeft >= -(AnswerTime + Forced + Idle)

\* A user that is not there is only named, which ends the program, when the
\* users changed between the two lookups of a check.
NilUserOnlyAfterChange == At("panic") => seen.changed

\* No door stays open longer than its time and what goroutines are late,
\* however many ask for it, unless the program ends in between or could not
\* open the file of the pin when it was to switch the relay off.
DoorsClose ==
    gpio.relay /\ ~At("panic") /\ ~seen.stuck => seen.on <= OpenTime + Slack

\* The state is well-formed and the four claims above hold.
DoorInv == TypeOK /\ CodesAreFresh /\ LightsGoOut /\ NilUserOnlyAfterChange /\ DoorsClose

\* No opening cuts another short: once on, the relay stays on for its time,
\* whichever goroutine switches it off, as long as goroutines are not late by
\* what the rate limit leaves.
OpeningsLast ==
    [][gpio.relay /\ ~gpio'.relay /\ ~At("panic") => seen.on >= OpenTime]_vars
=============================================================================
