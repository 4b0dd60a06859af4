------------------------------ MODULE FrontPanel ------------------------------
(***************************************************************************)
(* firmware/keypad.*, tone-gen.*, clock.h and what terminal-main.cc does   *)
(* with a key: the debounced keypad and the beeper, which share the 16 bit *)
(* counter of clock.h. The main loop reads the counter in two loads (low   *)
(* byte first; the hardware then holds the high byte in a register all     *)
(* readers share), the interrupt of the beeper reads it in between.        *)
(* Time is counted in ticks of that counter.                               *)
(***************************************************************************)
EXTENDS Integers

CONSTANTS
    Keys,          \* [key -> <<column, row>>], three columns, four rows
    LowSize,       \* values of one byte of the counter, 256
    HighSize,      \* 256
    Settle,        \* ms_to_cycles(DEBOUNCE_TIME_MILLIS)
    ClickMs,       \* length of the key click, 30 ms
    AskedMs,       \* lengths the host may ask for with T
    TickRate,      \* F_CPU / 1024, ticks in a second
    Period,        \* ticks between two interrupts of a tone (OCR2)
    PollGap        \* the main loop polls the keypad at least this often

Wrap == LowSize * HighSize
Ticks == 0 .. Wrap - 1
Columns == 1 .. 3
NoKeys == [cols |-> {}, rows |-> {}]

ASSUME PanelAssumption ==
    /\ LowSize \in Nat \ {0} /\ HighSize \in Nat \ {0}
    /\ Period \in 1 .. Wrap /\ Settle \in Ticks
    /\ PollGap \in Nat /\ Settle + PollGap < Wrap
    /\ TickRate \in Nat /\ ClickMs \in Nat /\ AskedMs \subseteq Nat
    /\ Keys \in [DOMAIN Keys -> Columns \X (1 .. 4)]

VARIABLES
    now,      \* TCNT1
    temp,     \* the high byte the hardware holds for the reader between loads
    match,    \* the compare flag of timer 2
    closed,   \* keys whose contact is closed
    keypad,   \* KeyPad: current_state_, character_returned_, start_time_
    tone,     \* ToneGen: wait_time_, start_time_ (two bytes each), OCIE2
    main,     \* the main loop: where it is, and its locals
    seen      \* histories the properties speak of

vars == <<now, temp, match, closed, keypad, tone, main, seen>>

Least(a, b) == IF a < b THEN a ELSE b

\* Bytes of a 16 bit value, and back.
Low(n) == n % LowSize
High(n) == n \div LowSize
Value(bytes) == bytes[1] + LowSize * bytes[2]

\* Unsigned 16 bit difference.
Since(t, u) == (t - u) % Wrap

\* uint16_t result of a wider product.
ms_to_cycles(ms) == ((ms * TickRate) \div 1000) % Wrap

Idle == [pc |-> "idle", cols |-> 0, state |-> NoKeys, low |-> 0, dur |-> 0]

Init ==
    /\ now = 0
    /\ temp = 0 /\ match = FALSE /\ closed = {}
    /\ keypad = [state |-> NoKeys, returned |-> TRUE, start |-> 0]
    /\ tone = [wait |-> <<0, 0>>, start |-> <<0, 0>>, on |-> FALSE]
    /\ main = Idle
    /\ seen = [gap |-> 0,           \* ticks since the last poll
               at |-> 0,            \* the counter when a load of it began
               held |-> 0,          \* ticks since the keypad changed
               key_torn |-> FALSE,  \* the debouncing used a time that never was
               other |-> FALSE,     \* a change since a key was returned
               age |-> 0,           \* ticks since the tone started
               tone_torn |-> FALSE] \* ... at a time that never was

At(pc) == main.pc = pc
GoTo(pc) == main' = [main EXCEPT !.pc = pc]

-----------------------------------------------------------------------------
\* Stores and loads that follow each other at once: 1024 clock cycles make a
\* tick, so at most one falls among them, where it matters between two loads.
AtOnce == {"compare", "restart", "settled_low", "tone", "wait_high", "start",
           "start_low", "start_high", "tone_on"}
BetweenLoads == {"restart_high", "settled_high", "start_loaded"}

\* Time passes, but an interrupt is taken within a tick, and the main loop is
\* back at the keypad in time.
Tick ==
    /\ ~(match /\ tone.on)
    /\ seen.gap < PollGap
    /\ main.pc \notin AtOnce
    /\ main.pc \in BetweenLoads => now = seen.at
    /\ now' = (now + 1) % Wrap
    /\ match' = (match \/ now' % Period = 0)
    /\ seen' = [seen EXCEPT !.gap = @ + 1, !.held = Least(@ + 1, Settle),
                            !.age = IF tone.on THEN Least(@ + 1, Wrap) ELSE 0]
    /\ UNCHANGED <<temp, closed, keypad, tone, main>>

\* Contacts close, bounce and open.
Finger(k) ==
    /\ closed' = IF k \in closed THEN closed \ {k} ELSE closed \cup {k}
    /\ UNCHANGED <<now, temp, match, keypad, tone, main, seen>>

\* The slip.
Interrupt_Absolute ==
    /\ match /\ tone.on
    /\ match' = FALSE
    /\ temp' = IF main.pc \in BetweenLoads THEN High(now) ELSE temp
    /\ tone' = [tone EXCEPT !.on = now < Value(tone.start) + Value(tone.wait)]
    /\ UNCHANGED <<now, closed, keypad, main, seen>>

\* ISR(TIMER2_COMP_vect). It reads the whole counter, which matters to a
\* reader who is between its two loads. (The waveform is left out.)
Interrupt ==
    /\ match /\ tone.on
    /\ match' = FALSE
    /\ temp' = IF main.pc \in BetweenLoads THEN High(now) ELSE temp
    /\ tone' = [tone EXCEPT
                  !.on = Since(now, Value(tone.start)) < Value(tone.wait)]
    /\ UNCHANGED <<now, closed, keypad, main, seen>>

\* Clock::now() from the main loop, in two loads: the first at pc here.
Load(here, there) ==
    /\ At(here)
    /\ main' = [main EXCEPT !.pc = there, !.low = Low(now)]
    /\ temp' = High(now)

Loaded == Value(<<main.low, temp>>)
Torn == Loaded # seen.at

-----------------------------------------------------------------------------
\* ReadKeypad samples the columns one after the other; that takes time, a
\* millisecond for each.
StartPoll ==
    /\ At("idle") /\ GoTo("sample")
    /\ seen' = [seen EXCEPT !.gap = 0]
    /\ UNCHANGED <<now, temp, match, closed, keypad, tone>>

RowsOf(c) == {Keys[k][2] : k \in {j \in closed : Keys[j][1] = c}}

SampleCol ==
    /\ At("sample") /\ seen.gap > 0
    /\ LET c == main.cols + 1 IN
       main' = [main EXCEPT
          !.cols = c,
          !.state = IF RowsOf(c) = {} THEN @
                    ELSE [cols |-> @.cols \cup {c}, rows |-> @.rows \cup RowsOf(c)],
          !.pc = IF c = 3 THEN "compare" ELSE "sample"]
    /\ UNCHANGED <<now, temp, match, closed, keypad, tone, seen>>

\* The slip.
StateChanged_KeepsReturned ==
    /\ At("compare") /\ main.state # keypad.state
    /\ keypad' = [keypad EXCEPT !.state = main.state]
    /\ seen' = [seen EXCEPT !.other = TRUE]
    /\ GoTo("restart")
    /\ UNCHANGED <<now, temp, match, closed, tone>>

\* The slip.
StateChanged_KeepsTime ==
    /\ At("compare") /\ main.state # keypad.state
    /\ keypad' = [keypad EXCEPT !.returned = FALSE, !.state = main.state]
    /\ seen' = [seen EXCEPT !.other = TRUE, !.held = 0]
    /\ main' = Idle
    /\ UNCHANGED <<now, temp, match, closed, tone>>

StateChanged ==
    /\ At("compare") /\ main.state # keypad.state
    /\ keypad' = [keypad EXCEPT !.returned = FALSE, !.state = main.state]
    /\ seen' = [seen EXCEPT !.other = TRUE]
    /\ GoTo("restart")
    /\ UNCHANGED <<now, temp, match, closed, tone>>

AlreadyReturned ==
    /\ At("compare") /\ main.state = keypad.state /\ keypad.returned
    /\ main' = Idle
    /\ UNCHANGED <<now, temp, match, closed, keypad, tone, seen>>

NotYetReturned ==
    /\ At("compare") /\ main.state = keypad.state /\ ~keypad.returned
    /\ GoTo("settled_low")
    /\ UNCHANGED <<now, temp, match, closed, keypad, tone, seen>>

\* start_time_ = Clock::now()
RestartLow ==
    /\ Load("restart", "restart_high")
    /\ seen' = [seen EXCEPT !.at = now, !.held = 0]
    /\ UNCHANGED <<now, match, closed, keypad, tone>>

RestartHigh ==
    /\ At("restart_high")
    /\ keypad' = [keypad EXCEPT !.start = Loaded]
    /\ seen' = [seen EXCEPT !.key_torn = Torn, !.at = 0]
    /\ temp' = 0 /\ main' = Idle
    /\ UNCHANGED <<now, match, closed, tone>>

SettledLow ==
    /\ Load("settled_low", "settled_high")
    /\ seen' = [seen EXCEPT !.at = now]
    /\ UNCHANGED <<now, match, closed, keypad, tone>>

NotSettled ==
    /\ At("settled_high")
    /\ Since(Loaded, keypad.start) < Settle
    /\ seen' = [seen EXCEPT !.at = 0]
    /\ temp' = 0 /\ main' = Idle
    /\ UNCHANGED <<now, match, closed, keypad, tone>>

\* The keys whose code is the state; a weird combination has none.
KeyOf(s) == {k \in DOMAIN Keys : s.cols = {Keys[k][1]} /\ s.rows = {Keys[k][2]}}

\* The character is returned, sent, and clicked if there is one and the flag
\* (either way here) says so.
Settled ==
    /\ At("settled_high")
    /\ Since(Loaded, keypad.start) >= Settle
    /\ keypad' = [keypad EXCEPT !.returned = TRUE]
    /\ seen' = [seen EXCEPT !.key_torn = @ \/ Torn, !.at = 0, !.other = FALSE]
    /\ \/ main' = Idle
       \/ /\ KeyOf(main.state) # {}
          /\ main' = [Idle EXCEPT !.pc = "tone", !.dur = ms_to_cycles(ClickMs)]
    /\ temp' = 0
    /\ UNCHANGED <<now, match, closed, tone>>

-----------------------------------------------------------------------------
\* The host asks for a tone.
OutputTone(ms) ==
    /\ At("idle")
    /\ main' = [Idle EXCEPT !.pc = "tone", !.dur = ms_to_cycles(ms)]
    /\ UNCHANGED <<now, temp, match, closed, keypad, tone, seen>>

\* Tone(): every byte of its two variables is a store of its own.
Store(here, there, stored) ==
    /\ At(here) /\ GoTo(there)
    /\ tone' = stored
    /\ UNCHANGED <<now, temp, match, closed, keypad, seen>>

StoreWait ==
    \/ Store("tone", "wait_high", [tone EXCEPT !.wait[1] = Low(main.dur)])
    \/ Store("wait_high", "start", [tone EXCEPT !.wait[2] = High(main.dur)])

LoadStart ==
    /\ Load("start", "start_loaded")
    /\ seen' = [seen EXCEPT !.at = now, !.age = 0]
    /\ UNCHANGED <<now, match, closed, keypad, tone>>

StartLoaded ==
    /\ At("start_loaded")
    /\ main' = [main EXCEPT !.pc = "start_low", !.dur = Loaded]
    /\ seen' = [seen EXCEPT !.tone_torn = Torn, !.at = 0, !.age = Since(now, seen.at)]
    /\ temp' = 0
    /\ UNCHANGED <<now, match, closed, keypad, tone>>

\* The slip.
StoreStart_LowOnly ==
    Store("start_low", "tone_on", [tone EXCEPT !.start[1] = Low(main.dur)])

StoreStart ==
    \/ Store("start_low", "start_high", [tone EXCEPT !.start[1] = Low(main.dur)])
    \/ Store("start_high", "tone_on", [tone EXCEPT !.start[2] = High(main.dur)])

ToneOn ==
    /\ At("tone_on")
    /\ tone' = [tone EXCEPT !.on = TRUE]
    /\ main' = Idle
    /\ UNCHANGED <<now, temp, match, closed, keypad, seen>>

ReadKeypad == StartPoll \/ SampleCol \/ StateChanged \/ AlreadyReturned
              \/ NotYetReturned \/ RestartLow \/ RestartHigh \/ SettledLow
              \/ NotSettled \/ Settled

Tone == StoreWait \/ LoadStart \/ StartLoaded \/ StoreStart \/ ToneOn

Next == Tick \/ Interrupt \/ ReadKeypad \/ Tone
        \/ (\E ms \in AskedMs : OutputTone(ms))
        \/ (\E k \in DOMAIN Keys : Finger(k))

\* The clock does not stop, interrupts are taken, the main loop runs and comes
\* back to the keypad; nobody has to press a key or ask for a tone.
Spec == Init /\ [][Next]_vars
        /\ WF_vars(Tick) /\ WF_vars(Interrupt)
        /\ SF_vars(StartPoll) /\ WF_vars(ReadKeypad \/ Tone)

-----------------------------------------------------------------------------
Bytes == (0 .. LowSize - 1) \X (0 .. HighSize - 1)
States == [cols : SUBSET Columns, rows : SUBSET (1 .. 4)]

TypeOK ==
    /\ now \in Ticks /\ temp \in 0 .. HighSize - 1 /\ match \in BOOLEAN
    /\ closed \subseteq DOMAIN Keys
    /\ keypad \in [state : States, returned : BOOLEAN, start : Ticks]
    /\ tone \in [wait : Bytes, start : Bytes, on : BOOLEAN]
    /\ main \in [pc : {"idle", "sample"} \cup AtOnce \cup BetweenLoads,
                 cols : 0 .. 3, state : States, low : 0 .. LowSize - 1, dur : Ticks]
    /\ seen \in [gap : 0 .. PollGap, at : Ticks, held : 0 .. Settle,
                 key_torn : BOOLEAN, other : BOOLEAN, age : 0 .. Wrap,
                 tone_torn : BOOLEAN]

\* ReadKeypad returns a character.
Reported == ~keypad.returned /\ keypad'.returned /\ KeyOf(keypad.state) # {}

\* keypad.h: a character is returned if it settled for long enough, once.
\* It is, over every wrap of the clock and however the contacts bounce between
\* the columns of a scan, unless the interrupt of the beeper spoilt a reading
\* of the clock.
KeysAreDebounced ==
    [][Reported => seen.other /\ (seen.held = Settle \/ seen'.key_torn)]_vars

\* The same without the exception: what the comment says.
KeysAlwaysSettle == [][Reported => seen.held = Settle]_vars

\* What the interrupt makes of a length: the first one ends a tone of none, or
\* of one tick, which may have passed while the start was read.
Length(n) == IF n < 2 THEN 2 ELSE n

\* A tone ends at the first interrupt after its time is reached, over a wrap of
\* the clock and after any tone it replaced.
TonesEnd ==
    tone.on /\ At("idle") /\ ~seen.tone_torn /\ Length(Value(tone.wait)) + Period <= Wrap
      => seen.age < Length(Value(tone.wait)) + Period

\* The state is well-formed, every time fits the 16 bit clock, and tones end.
ToneInv == TypeOK /\ TonesEnd

\* The interrupt does not silence a tone before its time, although it may run
\* between any two stores that set up the next one.
TonesLast ==
    [][tone.on /\ ~tone'.on /\ main.pc \notin AtOnce \cup {"start_loaded"}
         => seen.age >= Value(tone.wait) \/ seen.tone_torn]_vars

\* A key held down is returned (nothing changed since), at whatever time of the
\* clock it is pressed and however long the main loop was busy in between, once
\* it is quiet.
KeyGetsThrough ==
    \A k \in DOMAIN Keys :
        <>[](closed = {k} /\ ~tone.on) => <>[](KeyOf(keypad.state) = {k} /\ ~seen.other)
=============================================================================
