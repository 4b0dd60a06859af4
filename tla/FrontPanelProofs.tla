--------------------------- MODULE FrontPanelProofs ---------------------------
(***************************************************************************)
(* Keys are debounced and tones last as long as they should, for a clock   *)
(* of any width and all times, with the interrupt of the beeper between    *)
(* any two loads or stores of the main loop.                               *)
(***************************************************************************)
EXTENDS FrontPanel, TLAPS

-----------------------------------------------------------------------------
(* The inductive invariant. *)

\* A scan samples three columns.
Scanning == (At("idle") => main.cols = 0) /\ (At("sample") => main.cols \in 0 .. 2)

\* A key that is not returned has changed since the last that was.
Unreturned == ~keypad.returned => seen.other

\* At most a tick passes between the two loads of the clock.
LoadsAreClose == main.pc \in BetweenLoads => Since(now, seen.at) <= 1

\* The keypad's start is when the keypad changed, once it is stored; what the
\* debouncing compares with it is not later than now.
HeldSince(start) == seen.held = Settle \/ Since(now, start) = seen.held

KeyTimes ==
    /\ At("restart_high") => HeldSince(seen.at)
    /\ ~At("restart_high") /\ ~seen.key_torn => HeldSince(keypad.start)
    /\ At("settled_high") /\ ~seen.key_torn =>
          seen.held = Settle \/ Since(seen.at, keypad.start) <= seen.held

\* A tone is set up in steps.
Setup == {"tone", "wait_high", "start", "start_loaded", "start_low", "start_high",
          "tone_on"}

StartStored ==
    /\ main.pc \in {"start_low", "start_high", "tone_on"} /\ ~seen.tone_torn =>
          Since(now, main.dur) = seen.age /\ seen.age <= 1
    /\ At("start_high") => tone.start[1] = Low(main.dur)
    /\ At("tone_on") => tone.start = <<Low(main.dur), High(main.dur)>>

\* The age of a tone is what the interrupt computes, until the clock has gone
\* round; and unless the interrupt is due, the tone was not over when it was
\* due the last time.
Sounding ==
    tone.on /\ main.pc \notin Setup /\ ~seen.tone_torn =>
        /\ seen.age = Wrap \/ Since(now, Value(tone.start)) = seen.age
        /\ Length(Value(tone.wait)) + Period <= Wrap =>
              /\ seen.age < Length(Value(tone.wait)) + Period
              /\ ~match => seen.age - (now % Period) < Length(Value(tone.wait))

IInv == /\ TypeOK /\ Scanning /\ Unreturned /\ LoadsAreClose /\ KeyTimes
        /\ StartStored /\ Sounding

-----------------------------------------------------------------------------
(* The clock. *)

\* A number is its two bytes.
LEMMA Bytewise ==
    ASSUME NEW L \in Nat \ {0}, NEW n \in Nat
    PROVE  /\ n % L \in 0 .. L - 1 /\ n \div L \in Nat
           /\ n = (n % L) + L * (n \div L)
OBVIOUS

LEMMA Products ==
    ASSUME NEW a \in Nat, NEW b \in Nat
    PROVE  a * b \in Nat
OBVIOUS

LEMMA Monotonic ==
    ASSUME NEW L \in Nat, NEW a \in Nat, NEW b \in Nat, a <= b
    PROVE  L * a <= L * b
<1>1. L * b = L * a + L * (b - a)
  OBVIOUS
<1>2. L * (b - a) \in Nat /\ L * a \in Nat /\ L * b \in Nat
  BY Products
<1> QED
  BY <1>1, <1>2

LEMMA Sizes ==
    /\ LowSize \in Nat \ {0} /\ HighSize \in Nat \ {0} /\ Wrap \in Nat \ {0}
    /\ Wrap = LowSize * HighSize
    /\ Period \in 1 .. Wrap /\ Settle \in 0 .. Wrap - 1
<1>1. LowSize \in Nat \ {0} /\ HighSize \in Nat \ {0}
  BY PanelAssumption
<1>2. LowSize * 1 <= LowSize * HighSize
  BY <1>1, Monotonic
<1>3. Wrap \in Nat \ {0} /\ Wrap = LowSize * HighSize
  BY <1>1, <1>2 DEF Wrap
<1> QED
  BY <1>1, <1>3, PanelAssumption DEF Ticks

\* Two bytes are a time of the clock, and a time is two bytes.
LEMMA ValueType ==
    ASSUME NEW l \in 0 .. LowSize - 1, NEW h \in 0 .. HighSize - 1
    PROVE  Value(<<l, h>>) \in Ticks
<1>1. LowSize * h <= LowSize * (HighSize - 1)
  BY Sizes, Monotonic
<1>2. LowSize * (HighSize - 1) = LowSize * HighSize - LowSize
  BY Sizes
<1>3. LowSize * h \in Nat
  BY Sizes, Products
<1>4. Value(<<l, h>>) = l + LowSize * h
  BY DEF Value
<1> DEFINE a == LowSize * h
           b == LowSize * HighSize
<1>5. a <= b - LowSize /\ a \in Nat /\ Value(<<l, h>>) = l + a /\ Wrap = b
  BY <1>1, <1>2, <1>3, <1>4, Sizes
<1> HIDE DEF a, b
<1> QED
  BY <1>5, Sizes DEF Ticks

LEMMA BytesOf ==
    ASSUME NEW n \in Ticks
    PROVE  /\ Low(n) \in 0 .. LowSize - 1 /\ High(n) \in 0 .. HighSize - 1
           /\ Value(<<Low(n), High(n)>>) = n
<1> DEFINE l == n % LowSize
           q == n \div LowSize
<1>1. n \in Nat /\ n < LowSize * HighSize
  BY Sizes DEF Ticks
<1>2. l \in 0 .. LowSize - 1 /\ q \in Nat /\ n = l + LowSize * q
  BY <1>1, Sizes, Bytewise
<1>3. Low(n) = l /\ High(n) = q
  BY DEF Low, High
<1> HIDE DEF l, q
<1>4. q < HighSize
  <2>1. SUFFICES ASSUME HighSize <= q
                 PROVE  FALSE
    BY <1>2, Sizes
  <2>2. LowSize * HighSize <= LowSize * q
    BY <1>2, <2>1, Sizes, Monotonic
  <2>3. LowSize * q \in Nat /\ LowSize * HighSize \in Nat
    BY <1>2, Sizes, Products
  <2> DEFINE a == LowSize * HighSize
             b == LowSize * q
  <2>4. a <= b /\ a \in Nat /\ b \in Nat /\ n < a /\ n = l + b
    BY <1>1, <1>2, <2>2, <2>3
  <2> HIDE DEF a, b
  <2> QED
    BY <1>2, <2>4, Sizes
<1>5. Value(<<l, q>>) = l + LowSize * q
  BY DEF Value
<1> QED
  BY <1>2, <1>3, <1>4, <1>5, Sizes

LEMMA SmallRemainder ==
    ASSUME NEW W \in Nat \ {0}, NEW n \in 0 .. W - 1
    PROVE  n % W = n
OBVIOUS

\* Differences of times.
LEMMA Difference ==
    ASSUME NEW W \in Nat \ {0}, NEW d \in Int, 0 - W < d, d < W
    PROVE  d % W = IF d >= 0 THEN d ELSE d + W
OBVIOUS

LEMMA SinceIs ==
    ASSUME NEW t \in 0 .. Wrap - 1, NEW u \in 0 .. Wrap - 1
    PROVE  Since(t, u) = IF t - u >= 0 THEN t - u ELSE t - u + Wrap
<1> DEFINE d == t - u
           W == Wrap
<1>1. W \in Nat \ {0}
  BY Sizes
<1>2. t \in 0 .. W - 1 /\ u \in 0 .. W - 1
  OBVIOUS
<1>3. Since(t, u) = d % W
  BY DEF Since
<1> HIDE DEF W
<1>4. d \in Int /\ 0 - W < d /\ d < W
  BY <1>1, <1>2
<1> HIDE DEF d
<1>5. d % W = IF d >= 0 THEN d ELSE d + W
  BY <1>1, <1>4, Difference
<1> QED
  BY <1>3, <1>5 DEF d, W

LEMMA SinceType ==
    ASSUME NEW t \in Ticks, NEW u \in Ticks
    PROVE  Since(t, u) \in 0 .. Wrap - 1 /\ Since(t, t) = 0
<1>1. Wrap \in Nat \ {0} /\ t \in 0 .. Wrap - 1 /\ u \in 0 .. Wrap - 1
  BY Sizes DEF Ticks
<1> QED
  BY <1>1, SinceIs

\* The clock goes on.
LEMMA NextTick ==
    ASSUME NEW t \in Ticks
    PROVE  /\ (t + 1) % Wrap \in Ticks
           /\ (t + 1) % Wrap = IF t = Wrap - 1 THEN 0 ELSE t + 1
<1>1. Wrap \in Nat \ {0} /\ t \in 0 .. Wrap - 1
  BY Sizes DEF Ticks
<1>2. (t + 1) % Wrap = IF t = Wrap - 1 THEN 0 ELSE t + 1
  <2>1. CASE t = Wrap - 1
    BY <1>1, <2>1
  <2>2. CASE t # Wrap - 1
    <3>1. t + 1 \in 0 .. Wrap - 1
      BY <1>1, <2>2
    <3> QED
      BY <1>1, <3>1, SmallRemainder
  <2> QED
    BY <2>1, <2>2
<1> QED
  BY <1>1, <1>2 DEF Ticks

LEMMA SinceNext ==
    ASSUME NEW t \in Ticks, NEW u \in Ticks
    PROVE  Since((t + 1) % Wrap, u) = IF Since(t, u) = Wrap - 1 THEN 0 ELSE Since(t, u) + 1
<1> DEFINE n == (t + 1) % Wrap
<1>1. /\ Wrap \in Nat \ {0} /\ t \in 0 .. Wrap - 1 /\ u \in 0 .. Wrap - 1
      /\ n \in 0 .. Wrap - 1 /\ n = IF t = Wrap - 1 THEN 0 ELSE t + 1
  BY Sizes, NextTick DEF Ticks
<1>2. Since(t, u) = IF t - u >= 0 THEN t - u ELSE t - u + Wrap
  BY <1>1, SinceIs
<1> HIDE DEF n
<1>3. Since(n, u) = IF n - u >= 0 THEN n - u ELSE n - u + Wrap
  BY <1>1, SinceIs
<1>4. Since(n, u) = IF Since(t, u) = Wrap - 1 THEN 0 ELSE Since(t, u) + 1
  BY <1>1, <1>2, <1>3
<1> QED
  BY <1>4 DEF n

\* A divided clock.
LEMMA NextPhase ==
    ASSUME NEW P \in Nat \ {0}, NEW n \in Nat
    PROVE  /\ n % P \in 0 .. P - 1
           /\ (n + 1) % P = 0 \/ (n + 1) % P = (n % P) + 1
           /\ 0 % P = 0
<1> DEFINE r == n % P
           q == n \div P
<1>1. r \in 0 .. P - 1 /\ q \in Nat /\ n = r + P * q
  BY Bytewise
<1>2. P * (q + 1) = P * q + P
  BY <1>1
<1>3. CASE r = P - 1
  <2>1. n + 1 = P * (q + 1)
    BY <1>1, <1>2, <1>3
  <2>2. (P * (q + 1)) % P = 0
    BY <1>1
  <2> QED
    BY <1>1, <2>1, <2>2
<1>4. CASE r # P - 1
  <2>1. n + 1 = (r + 1) + P * q /\ r + 1 \in 0 .. P - 1
    BY <1>1, <1>4
  <2>2. ((r + 1) + P * q) % P = r + 1
    <3> HIDE DEF r, q
    <3> QED
      BY <1>1, <2>1
  <2> QED
    BY <1>1, <2>1, <2>2
<1> QED
  BY <1>1, <1>3, <1>4

-----------------------------------------------------------------------------
(* Types. *)

Keypads == [state : States, returned : BOOLEAN, start : Ticks]
Tones == [wait : Bytes, start : Bytes, on : BOOLEAN]
Pcs == {"idle", "sample"} \cup AtOnce \cup BetweenLoads
Mains == [pc : Pcs, cols : 0 .. 3, state : States, low : 0 .. LowSize - 1, dur : Ticks]
Seens == [gap : 0 .. PollGap, at : Ticks, held : 0 .. Settle, key_torn : BOOLEAN,
          other : BOOLEAN, age : 0 .. Wrap, tone_torn : BOOLEAN]

LEMMA TypeParts ==
    TypeOK <=> /\ now \in Ticks /\ temp \in 0 .. HighSize - 1 /\ match \in BOOLEAN
               /\ closed \subseteq DOMAIN Keys
               /\ keypad \in Keypads /\ tone \in Tones /\ main \in Mains /\ seen \in Seens
BY DEF TypeOK, Keypads, Tones, Pcs, Mains, Seens

LEMMA ZeroTypes ==
    /\ 0 \in Ticks /\ 0 \in 0 .. LowSize - 1 /\ 0 \in 0 .. HighSize - 1
    /\ 0 \in 0 .. Wrap /\ 0 \in 0 .. Settle /\ 0 \in 0 .. PollGap
    /\ NoKeys \in States
<1>1. PollGap \in Nat
  BY PanelAssumption
<1>2. NoKeys \in States
  BY DEF NoKeys, States
<1> QED
  BY <1>1, <1>2, Sizes DEF Ticks

LEMMA IdleType == Idle \in Mains
BY ZeroTypes DEF Idle, Mains, Pcs

\* Milliseconds become times of the clock.
LEMMA CyclesType ==
    ASSUME NEW ms \in Nat
    PROVE  ms_to_cycles(ms) \in Ticks
<1> DEFINE n == ms * TickRate
           c == n \div 1000
<1>1. n \in Nat
  BY PanelAssumption, Products
<1> HIDE DEF n
<1>2. c \in Nat
  BY <1>1
<1> HIDE DEF c
<1>3. c % Wrap \in 0 .. Wrap - 1
  BY <1>2, Sizes
<1> QED
  BY <1>3 DEF ms_to_cycles, Ticks, c, n

LEMMA LoadedType ==
    ASSUME TypeOK
    PROVE  Loaded \in Ticks
<1>1. main.low \in 0 .. LowSize - 1 /\ temp \in 0 .. HighSize - 1
  BY TypeParts DEF Mains
<1> QED
  BY <1>1, ValueType DEF Loaded

\* What the interrupt and the main loop read of a tone.
LEMMA ToneValues ==
    ASSUME TypeOK
    PROVE  Value(tone.wait) \in Ticks /\ Value(tone.start) \in Ticks
<1>1. ASSUME NEW b \in Bytes
      PROVE  Value(b) \in Ticks
  <2>1. PICK l \in 0 .. LowSize - 1, h \in 0 .. HighSize - 1 : b = <<l, h>>
    BY DEF Bytes
  <2> QED
    BY <2>1, ValueType
<1>2. tone.wait \in Bytes /\ tone.start \in Bytes
  BY TypeParts DEF Tones
<1> QED
  BY <1>1, <1>2

\* A scan finds columns and rows.
LEMMA SampledType ==
    ASSUME TypeOK, NEW c \in Columns
    PROVE  (IF RowsOf(c) = {} THEN main.state
            ELSE [cols |-> main.state.cols \cup {c},
                  rows |-> main.state.rows \cup RowsOf(c)]) \in States
<1>1. main.state \in [cols : SUBSET Columns, rows : SUBSET (1 .. 4)]
  BY TypeParts DEF Mains, States
<1>2. RowsOf(c) \subseteq 1 .. 4
  <2>1. closed \subseteq DOMAIN Keys /\ \A k \in DOMAIN Keys : Keys[k] \in Columns \X (1 .. 4)
    BY TypeParts, PanelAssumption
  <2>2. \A k \in closed : Keys[k][2] \in 1 .. 4
    BY <2>1
  <2> QED
    BY <2>2 DEF RowsOf
<1> QED
  BY <1>1, <1>2 DEF States

LEMMA InitHolds == Init => IInv
<1> SUFFICES ASSUME Init
             PROVE  IInv
  OBVIOUS
<1>1. TypeOK
  <2>1. /\ now \in Ticks /\ temp \in 0 .. HighSize - 1 /\ match \in BOOLEAN
        /\ closed \subseteq DOMAIN Keys /\ main \in Mains
    BY ZeroTypes, IdleType DEF Init
  <2>2. keypad \in Keypads /\ seen \in Seens
    BY ZeroTypes DEF Init, Keypads, Seens
  <2>3. tone \in Tones
    BY ZeroTypes DEF Init, Tones, Bytes
  <2> QED
    BY <2>1, <2>2, <2>3, TypeParts
<1>2. Scanning /\ Unreturned /\ LoadsAreClose /\ StartStored /\ Sounding
  BY DEF Init, Idle, At, Scanning, Unreturned, LoadsAreClose, BetweenLoads, StartStored,
         Sounding
<1>3. KeyTimes
  <2>1. Since(0, 0) = 0
    BY SinceType, ZeroTypes
  <2> QED
    BY <2>1 DEF Init, Idle, At, KeyTimes, HeldSince
<1> QED
  BY <1>1, <1>2, <1>3 DEF IInv

\* Every action leaves the state well-formed.
LEMMA TickType ==
    ASSUME TypeOK, Tick
    PROVE  TypeOK'
<1>1. now' \in Ticks /\ match' \in BOOLEAN
  <2>1. now' \in Ticks
    BY NextTick, TypeParts DEF Tick
  <2>2. match' = (match \/ now' % Period = 0)
    BY DEF Tick
  <2> QED
    BY <2>1, <2>2
<1>2. seen' \in Seens
  <2> DEFINE h == Least(seen.held + 1, Settle)
             a == IF tone.on THEN Least(seen.age + 1, Wrap) ELSE 0
  <2>1. seen \in Seens /\ seen.gap + 1 \in 0 .. PollGap
    <3>1. seen \in Seens /\ seen.gap < PollGap /\ PollGap \in Nat
      BY TypeParts, PanelAssumption DEF Tick
    <3> QED
      BY <3>1 DEF Seens
  <2>2. h \in 0 .. Settle /\ a \in 0 .. Wrap
    BY <2>1, Sizes DEF Seens, Least
  <2>3. seen' = [seen EXCEPT !.gap = @ + 1, !.held = h, !.age = a]
    BY DEF Tick
  <2> HIDE DEF h, a
  <2> QED
    BY <2>1, <2>2, <2>3 DEF Seens
<1>3. /\ temp' \in 0 .. HighSize - 1 /\ closed' \subseteq DOMAIN Keys
      /\ keypad' \in Keypads /\ tone' \in Tones /\ main' \in Mains
  BY TypeParts DEF Tick
<1> QED
  BY <1>1, <1>2, <1>3 DEF TypeOK, Keypads, Tones, Pcs, Mains, Seens

LEMMA InterruptType ==
    ASSUME TypeOK, Interrupt
    PROVE  TypeOK'
<1>1. temp' \in 0 .. HighSize - 1
  BY BytesOf, TypeParts DEF Interrupt
<1>2. tone' \in Tones
  <2> DEFINE on == Since(now, Value(tone.start)) < Value(tone.wait)
  <2>1. on \in BOOLEAN /\ tone \in Tones /\ tone' = [tone EXCEPT !.on = on]
    BY TypeParts DEF Interrupt
  <2> HIDE DEF on
  <2> QED
    BY <2>1 DEF Tones
<1>3. /\ now' \in Ticks /\ match' \in BOOLEAN /\ closed' \subseteq DOMAIN Keys
      /\ keypad' \in Keypads /\ main' \in Mains /\ seen' \in Seens
  BY TypeParts DEF Interrupt
<1> QED
  BY <1>1, <1>2, <1>3 DEF TypeOK, Keypads, Tones, Pcs, Mains, Seens

\* The main loop goes on at another place.
LEMMA GoToType ==
    ASSUME TypeOK, NEW p \in Pcs
    PROVE  [main EXCEPT !.pc = p] \in Mains
BY TypeParts DEF Mains

\* The first load of the clock.
LEMMA LoadType ==
    ASSUME TypeOK, NEW here, NEW there \in Pcs, Load(here, there)
    PROVE  main' \in Mains /\ temp' \in 0 .. HighSize - 1
<1>1. now \in Ticks /\ main \in Mains
  BY TypeParts
<1>2. Low(now) \in 0 .. LowSize - 1 /\ High(now) \in 0 .. HighSize - 1
  BY <1>1, BytesOf
<1>3. main' = [main EXCEPT !.pc = there, !.low = Low(now)] /\ temp' = High(now)
  BY DEF Load
<1>4. ASSUME NEW l \in 0 .. LowSize - 1
      PROVE  [main EXCEPT !.pc = there, !.low = l] \in Mains
  BY <1>1 DEF Mains
<1> QED
  BY <1>2, <1>3, <1>4

\* A tone begins to be set up.
LEMMA ToneAskedType ==
    ASSUME NEW d \in Ticks
    PROVE  [Idle EXCEPT !.pc = "tone", !.dur = d] \in Mains
BY IdleType DEF Mains, Pcs, AtOnce

LEMMA ToneAsked ==
    ASSUME NEW d
    PROVE  [Idle EXCEPT !.pc = "tone", !.dur = d].pc = "tone"
BY DEF Idle

\* The history changes.
LEMMA HistoryType ==
    ASSUME TypeOK, NEW t \in Ticks, NEW b \in BOOLEAN, NEW a \in 0 .. Wrap
    PROVE  /\ [seen EXCEPT !.gap = 0] \in Seens
           /\ [seen EXCEPT !.other = TRUE] \in Seens
           /\ [seen EXCEPT !.at = t] \in Seens
           /\ [seen EXCEPT !.at = t, !.held = 0] \in Seens
           /\ [seen EXCEPT !.at = t, !.age = 0] \in Seens
           /\ [seen EXCEPT !.key_torn = b, !.at = 0] \in Seens
           /\ [seen EXCEPT !.key_torn = @ \/ b, !.at = 0, !.other = FALSE] \in Seens
           /\ [seen EXCEPT !.tone_torn = b, !.at = 0, !.age = a] \in Seens
<1>1. seen \in Seens
  BY TypeParts
<1>2. 0 \in Ticks /\ 0 \in 0 .. Wrap /\ 0 \in 0 .. Settle /\ 0 \in 0 .. PollGap
  BY ZeroTypes
<1>3. seen.key_torn \in BOOLEAN /\ (seen.key_torn \/ b) \in BOOLEAN
  BY <1>1 DEF Seens
<1>4. ASSUME NEW z \in Ticks, NEW e \in BOOLEAN
      PROVE  [seen EXCEPT !.key_torn = e, !.at = z, !.other = FALSE] \in Seens
  BY <1>1 DEF Seens
<1>5. [seen EXCEPT !.gap = 0] \in Seens /\ [seen EXCEPT !.other = TRUE] \in Seens
  BY <1>1, <1>2 DEF Seens
<1>6. [seen EXCEPT !.at = t] \in Seens
  BY <1>1 DEF Seens
<1>7. [seen EXCEPT !.at = t, !.held = 0] \in Seens
  BY <1>1, <1>2 DEF Seens
<1>8. [seen EXCEPT !.at = t, !.age = 0] \in Seens
  BY <1>1, <1>2 DEF Seens
<1>9. [seen EXCEPT !.key_torn = b, !.at = 0] \in Seens
  BY <1>1, <1>2 DEF Seens
<1>10. [seen EXCEPT !.tone_torn = b, !.at = 0, !.age = a] \in Seens
  BY <1>1, <1>2 DEF Seens
<1> QED
  BY <1>2, <1>3, <1>4, <1>5, <1>6, <1>7, <1>8, <1>9, <1>10

LEMMA KeypadType ==
    ASSUME TypeOK, Scanning, ReadKeypad
    PROVE  TypeOK'
<1>1. /\ now \in Ticks /\ temp \in 0 .. HighSize - 1 /\ match \in BOOLEAN
      /\ closed \subseteq DOMAIN Keys
      /\ keypad \in Keypads /\ tone \in Tones /\ main \in Mains /\ seen \in Seens
  BY TypeParts
<1>2. now' = now /\ match' = match /\ closed' = closed /\ tone' = tone
  BY DEF ReadKeypad, StartPoll, SampleCol, StateChanged, AlreadyReturned, NotYetReturned,
         RestartLow, RestartHigh, SettledLow, NotSettled, Settled
<1> USE DEF Pcs, AtOnce, BetweenLoads, GoTo
<1>3. /\ keypad' \in Keypads /\ main' \in Mains /\ seen' \in Seens
      /\ temp' \in 0 .. HighSize - 1
  <2>1. CASE StartPoll
    BY <1>1, <2>1, GoToType, HistoryType, ZeroTypes DEF StartPoll
  <2>2. CASE SampleCol
    <3> DEFINE c == main.cols + 1
               s == IF RowsOf(c) = {} THEN main.state
                    ELSE [cols |-> main.state.cols \cup {c},
                          rows |-> main.state.rows \cup RowsOf(c)]
               p == IF c = 3 THEN "compare" ELSE "sample"
    <3>1. c \in Columns /\ c \in 0 .. 3 /\ p \in Pcs
      BY <2>2 DEF SampleCol, Scanning, Columns
    <3>2. s \in States
      BY <3>1, SampledType
    <3>3. main' = [main EXCEPT !.cols = c, !.state = s, !.pc = p]
      BY <2>2 DEF SampleCol
    <3> HIDE DEF c, s, p
    <3>4. main' \in Mains
      BY <1>1, <3>1, <3>2, <3>3 DEF Mains
    <3> QED
      BY <1>1, <2>2, <3>4 DEF SampleCol
  <2>3. CASE StateChanged
    <3>1. keypad' \in Keypads
      <4>1. main.state \in States
        BY <1>1 DEF Mains
      <4> QED
        BY <1>1, <2>3, <4>1 DEF StateChanged, Keypads
    <3> QED
      BY <1>1, <2>3, <3>1, GoToType, HistoryType, ZeroTypes DEF StateChanged
  <2>4. CASE AlreadyReturned
    BY <1>1, <2>4, IdleType DEF AlreadyReturned
  <2>5. CASE NotYetReturned
    BY <1>1, <2>5, GoToType DEF NotYetReturned
  <2>6. CASE RestartLow
    BY <1>1, <2>6, LoadType, HistoryType, ZeroTypes DEF RestartLow
  <2>7. CASE RestartHigh
    <3>1. keypad' \in Keypads
      BY <1>1, <2>7, LoadedType DEF RestartHigh, Keypads
    <3>2. Torn \in BOOLEAN
      BY DEF Torn
    <3> QED
      BY <1>1, <2>7, <3>1, <3>2, IdleType, HistoryType, ZeroTypes DEF RestartHigh
  <2>8. CASE SettledLow
    BY <1>1, <2>8, LoadType, HistoryType, ZeroTypes DEF SettledLow
  <2>9. CASE NotSettled
    BY <1>1, <2>9, IdleType, HistoryType, ZeroTypes DEF NotSettled
  <2>10. CASE Settled
    <3>1. keypad' \in Keypads
      BY <1>1, <2>10 DEF Settled, Keypads
    <3>2. main' \in Mains
      <4>1. ms_to_cycles(ClickMs) \in Ticks
        BY CyclesType, PanelAssumption
      <4> QED
        BY <2>10, <4>1, IdleType, ToneAskedType DEF Settled
    <3>3. Torn \in BOOLEAN
      BY DEF Torn
    <3> QED
      BY <2>10, <3>1, <3>2, <3>3, HistoryType, ZeroTypes DEF Settled
  <2> QED
    BY <2>1, <2>2, <2>3, <2>4, <2>5, <2>6, <2>7, <2>8, <2>9, <2>10 DEF ReadKeypad
<1> QED
  BY <1>1, <1>2, <1>3 DEF TypeOK, Keypads, Tones, Mains, Seens

LEMMA ToneType ==
    ASSUME TypeOK, Tone \/ \E ms \in AskedMs : OutputTone(ms)
    PROVE  TypeOK'
<1>1. /\ now \in Ticks /\ temp \in 0 .. HighSize - 1 /\ match \in BOOLEAN
      /\ closed \subseteq DOMAIN Keys
      /\ keypad \in Keypads /\ tone \in Tones /\ main \in Mains /\ seen \in Seens
  BY TypeParts
<1> USE DEF Pcs, AtOnce, BetweenLoads, GoTo
<1>2. now' = now /\ match' = match /\ closed' = closed /\ keypad' = keypad
  BY DEF Tone, StoreWait, LoadStart, StartLoaded, StoreStart, ToneOn, Store, OutputTone
<1>3. Low(main.dur) \in 0 .. LowSize - 1 /\ High(main.dur) \in 0 .. HighSize - 1
  BY <1>1, BytesOf DEF Mains
<1>4. ASSUME NEW here, NEW there \in Pcs, NEW stored \in Tones, Store(here, there, stored)
      PROVE  tone' \in Tones /\ main' \in Mains /\ seen' = seen /\ temp' = temp
  BY <1>4, GoToType DEF Store
<1>5. ASSUME NEW l \in 0 .. LowSize - 1, NEW h \in 0 .. HighSize - 1
      PROVE  /\ [tone EXCEPT !.wait[1] = l] \in Tones /\ [tone EXCEPT !.wait[2] = h] \in Tones
             /\ [tone EXCEPT !.start[1] = l] \in Tones
             /\ [tone EXCEPT !.start[2] = h] \in Tones
  BY <1>1 DEF Tones, Bytes
<1>6. /\ tone' \in Tones /\ main' \in Mains /\ seen' \in Seens
      /\ temp' \in 0 .. HighSize - 1
  <2>1. CASE StoreWait \/ StoreStart
    BY <1>1, <1>3, <1>4, <1>5, <2>1 DEF StoreWait, StoreStart
  <2>2. CASE LoadStart
    BY <1>1, <2>2, LoadType, HistoryType, ZeroTypes DEF LoadStart
  <2>3. CASE StartLoaded
    <3>1. main' \in Mains
      <4>1. Loaded \in Ticks
        BY LoadedType
      <4> QED
        BY <1>1, <2>3, <4>1 DEF StartLoaded, Mains
    <3>2. Since(now, seen.at) \in 0 .. Wrap
      BY <1>1, SinceType, Sizes DEF Seens
    <3>3. Torn \in BOOLEAN
      BY DEF Torn
    <3> QED
      BY <1>1, <2>3, <3>1, <3>2, <3>3, HistoryType, ZeroTypes DEF StartLoaded
  <2>4. CASE ToneOn
    BY <1>1, <2>4, IdleType DEF ToneOn, Tones
  <2>5. CASE \E ms \in AskedMs : OutputTone(ms)
    BY <1>1, <2>5, CyclesType, ToneAskedType, PanelAssumption DEF OutputTone
  <2> QED
    BY <2>1, <2>2, <2>3, <2>4, <2>5 DEF Tone
<1> QED
  BY <1>1, <1>2, <1>6 DEF TypeOK, Keypads, Tones, Mains, Seens

-----------------------------------------------------------------------------
(* Step by step. *)

\* The parts of the state that times are about.
LEMMA Numbers ==
    ASSUME TypeOK
    PROVE  /\ now \in Ticks /\ seen.at \in Ticks /\ keypad.start \in Ticks
           /\ main.dur \in Ticks /\ match \in BOOLEAN
           /\ seen.held \in 0 .. Settle /\ seen.age \in 0 .. Wrap
           /\ seen \in Seens /\ main \in Mains /\ keypad \in Keypads /\ tone \in Tones
BY TypeParts DEF Seens, Mains, Keypads

\* Steps between the loads and stores of the clock and of a tone.
LEMMA KeptStep ==
    ASSUME IInv, TypeOK', Scanning',
           main.pc # "restart_high",
           main'.pc \notin BetweenLoads \cup {"start_low", "start_high", "tone_on"},
           main'.pc \in Setup \/ (main.pc \notin Setup /\ tone' = tone),
           now' = now, match' = match, keypad'.start = keypad.start,
           ~keypad'.returned => seen'.other,
           seen'.held = seen.held, seen'.age = seen.age,
           seen'.tone_torn = seen.tone_torn, seen.key_torn => seen'.key_torn
    PROVE  IInv'
<1>1. Unreturned' /\ LoadsAreClose'
  BY DEF Unreturned, LoadsAreClose
<1>2. KeyTimes'
  BY DEF IInv, KeyTimes, HeldSince, At, BetweenLoads
<1>3. StartStored'
  BY DEF StartStored, At
<1>4. Sounding'
  <2>1. CASE main'.pc \in Setup
    BY <2>1 DEF Sounding
  <2>2. CASE main.pc \notin Setup /\ tone' = tone
    BY <2>2 DEF IInv, Sounding
  <2> QED
    BY <2>1, <2>2
<1> QED
  BY <1>1, <1>2, <1>3, <1>4 DEF IInv

LEMMA KeypadStep ==
    ASSUME IInv, ReadKeypad
    PROVE  IInv'
<1>1. TypeOK'
  BY KeypadType DEF IInv
<1>2. seen \in Seens /\ main \in Mains /\ keypad \in Keypads /\ now \in Ticks
  BY Numbers DEF IInv
<1> USE DEF GoTo, At
<1>3. CASE StartPoll
  <2>1. /\ main.pc = "idle" /\ main'.pc = "sample" /\ main'.cols = main.cols
        /\ now' = now /\ match' = match /\ tone' = tone /\ keypad' = keypad
        /\ seen'.held = seen.held /\ seen'.age = seen.age /\ seen'.other = seen.other
        /\ seen'.tone_torn = seen.tone_torn /\ seen'.key_torn = seen.key_torn
    BY <1>2, <1>3 DEF StartPoll, Seens, Mains
  <2>2. Scanning'
    BY <2>1 DEF IInv, Scanning
  <2> QED
    BY <1>1, <2>1, <2>2, KeptStep DEF IInv, Unreturned, BetweenLoads, Setup
<1>4. CASE SampleCol
  <2>1. /\ main.pc = "sample" /\ main'.cols = main.cols + 1
        /\ main'.pc = IF main.cols + 1 = 3 THEN "compare" ELSE "sample"
    BY <1>2, <1>4 DEF SampleCol, Mains
  <2>2. Scanning'
    BY <2>1 DEF IInv, Scanning
  <2>3. now' = now /\ match' = match /\ tone' = tone /\ keypad' = keypad /\ seen' = seen
    BY <1>4 DEF SampleCol
  <2> QED
    BY <1>1, <2>1, <2>2, <2>3, KeptStep DEF IInv, Unreturned, BetweenLoads, Setup
<1>5. CASE StateChanged
  <2>1. /\ main.pc = "compare" /\ main'.pc = "restart"
        /\ now' = now /\ match' = match /\ tone' = tone /\ keypad'.start = keypad.start
        /\ seen'.held = seen.held /\ seen'.age = seen.age /\ seen'.other
        /\ seen'.tone_torn = seen.tone_torn /\ seen'.key_torn = seen.key_torn
    BY <1>2, <1>5 DEF StateChanged, Seens, Mains, Keypads
  <2>2. Scanning'
    BY <2>1 DEF Scanning
  <2> QED
    BY <1>1, <2>1, <2>2, KeptStep DEF BetweenLoads, Setup
<1>6. CASE AlreadyReturned
  <2>1. main.pc = "compare" /\ main' = Idle
    BY <1>6 DEF AlreadyReturned
  <2>2. main'.pc = "idle" /\ main'.cols = 0
    BY <2>1 DEF Idle
  <2>3. now' = now /\ match' = match /\ tone' = tone /\ keypad' = keypad /\ seen' = seen
    BY <1>6 DEF AlreadyReturned
  <2>4. Scanning'
    BY <2>2 DEF Scanning
  <2> QED
    BY <1>1, <2>1, <2>2, <2>3, <2>4, KeptStep DEF IInv, Unreturned, BetweenLoads, Setup
<1>7. CASE NotYetReturned
  <2>1. main.pc = "compare" /\ main'.pc = "settled_low"
    BY <1>2, <1>7 DEF NotYetReturned, Mains
  <2>2. now' = now /\ match' = match /\ tone' = tone /\ keypad' = keypad /\ seen' = seen
    BY <1>7 DEF NotYetReturned
  <2>3. Scanning'
    BY <2>1 DEF Scanning
  <2> QED
    BY <1>1, <2>1, <2>2, <2>3, KeptStep DEF IInv, Unreturned, BetweenLoads, Setup
\* start_time_ is about to be stored.
<1>8. CASE RestartLow
  <2>1. /\ main.pc = "restart" /\ main'.pc = "restart_high"
        /\ now' = now /\ match' = match /\ tone' = tone /\ keypad' = keypad
        /\ seen'.held = 0 /\ seen'.at = now /\ seen'.age = seen.age
        /\ seen'.other = seen.other /\ seen'.tone_torn = seen.tone_torn
    BY <1>2, <1>8 DEF RestartLow, Load, Seens, Mains
  <2>2. Since(now, now) = 0
    BY <1>2, SinceType
  <2>3. Scanning' /\ Unreturned' /\ LoadsAreClose' /\ StartStored'
    BY <2>1, <2>2 DEF IInv, Scanning, Unreturned, LoadsAreClose, StartStored
  <2>4. KeyTimes'
    BY <2>1, <2>2 DEF KeyTimes, HeldSince
  <2>5. Sounding'
    BY <2>1 DEF IInv, Sounding, Setup
  <2> QED
    BY <1>1, <2>3, <2>4, <2>5 DEF IInv
<1>9. CASE RestartHigh
  <2>1. /\ main.pc = "restart_high" /\ main' = Idle
        /\ now' = now /\ match' = match /\ tone' = tone /\ keypad'.start = Loaded
        /\ keypad'.returned = keypad.returned
        /\ seen'.held = seen.held /\ seen'.key_torn = Torn /\ seen'.age = seen.age
        /\ seen'.other = seen.other /\ seen'.tone_torn = seen.tone_torn
    BY <1>2, <1>9 DEF RestartHigh, Seens, Keypads
  <2>2. main'.pc = "idle" /\ main'.cols = 0
    BY <2>1 DEF Idle
  <2>3. Scanning' /\ Unreturned' /\ LoadsAreClose' /\ StartStored'
    BY <2>1, <2>2 DEF IInv, Scanning, Unreturned, LoadsAreClose, BetweenLoads, StartStored
  <2>4. KeyTimes'
    BY <2>1, <2>2 DEF IInv, KeyTimes, HeldSince, Torn
  <2>5. Sounding'
    BY <2>1, <2>2 DEF IInv, Sounding, Setup
  <2> QED
    BY <1>1, <2>3, <2>4, <2>5 DEF IInv
<1>10. CASE SettledLow
  <2>1. /\ main.pc = "settled_low" /\ main'.pc = "settled_high"
        /\ now' = now /\ match' = match /\ tone' = tone /\ keypad' = keypad
        /\ seen'.held = seen.held /\ seen'.at = now /\ seen'.age = seen.age
        /\ seen'.key_torn = seen.key_torn
        /\ seen'.other = seen.other /\ seen'.tone_torn = seen.tone_torn
    BY <1>2, <1>10 DEF SettledLow, Load, Seens, Mains
  <2>2. Since(now, now) = 0
    BY <1>2, SinceType
  <2>3. Scanning' /\ Unreturned' /\ LoadsAreClose' /\ StartStored'
    BY <2>1, <2>2 DEF IInv, Scanning, Unreturned, LoadsAreClose, StartStored
  <2>4. KeyTimes'
    <3>1. seen.held \in Int
      BY Numbers, Sizes DEF IInv
    <3> QED
      BY <2>1, <3>1 DEF IInv, KeyTimes, HeldSince
  <2>5. Sounding'
    BY <2>1 DEF IInv, Sounding, Setup
  <2> QED
    BY <1>1, <2>3, <2>4, <2>5 DEF IInv
<1>11. CASE NotSettled
  <2>1. /\ main.pc = "settled_high" /\ main' = Idle
        /\ now' = now /\ match' = match /\ tone' = tone /\ keypad' = keypad
        /\ seen'.held = seen.held /\ seen'.age = seen.age /\ seen'.other = seen.other
        /\ seen'.tone_torn = seen.tone_torn /\ seen'.key_torn = seen.key_torn
    BY <1>2, <1>11 DEF NotSettled, Seens
  <2>2. main'.pc = "idle" /\ main'.cols = 0
    BY <2>1 DEF Idle
  <2>3. Scanning'
    BY <2>2 DEF Scanning
  <2> QED
    BY <1>1, <2>1, <2>2, <2>3, KeptStep DEF IInv, Unreturned, BetweenLoads, Setup
<1>12. CASE Settled
  <2>1. /\ main.pc = "settled_high"
        /\ now' = now /\ match' = match /\ tone' = tone /\ keypad'.start = keypad.start
        /\ keypad'.returned
        /\ seen'.held = seen.held /\ seen'.age = seen.age
        /\ seen'.tone_torn = seen.tone_torn /\ (seen.key_torn => seen'.key_torn)
    BY <1>2, <1>12 DEF Settled, Seens, Keypads
  <2>2. (main'.pc = "idle" /\ main'.cols = 0) \/ main'.pc = "tone"
    <3>1. Idle.pc = "idle" /\ Idle.cols = 0
      BY DEF Idle
    <3> QED
      BY <1>12, <3>1, ToneAsked DEF Settled
  <2>3. Scanning'
    BY <2>2 DEF Scanning
  <2> QED
    BY <1>1, <2>1, <2>2, <2>3, KeptStep DEF BetweenLoads, Setup
<1> QED
  BY <1>3, <1>4, <1>5, <1>6, <1>7, <1>8, <1>9, <1>10, <1>11, <1>12 DEF ReadKeypad

\* A tone is set up.
LEMMA ToneStep ==
    ASSUME IInv, Tone \/ \E ms \in AskedMs : OutputTone(ms)
    PROVE  IInv'
<1>1. TypeOK'
  BY ToneType DEF IInv
<1>2. /\ seen \in Seens /\ main \in Mains /\ tone \in Tones
      /\ now \in Ticks /\ seen.at \in Ticks /\ main.dur \in Ticks
  BY Numbers DEF IInv
<1> USE DEF GoTo, At
<1>3. now' = now /\ match' = match /\ keypad' = keypad
  BY DEF Tone, StoreWait, LoadStart, StartLoaded, StoreStart, ToneOn, Store, OutputTone
\* A store: where it is, and what else it leaves alone.
<1>4. ASSUME NEW here, NEW there, NEW stored, Store(here, there, stored)
      PROVE  /\ main.pc = here /\ main'.pc = there /\ main'.dur = main.dur
             /\ tone' = stored /\ seen' = seen
  BY <1>2, <1>4 DEF Store, Mains
<1>5. CASE \E ms \in AskedMs : OutputTone(ms)
  <2>1. main'.pc = "tone" /\ main.pc = "idle" /\ seen' = seen
    BY <1>5, ToneAsked DEF OutputTone
  <2>2. Scanning'
    BY <2>1 DEF Scanning
  <2> QED
    BY <1>1, <1>3, <2>1, <2>2, KeptStep DEF IInv, Unreturned, BetweenLoads, Setup
<1>6. CASE StoreWait
  <2>1. main.pc # "restart_high" /\ main'.pc \in {"wait_high", "start"} /\ seen' = seen
    BY <1>4, <1>6 DEF StoreWait
  <2>2. Scanning'
    BY <2>1 DEF Scanning
  <2> QED
    BY <1>1, <1>3, <2>1, <2>2, KeptStep DEF IInv, Unreturned, BetweenLoads, Setup
<1>7. CASE LoadStart
  <2>1. /\ main.pc = "start" /\ main'.pc = "start_loaded"
        /\ seen'.held = seen.held /\ seen'.at = now /\ seen'.age = 0
        /\ seen'.key_torn = seen.key_torn /\ seen'.other = seen.other
    BY <1>2, <1>7 DEF LoadStart, Load, Seens, Mains
  <2>2. Since(now, now) = 0
    BY <1>2, SinceType
  <2>3. Scanning' /\ Unreturned' /\ LoadsAreClose' /\ StartStored'
    BY <1>3, <2>1, <2>2 DEF IInv, Scanning, Unreturned, LoadsAreClose, StartStored
  <2>4. KeyTimes'
    BY <1>3, <2>1 DEF IInv, KeyTimes, HeldSince
  <2>5. Sounding'
    BY <2>1 DEF Sounding, Setup
  <2> QED
    BY <1>1, <2>3, <2>4, <2>5 DEF IInv
\* The start is the time the first load saw, which is a tick ago at most.
<1>8. CASE StartLoaded
  <2>1. /\ main.pc = "start_loaded" /\ main'.pc = "start_low" /\ main'.dur = Loaded
        /\ seen'.held = seen.held /\ seen'.age = Since(now, seen.at)
        /\ seen'.tone_torn = Torn
        /\ seen'.key_torn = seen.key_torn /\ seen'.other = seen.other
    BY <1>2, <1>8 DEF StartLoaded, Seens, Mains
  <2>2. Scanning' /\ Unreturned' /\ LoadsAreClose'
    BY <1>3, <2>1 DEF IInv, Scanning, Unreturned, LoadsAreClose, BetweenLoads
  <2>3. StartStored'
    <3>1. Since(now, seen.at) <= 1
      BY <2>1 DEF IInv, LoadsAreClose, BetweenLoads
    <3>2. ~seen'.tone_torn => main'.dur = seen.at
      BY <2>1, Zenon DEF Torn
    <3>3. seen'.age <= 1 /\ Since(now', seen.at) = seen'.age
      BY <1>3, <2>1, <3>1
    <3> QED
      BY <2>1, <3>2, <3>3 DEF StartStored
  <2>4. KeyTimes'
    BY <1>3, <2>1 DEF IInv, KeyTimes, HeldSince
  <2>5. Sounding'
    BY <2>1 DEF Sounding, Setup
  <2> QED
    BY <1>1, <2>2, <2>3, <2>4, <2>5 DEF IInv
<1>9. CASE StoreStart
  <2>1. /\ main'.dur = main.dur /\ seen' = seen
        /\ \/ /\ main.pc = "start_low" /\ main'.pc = "start_high"
              /\ tone' = [tone EXCEPT !.start[1] = Low(main.dur)]
           \/ /\ main.pc = "start_high" /\ main'.pc = "tone_on"
              /\ tone' = [tone EXCEPT !.start[2] = High(main.dur)]
    BY <1>4, <1>9 DEF StoreStart
  <2>2. Scanning' /\ Unreturned' /\ LoadsAreClose'
    BY <1>3, <2>1 DEF IInv, Scanning, Unreturned, LoadsAreClose, BetweenLoads
  <2>3. StartStored'
    <3>1. PICK a \in 0 .. LowSize - 1, b \in 0 .. HighSize - 1 : tone.start = <<a, b>>
      BY <1>2 DEF Tones, Bytes
    <3>2. ASSUME NEW l, NEW h
          PROVE  /\ [tone EXCEPT !.start[1] = l].start[1] = l
                 /\ [tone EXCEPT !.start[2] = h].start = <<a, h>>
      BY <1>2, <3>1 DEF Tones, Bytes
    <3>3. CASE main.pc = "start_low"
      <4>1. tone' = [tone EXCEPT !.start[1] = Low(main.dur)] /\ main'.pc = "start_high"
        BY <2>1, <3>3
      <4>2. tone'.start[1] = Low(main.dur)
        BY <3>2, <4>1
      <4> QED
        BY <1>3, <2>1, <3>3, <4>1, <4>2 DEF IInv, StartStored
    <3>4. CASE main.pc = "start_high"
      <4>1. tone.start[1] = Low(main.dur) /\ tone.start[1] = a
        BY <3>1, <3>4 DEF IInv, StartStored
      <4>2. tone'.start = <<a, High(main.dur)>>
        BY <2>1, <3>2, <3>4
      <4> QED
        BY <1>3, <2>1, <3>4, <4>1, <4>2 DEF IInv, StartStored
    <3> QED
      BY <2>1, <3>3, <3>4
  <2>4. KeyTimes'
    BY <1>3, <2>1 DEF IInv, KeyTimes, HeldSince
  <2>5. Sounding'
    BY <2>1 DEF Sounding, Setup
  <2> QED
    BY <1>1, <2>2, <2>3, <2>4, <2>5 DEF IInv
\* The interrupt is enabled: from here the tone sounds.
<1>10. CASE ToneOn
  <2>1. /\ main.pc = "tone_on" /\ main' = Idle /\ seen' = seen
        /\ tone'.wait = tone.wait /\ tone'.start = tone.start
    BY <1>2, <1>10 DEF ToneOn, Tones
  <2>2. main'.pc = "idle" /\ main'.cols = 0
    BY <2>1 DEF Idle
  <2>3. Scanning' /\ Unreturned' /\ LoadsAreClose' /\ StartStored'
    BY <1>3, <2>1, <2>2 DEF IInv, Scanning, Unreturned, LoadsAreClose, BetweenLoads, StartStored
  <2>4. KeyTimes'
    BY <1>3, <2>1, <2>2 DEF IInv, KeyTimes, HeldSince
  <2>5. Sounding'
    <3>1. Value(tone.start) = main.dur
      BY <1>2, <2>1, BytesOf DEF IInv, StartStored
    <3>2. ~seen.tone_torn => Since(now, Value(tone.start)) = seen.age /\ seen.age <= 1
      BY <2>1, <3>1 DEF IInv, StartStored
    <3>3. /\ Value(tone.wait) \in Nat /\ Period \in Nat \ {0} /\ seen.age \in Nat
          /\ now % Period \in Nat
      <4>1. now \in Nat /\ Period \in Nat \ {0} /\ Value(tone.wait) \in Nat
        BY <1>2, Sizes, ToneValues DEF IInv, Ticks
      <4> QED
        BY <4>1, NextPhase, Numbers, Sizes DEF IInv
    <3> DEFINE n == Length(Value(tone.wait))
               p == now % Period
    <3>4. n \in Nat /\ n >= 2
      BY <3>3 DEF Length
    <3> HIDE DEF n, p
    <3>5. seen.age <= 1 => seen.age < n + Period /\ seen.age - p < n
      BY <3>3, <3>4 DEF p
    <3>6. n = Length(Value(tone.wait)) /\ p = now % Period
      BY DEF n, p
    <3> QED
      BY <1>3, <2>1, <3>2, <3>5, <3>6 DEF Sounding
  <2> QED
    BY <1>1, <2>3, <2>4, <2>5 DEF IInv
<1> QED
  BY <1>5, <1>6, <1>7, <1>8, <1>9, <1>10 DEF Tone

\* What the interrupt compares, as numbers.
LEMMA Times ==
    ASSUME TypeOK
    PROVE  /\ Wrap \in Nat \ {0} /\ Period \in 1 .. Wrap /\ Settle \in 0 .. Wrap - 1
           /\ now \in 0 .. Wrap - 1 /\ now % Period \in 0 .. Period - 1
           /\ Value(tone.wait) \in 0 .. Wrap - 1 /\ Length(Value(tone.wait)) \in Nat
           /\ Value(tone.wait) <= Length(Value(tone.wait))
           /\ Since(now, Value(tone.start)) \in 0 .. Wrap - 1
           /\ Since(now, keypad.start) \in 0 .. Wrap - 1
           /\ Since(now, seen.at) \in 0 .. Wrap - 1
           /\ Since(seen.at, keypad.start) \in 0 .. Wrap - 1
<1>1. now \in Ticks /\ Value(tone.wait) \in Ticks /\ Value(tone.start) \in Ticks
  BY Numbers, ToneValues
<1>2. seen.at \in Ticks /\ keypad.start \in Ticks
  BY Numbers
<1>3. now \in Nat /\ Period \in Nat \ {0}
  BY <1>1, Sizes DEF Ticks
<1>4. now % Period \in 0 .. Period - 1
  BY <1>3, NextPhase
<1> DEFINE w == Value(tone.wait)
<1>5. w \in 0 .. Wrap - 1
  BY <1>1 DEF Ticks
<1> HIDE DEF w
<1>6. Length(w) \in Nat /\ w <= Length(w)
  BY <1>5, Sizes DEF Length
<1> QED
  BY <1>1, <1>2, <1>4, <1>5, <1>6, SinceType, Sizes DEF w, Ticks

\* The interrupt: a tone that goes on is not over yet.
LEMMA InterruptStep ==
    ASSUME IInv, Interrupt
    PROVE  IInv'
<1>1. TypeOK'
  BY InterruptType DEF IInv
<1>2. now' = now /\ keypad' = keypad /\ main' = main /\ seen' = seen /\ tone.on
  BY DEF Interrupt
<1>3. /\ tone'.wait = tone.wait /\ tone'.start = tone.start
      /\ tone'.on => Since(now, Value(tone.start)) < Value(tone.wait)
  <2> DEFINE on == Since(now, Value(tone.start)) < Value(tone.wait)
  <2>1. tone \in Tones /\ tone' = [tone EXCEPT !.on = on]
    BY Numbers DEF IInv, Interrupt
  <2>2. ASSUME NEW b
        PROVE  /\ [tone EXCEPT !.on = b].wait = tone.wait
               /\ [tone EXCEPT !.on = b].start = tone.start
               /\ [tone EXCEPT !.on = b].on = b
    BY <2>1 DEF Tones
  <2>3. tone'.on = on
    BY <2>1, <2>2, Zenon
  <2>4. tone'.on => on
    BY <2>3, Zenon
  <2> HIDE DEF on
  <2>5. tone'.wait = tone.wait /\ tone'.start = tone.start
    BY <2>1, <2>2
  <2> QED
    BY <2>4, <2>5 DEF on
<1>4. Scanning' /\ Unreturned' /\ LoadsAreClose' /\ KeyTimes'
  BY <1>2 DEF IInv, Scanning, Unreturned, LoadsAreClose, KeyTimes, HeldSince, At
<1>5. StartStored'
  BY <1>2, <1>3 DEF IInv, StartStored, At
<1>6. Sounding'
  <2> DEFINE n == Length(Value(tone.wait))
             since == Since(now, Value(tone.start))
             p == now % Period
  <2>1. SUFFICES ASSUME tone'.on, main.pc \notin Setup, ~seen.tone_torn
                 PROVE  /\ seen.age = Wrap \/ since = seen.age
                        /\ n + Period <= Wrap =>
                              seen.age < n + Period /\ (~match' => seen.age - p < n)
    BY <1>2, <1>3 DEF Sounding
  <2>2. /\ seen.age = Wrap \/ since = seen.age
        /\ n + Period <= Wrap => seen.age < n + Period
    BY <1>2, <2>1 DEF IInv, Sounding
  <2>3. since < n /\ n \in Nat /\ since \in Nat /\ p \in Nat
    BY <1>3, <2>1, Times DEF IInv
  <2>4. Wrap \in Nat /\ Period \in Nat
    BY Sizes
  <2> HIDE DEF n, since, p
  <2> QED
    BY <2>2, <2>3, <2>4
<1> QED
  BY <1>1, <1>4, <1>5, <1>6 DEF IInv

\* Contacts change nothing but themselves.
LEMMA FingerStep ==
    ASSUME IInv, NEW k \in DOMAIN Keys, Finger(k)
    PROVE  IInv'
<1>1. /\ now' = now /\ temp' = temp /\ match' = match /\ keypad' = keypad
      /\ tone' = tone /\ main' = main /\ seen' = seen /\ closed' \subseteq DOMAIN Keys
  BY TypeParts DEF IInv, Finger
<1>2. TypeOK'
  BY <1>1 DEF IInv, TypeOK
<1> QED
  BY <1>1, <1>2 DEF IInv, Scanning, Unreturned, LoadsAreClose, KeyTimes, HeldSince,
                    StartStored, Sounding, At

LEMMA StutterStep ==
    ASSUME IInv, UNCHANGED vars
    PROVE  IInv'
<1>1. /\ now' = now /\ temp' = temp /\ match' = match /\ keypad' = keypad
      /\ tone' = tone /\ main' = main /\ seen' = seen /\ closed' = closed
  BY DEF vars
<1>2. TypeOK'
  BY <1>1 DEF IInv, TypeOK
<1> QED
  BY <1>1, <1>2 DEF IInv, Scanning, Unreturned, LoadsAreClose, KeyTimes, HeldSince,
                    StartStored, Sounding, At

\* Time passes.
LEMMA TickStep ==
    ASSUME IInv, Tick
    PROVE  IInv'
<1>1. TypeOK'
  BY TickType DEF IInv
<1>2. /\ main' = main /\ keypad' = keypad /\ tone' = tone
      /\ main.pc \notin AtOnce /\ (main.pc \in BetweenLoads => now = seen.at)
      /\ now' = (now + 1) % Wrap /\ match' = (match \/ now' % Period = 0)
      /\ ~(match /\ tone.on)
  BY DEF Tick
<1>3. /\ seen'.at = seen.at /\ seen'.other = seen.other
      /\ seen'.key_torn = seen.key_torn /\ seen'.tone_torn = seen.tone_torn
      /\ seen'.held = Least(seen.held + 1, Settle)
      /\ tone.on => seen'.age = Least(seen.age + 1, Wrap)
  <2>1. seen \in Seens
    BY Numbers DEF IInv
  <2>2. seen' = [seen EXCEPT !.gap = @ + 1, !.held = Least(@ + 1, Settle),
                             !.age = IF tone.on THEN Least(@ + 1, Wrap) ELSE 0]
    BY DEF Tick
  <2> QED
    BY <2>1, <2>2 DEF Seens
<1>4. /\ Wrap \in Nat \ {0} /\ Settle \in 0 .. Wrap - 1 /\ seen.held \in 0 .. Settle
      /\ seen.age \in 0 .. Wrap /\ now \in Ticks
  BY Sizes, Numbers DEF IInv
<1>5. ASSUME NEW u \in Ticks
      PROVE  /\ Since(now, u) \in 0 .. Wrap - 1
             /\ Since(now', u) = IF Since(now, u) = Wrap - 1 THEN 0 ELSE Since(now, u) + 1
  BY <1>2, <1>4, SinceType, SinceNext
<1>6. Scanning' /\ Unreturned' /\ StartStored'
  BY <1>2, <1>3 DEF IInv, Scanning, Unreturned, StartStored, At, AtOnce
<1>7. LoadsAreClose'
  <2>1. SUFFICES ASSUME main.pc \in BetweenLoads
                 PROVE  Since(now', seen.at) <= 1
    BY <1>2, <1>3 DEF LoadsAreClose
  <2>2. Since(now, now) = 0
    BY <1>4, SinceType
  <2> QED
    BY <1>2, <1>4, <1>5, <2>1, <2>2
\* What has been held for less than it takes has been held since the start.
<1>8. KeyTimes'
  <2>1. ASSUME NEW u \in Ticks, HeldSince(u)
        PROVE  seen'.held = Settle \/ Since(now', u) = seen'.held
    BY <1>3, <1>4, <1>5, <2>1 DEF HeldSince, Least
  <2>2. seen.at \in Ticks /\ keypad.start \in Ticks
    BY Numbers DEF IInv
  <2>3. At("restart_high") => seen'.held = Settle \/ Since(now', seen.at) = seen'.held
    BY <2>1, <2>2 DEF IInv, KeyTimes
  <2>4. ~At("restart_high") /\ ~seen.key_torn =>
            seen'.held = Settle \/ Since(now', keypad.start) = seen'.held
    BY <2>1, <2>2 DEF IInv, KeyTimes
  <2>5. At("settled_high") /\ ~seen.key_torn =>
            seen'.held = Settle \/ Since(seen.at, keypad.start) <= seen'.held
    <3>1. Since(seen.at, keypad.start) \in Int
      BY <2>2, SinceType, Sizes
    <3> QED
      BY <1>3, <1>4, <3>1 DEF IInv, KeyTimes, Least
  <2> QED
    BY <1>2, <1>3, <2>3, <2>4, <2>5 DEF KeyTimes, HeldSince, At
<1>9. Sounding'
  <2> DEFINE n == Length(Value(tone.wait))
             u == Value(tone.start)
             p == now % Period
             q == now' % Period
  <2>1. SUFFICES ASSUME tone.on, main.pc \notin Setup, ~seen.tone_torn
                 PROVE  /\ seen'.age = Wrap \/ Since(now', u) = seen'.age
                        /\ n + Period <= Wrap =>
                              /\ seen'.age < n + Period
                              /\ ~match' => seen'.age - q < n
    BY <1>2, <1>3 DEF Sounding
  <2>2. ~match /\ seen'.age = Least(seen.age + 1, Wrap)
    BY <1>2, <1>3, <2>1
  <2>3. /\ seen.age = Wrap \/ Since(now, u) = seen.age
        /\ n + Period <= Wrap => seen.age < n + Period /\ seen.age - p < n
    BY <2>1, <2>2 DEF IInv, Sounding
  <2>4. n \in Nat /\ p \in 0 .. Period - 1 /\ Period \in Nat \ {0}
    BY Times, Sizes DEF IInv
  <2>5. q = 0 \/ q = p + 1
    <3>1. now \in Nat /\ now' = IF now = Wrap - 1 THEN 0 ELSE now + 1
      BY <1>2, <1>4, NextTick DEF Ticks
    <3> QED
      BY <2>4, <3>1, NextPhase
  <2>6. ~match' => q # 0
    BY <1>2
  <2>7. /\ Since(now, u) \in 0 .. Wrap - 1
        /\ Since(now', u) = IF Since(now, u) = Wrap - 1 THEN 0 ELSE Since(now, u) + 1
    <3>1. u \in Ticks
      BY ToneValues DEF IInv
    <3> QED
      BY <1>5, <3>1
  <2> HIDE DEF n, u, p, q
  <2>8. seen'.age = Wrap \/ Since(now', u) = seen'.age
    BY <1>4, <2>2, <2>3, <2>7 DEF Least
  <2>9. ASSUME n + Period <= Wrap
        PROVE  seen'.age < n + Period /\ (~match' => seen'.age - q < n)
    BY <1>4, <2>2, <2>3, <2>4, <2>5, <2>6, <2>9 DEF Least
  <2> QED
    BY <2>8, <2>9
<1> QED
  BY <1>1, <1>6, <1>7, <1>8, <1>9 DEF IInv

-----------------------------------------------------------------------------
(* The theorems. *)

\* Whatever the fingers, the host and the interrupt do, in any order and at any
\* time of the clock: times are what keypad.cc, tone-gen.cc and the interrupt
\* take them for, unless a reading of the clock was spoilt.
THEOREM Invariant == Spec => []IInv
<1>1. Init => IInv
  BY InitHolds
<1>2. ASSUME IInv, [Next]_vars
      PROVE  IInv'
  BY <1>2, TickStep, InterruptStep, KeypadStep, ToneStep, FingerStep, StutterStep DEF Next
<1> QED
  BY <1>1, <1>2, PTL DEF Spec

\* The state is well-formed, and a tone (tone-gen.cc) ends with the first
\* interrupt after its time, over every wrap of the clock and after any tone it
\* replaced, for clocks of all widths and tones of all lengths that leave room
\* for one interrupt.
THEOREM TonesStop == Spec => []ToneInv
<1>1. IInv => ToneInv
  <2>1. SUFFICES ASSUME IInv
                 PROVE  TonesEnd
    BY DEF IInv, ToneInv
  <2>2. At("idle") => main.pc \notin Setup
    BY DEF At, Setup
  <2> QED
    BY <2>1, <2>2 DEF IInv, Sounding, TonesEnd
<1> QED
  BY <1>1, Invariant, PTL

\* keypad.h's promise: a key is reported once for each time the keypad changed,
\* after it did not change for the whole of the settling time, wherever the
\* clock wraps; unless the interrupt spoilt one of the two readings of it.
THEOREM Debounced == Spec => KeysAreDebounced
<1>1. ASSUME IInv, Next, Reported
      PROVE  seen.other /\ (seen.held = Settle \/ seen'.key_torn)
  <2>1. keypad \in Keypads /\ seen \in Seens
    BY <1>1, Numbers DEF IInv
  <2>2. Settled
    <3>1. keypad'.returned /\ ~keypad.returned
      BY <1>1 DEF Reported
    <3>2. ~StateChanged
      BY <2>1, <3>1 DEF StateChanged, Keypads
    <3>3. ~RestartHigh
      BY <2>1, <3>1 DEF RestartHigh, Keypads
    <3>4. keypad' # keypad
      BY <3>1
    <3> QED
      BY <1>1, <3>2, <3>3, <3>4
      DEF Next, Tick, Interrupt, ReadKeypad, Tone, OutputTone, Finger, StartPoll, SampleCol,
          AlreadyReturned, NotYetReturned, RestartLow, SettledLow, NotSettled,
          StoreWait, LoadStart, StartLoaded, StoreStart, ToneOn, Store
  <2>3. seen.other
    BY <1>1 DEF Reported, IInv, Unreturned
  <2>4. seen'.key_torn = (seen.key_torn \/ Torn)
    <3>1. ASSUME NEW b
          PROVE  [seen EXCEPT !.key_torn = b, !.at = 0, !.other = FALSE].key_torn = b
      BY <2>1 DEF Seens
    <3> QED
      BY <2>2, <3>1, Zenon DEF Settled
  <2>5. ASSUME ~seen.key_torn, ~Torn
        PROVE  seen.held = Settle
    <3>1. At("settled_high") /\ Since(Loaded, keypad.start) >= Settle
      BY <2>2 DEF Settled
    <3>2. Loaded = seen.at
      BY <2>5 DEF Torn
    <3>3. seen.held = Settle \/ Since(seen.at, keypad.start) <= seen.held
      BY <1>1, <2>5, <3>1 DEF IInv, KeyTimes
    <3>4. Since(seen.at, keypad.start) \in Int /\ Settle \in Int /\ seen.held \in 0 .. Settle
      BY <1>1, Times, Numbers DEF IInv
    <3> QED
      BY <3>1, <3>2, <3>3, <3>4
  <2> QED
    BY <2>3, <2>4, <2>5, Zenon
<1>2. IInv /\ [Next]_vars => [Reported => seen.other /\ (seen.held = Settle \/ seen'.key_torn)]_vars
  BY <1>1
<1> QED
  BY <1>2, Invariant, PTL DEF Spec, KeysAreDebounced

\* The interrupt switches a tone off when its time is over and not before, wherever
\* the clock wraps, unless its start was read wrongly.
THEOREM TonesAreWhole == Spec => TonesLast
<1>1. ASSUME IInv, Next,
             tone.on, ~tone'.on, main.pc \notin AtOnce \cup {"start_loaded"}
      PROVE  seen.age >= Value(tone.wait) \/ seen.tone_torn
  <2>1. tone \in Tones /\ seen.age \in 0 .. Wrap
    BY <1>1, Numbers DEF IInv
  <2>2. Interrupt
    <3>1. tone' # tone
      BY <1>1
    <3> QED
      BY <1>1, <3>1
      DEF Next, Tick, Interrupt, ReadKeypad, Tone, OutputTone, Finger, StartPoll, SampleCol,
          AlreadyReturned, NotYetReturned, RestartLow, SettledLow, NotSettled, StateChanged,
          RestartHigh, Settled, At,
          StoreWait, LoadStart, StartLoaded, StoreStart, ToneOn, Store, Load, AtOnce
  <2>3. ~(Since(now, Value(tone.start)) < Value(tone.wait))
    <3> DEFINE on == Since(now, Value(tone.start)) < Value(tone.wait)
    <3>1. tone' = [tone EXCEPT !.on = on]
      BY <2>2 DEF Interrupt
    <3>2. ASSUME NEW b
          PROVE  [tone EXCEPT !.on = b].on = b
      BY <2>1 DEF Tones
    <3>3. tone'.on = on
      BY <3>1, <3>2, Zenon
    <3>4. ~on
      BY <1>1, <3>3, Zenon
    <3> QED
      BY <3>4
  <2>4. main.pc \notin Setup
    BY <1>1 DEF Setup, AtOnce
  <2>5. ~seen.tone_torn => seen.age = Wrap \/ Since(now, Value(tone.start)) = seen.age
    BY <1>1, <2>4 DEF IInv, Sounding
  <2>6. /\ Value(tone.wait) \in 0 .. Wrap - 1 /\ Since(now, Value(tone.start)) \in Nat
        /\ Wrap \in Nat
    BY <1>1, Times, Sizes DEF IInv
  <2> QED
    BY <2>3, <2>5, <2>6
<1>2. IInv /\ [Next]_vars =>
        [tone.on /\ ~tone'.on /\ main.pc \notin AtOnce \cup {"start_loaded"}
           => seen.age >= Value(tone.wait) \/ seen.tone_torn]_vars
  BY <1>1
<1> QED
  BY <1>2, Invariant, PTL DEF Spec, TonesLast
=============================================================================
