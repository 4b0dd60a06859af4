--------------------------- MODULE TerminalCommands ---------------------------
(***************************************************************************)
(* The commands of firmware/terminal-main.cc: what a line from the host    *)
(* does to the EEPROM, the baud rate, the display (or the LEDs), and what  *)
(* of it is there after a power glitch, which may come between any two     *)
(* nibbles on their way to the display or bytes on theirs to the EEPROM.   *)
(* Lines come from LineBuffer; a line is the sequence of its characters.   *)
(***************************************************************************)
EXTENDS LcdDisplay, SequencesExt

CONSTANTS
    Lines,             \* lines the host sends
    Rates,             \* rates the host tries
    SERIAL_BAUDRATE,
    CountSize,         \* of the count of commands ReceiveName sees, 256
    NeverCounted,      \* first_name_write_command_count at first, 0x42
    NameSize,          \* sizeof(EepromLayout::name), 32
    Eeproms            \* what a new EEPROM may hold: prepared, erased, garbage

Word == {n \in Nat : n < 65536}

EepromType == [name : [1 .. NameSize -> 0 .. 255], baud : Word, flag : BOOLEAN]

\* Lines have no NUL (see LineBuffer) and fit its buffer.
ASSUME LinesAssumption == \A line \in Lines : line \in Seq(1 .. 255)
ASSUME CountAssumption == CountSize \in 1 .. 256 /\ NeverCounted \in 0 .. 255
ASSUME NameAssumption == NameSize \in Nat \ {0}
ASSUME EepromAssumption == Eeproms \subseteq EepromType

VARIABLES
    features,     \* what the build supports: {"LCD"} or {"LED"}
    count,        \* commands_seen_stat & 0xff
    first,        \* first_name_write_command_count
    name_checksum,
    ee,           \* the EEPROM: name, baud_rate, flag_keyboard_tone
    baud,         \* SerialCom::baud_
    host,         \* the rate of the host
    lcd, bus,     \* the display, and the nibbles still to be written to it
    leds,         \* the lit ones
    seen          \* histories the properties speak of

vars == <<features, count, first, name_checksum, ee, baud, host, lcd, bus, leds, seen>>
naming == <<first, name_checksum>>

\* Characters.
Digits == 48 .. 57
NUL == 0
KeyOf(line) == IF line = <<>> THEN NUL ELSE line[1]
CharAt(line, i) == IF i < Len(line) THEN line[i + 1] ELSE NUL
Signed(c) == IF c < 128 THEN c ELSE c - 256
Rest(line, i) == SubSeq(line, i + 1, Len(line))

\* How many characters at the start are in a set.
Leading(str, set) ==
    CHOOSE k \in 0 .. Len(str) :
        /\ \A i \in 1 .. k : str[i] \in set
        /\ k < Len(str) => str[k + 1] \notin set

\* parseDec: uint16_t. It takes a letter that is the hex digit 10 for a digit.
Value(c) == IF c \in Digits THEN c - 48 ELSE 10

parseDec(str) ==
    LET text == Rest(str, Leading(str, {9, 32}))
        digits == SubSeq(text, 1, Leading(text, Digits \cup {65, 97}))
    IN  FoldLeft(LAMBDA r, c : (10 * r + Value(c)) % 65536, 0, digits)

ValidBauds == {300, 600, 1200, 2400, 4800, 9600, 19200, 38400}
IsValidBaud(bd) == bd \in ValidBauds

ASSUME RatesAssumption == SERIAL_BAUDRATE \in Rates /\ IsValidBaud(SERIAL_BAUDRATE)

SetBaud(bd) == IF IsValidBaud(bd) THEN bd ELSE SERIAL_BAUDRATE

\* The bytes of a word, and what a store that was broken off leaves of it. Which
\* of its bytes eeprom_write_word writes first is its own affair.
Upper(word) == word \div 256
Lower(word) == word % 256
Halfway(old, new) == {256 * Upper(u) + Lower(l) : u \in {old, new}, l \in {old, new}}

\* The name as the EEPROM keeps it: NUL bytes fill it up.
Stored(str) == [i \in 1 .. NameSize |-> IF i < NameSize THEN CharAt(str, i - 1) ELSE NUL]

Init ==
    /\ features \in {{"LCD"}, {"LED"}}
    /\ count = 0 /\ first = NeverCounted /\ name_checksum = {}
    /\ ee \in Eeproms
    /\ baud = SetBaud(ee.baud) /\ host \in Rates
    /\ lcd = PowerOn
    /\ bus = IF "LCD" \in features THEN LcdInit ELSE <<>>
    /\ leds = {}
    /\ seen = [row |-> [r \in 0 .. 1 |-> Row(<<>>)],  \* what a row should show
               torn |-> FALSE,   \* a glitch came between two nibbles of a byte
               named |-> FALSE,  \* a name came and was not confirmed at once
               came |-> <<>>,    \* the line it came in
               since |-> 0,      \* commands since then, CountSize for more
               new |-> ee,       \* the EEPROM as it was at first
               \* rates a B command was understood at, and that of the build
               talked |-> {SERIAL_BAUDRATE}]

-----------------------------------------------------------------------------
\* A command is counted before it is looked at. What it answers is left out.
\* A line the terminal hears at another rate than the host sends is not the
\* line that was sent.
Noise == <<255, 255>>
Heard(line) == IF host = baud THEN line ELSE Noise

Least(a, b) == IF a < b THEN a ELSE b

NextCount == (count + 1) % CountSize

Counted == [seen EXCEPT !.since = IF seen.named THEN Least(@ + 1, CountSize) ELSE 0]

\* ?, e, n, s, and the registers under RFID_DEBUG; and R (see CardReader) and
\* T (see FrontPanel), which do not touch this state either.
Show(line) ==
    /\ KeyOf(line) \in {63, 101, 110, 115, 82, 84}
    /\ seen' = Counted
    /\ UNCHANGED <<naming, ee, baud, bus, leds>>

\* M. A character below '0' counts as a row number below 2, but names no row.
RowNumber(line) == Signed(CharAt(line, 1)) - 48

WriteLcd(line) ==
    /\ KeyOf(line) = 77 /\ "LCD" \in features
    /\ IF Len(line) >= 2 /\ RowNumber(line) < 2
       THEN LET row == RowNumber(line) % 256 IN
            /\ bus' = LcdPrint(row, Rest(line, 2))
            /\ seen' = IF row \in 0 .. 1
                       THEN [Counted EXCEPT !.row[row] = Row(Rest(line, 2))]
                       ELSE Counted
       ELSE UNCHANGED bus /\ seen' = Counted
    /\ UNCHANGED <<naming, ee, baud, leds>>

\* L
Led(c) == CASE c \in {82, 114} -> {"red"} [] c \in {71, 103} -> {"green"}
            [] c \in {66, 98} -> {"blue"} [] OTHER -> {}

SetLED(line) ==
    /\ KeyOf(line) = 76 /\ "LED" \in features
    /\ leds' = UNION {Led(line[i]) : i \in 2 .. Len(line)}
    /\ seen' = Counted
    /\ UNCHANGED <<naming, ee, baud, bus>>

\* N. It comes twice.
IsSet(b, char) == ((char % 256) \div <<1, 2, 4, 8, 16, 32, 64, 128>>[b + 1]) % 2 = 1

\* The sum is the exclusive or of the characters, each with its place added: the
\* set of the bits that are set in an odd number of them.
Checksum(line) ==
    {b \in 0 .. 7 : Cardinality({i \in DOMAIN line : IsSet(b, line[i] + i - 1)}) % 2 = 1}

Confirms_Anytime == first # NeverCounted

Confirms == first + 1 = NextCount

ReceiveName_AnySum(line) ==
    /\ KeyOf(line) = 78
    /\ IF Len(line) >= 4 /\ ~Confirms
       THEN /\ first' = NextCount /\ name_checksum' = Checksum(line)
            /\ seen' = [seen EXCEPT !.since = 0, !.named = TRUE, !.came = line]
       ELSE UNCHANGED naming /\ seen' = Counted
    /\ ee' = IF Len(line) >= 4 /\ Confirms
             THEN [ee EXCEPT !.name = Stored(Rest(line, 1))] ELSE ee
    /\ UNCHANGED <<baud, bus, leds>>

ReceiveName(line) ==
    /\ KeyOf(line) = 78
    /\ IF Len(line) >= 4 /\ ~Confirms
       THEN /\ first' = NextCount /\ name_checksum' = Checksum(line)
            /\ seen' = [seen EXCEPT !.since = 0, !.named = TRUE, !.came = line]
       ELSE UNCHANGED naming /\ seen' = Counted
    /\ ee' = IF Len(line) >= 4 /\ Confirms /\ Checksum(line) = name_checksum
             THEN [ee EXCEPT !.name = Stored(Rest(line, 1))] ELSE ee
    /\ UNCHANGED <<baud, bus, leds>>

SetNewBaudRate_AtOnce(line) ==
    /\ KeyOf(line) = 66
    /\ LET bd == parseDec(Rest(line, 1)) IN
       IF ~IsValidBaud(bd) THEN UNCHANGED <<ee, baud>>
       ELSE ee' = [ee EXCEPT !.baud = bd] /\ baud' = SetBaud(bd)
    /\ seen' = [Counted EXCEPT !.talked = @ \cup {host}]
    /\ UNCHANGED <<naming, bus, leds>>

\* B. The rate changes behind the answer.
SetNewBaudRate(line) ==
    /\ KeyOf(line) = 66
    /\ LET bd == parseDec(Rest(line, 1)) IN
       IF ~IsValidBaud(bd) THEN UNCHANGED <<ee, baud>>
       ELSE IF bd = baud THEN ee' = [ee EXCEPT !.baud = bd] /\ UNCHANGED baud
       ELSE baud' = SetBaud(bd) /\ UNCHANGED ee
    /\ seen' = [Counted EXCEPT !.talked = @ \cup {host}]
    /\ UNCHANGED <<naming, bus, leds>>

\* F
SetFlagCommand(line) ==
    /\ KeyOf(line) = 70
    /\ ee' = IF CharAt(line, 1) # 75 THEN ee
             ELSE [ee EXCEPT !.flag = (CharAt(line, 2) = 49)]
    /\ seen' = Counted
    /\ UNCHANGED <<naming, baud, bus, leds>>

Known == {63, 101, 110, 115, 82, 84, 78, 66, 70}
         \cup (IF "LCD" \in features THEN {77} ELSE {76})

Unknown(line) ==
    /\ KeyOf(line) \notin Known
    /\ seen' = Counted
    /\ UNCHANGED <<naming, ee, baud, bus, leds>>

\* The main loop looks at no line before the display has its nibbles.
Command(line) ==
    /\ bus = <<>>
    /\ count' = NextCount
    /\ \/ Show(line) \/ WriteLcd(line) \/ SetLED(line) \/ ReceiveName(line)
       \/ SetNewBaudRate(line) \/ SetFlagCommand(line) \/ Unknown(line)
    /\ UNCHANGED <<features, host, lcd>>

Write ==
    /\ bus # <<>>
    /\ lcd' = TakeNibble(lcd, Head(bus)) /\ bus' = Tail(bus)
    /\ UNCHANGED <<features, count, naming, ee, baud, host, leds, seen>>

\* The host tries another rate.
HostSetsBaud(r) ==
    /\ host' = r /\ host # r
    /\ UNCHANGED <<features, count, naming, ee, baud, lcd, bus, leds, seen>>

-----------------------------------------------------------------------------
\* The terminal starts again: RAM is as at first, the EEPROM and the display
\* keep what they have, whatever the display has heard of the last byte. (A
\* display that is out of step is not followed further.)
Restart(eeprom, talked) ==
    /\ ~seen.torn
    /\ count' = 0 /\ first' = NeverCounted /\ name_checksum' = {}
    /\ ee' = eeprom
    /\ baud' = SetBaud(eeprom.baud)
    /\ bus' = IF "LCD" \in features THEN LcdInit ELSE <<>>
    /\ leds' = {}
    /\ seen' = [seen EXCEPT
          !.row = [r \in 0 .. 1 |-> Row(<<>>)], !.named = FALSE, !.came = <<>>,
          !.since = 0, !.talked = talked, !.torn = (lcd.four /\ lcd.high # None)]
    /\ UNCHANGED <<features, host, lcd>>

PowerGlitch == Restart(ee, seen.talked)

\* StoreNameEEPROM writes byte by byte.
GlitchInStore(line, n) ==
    /\ KeyOf(line) = 78 /\ Len(line) >= 4 /\ bus = <<>>
    /\ Confirms /\ Checksum(line) = name_checksum
    /\ Restart([ee EXCEPT !.name =
          [i \in 1 .. NameSize |-> IF i <= n THEN Stored(Rest(line, 1))[i] ELSE @[i]]],
          seen.talked)

\* StoreBaudEEPROM writes two bytes.
GlitchInBaud(line) ==
    LET bd == parseDec(Rest(line, 1)) IN
    /\ KeyOf(line) = 66 /\ bus = <<>>
    /\ IsValidBaud(bd) /\ bd = baud
    /\ \E word \in Halfway(ee.baud, bd) :
           Restart([ee EXCEPT !.baud = word], seen.talked \cup {host})

Glitch ==
    \/ PowerGlitch
    \/ \E line \in Lines : GlitchInBaud(Heard(line))
    \/ \E line \in Lines, n \in 0 .. NameSize : GlitchInStore(Heard(line), n)

Next == (\E line \in Lines : Command(Heard(line))) \/ Write
        \/ (\E r \in Rates : HostSetsBaud(r)) \/ Glitch

Spec == Init /\ [][Next]_vars

-----------------------------------------------------------------------------
TypeOK ==
    /\ count \in 0 .. CountSize - 1 /\ first \in 0 .. 255 /\ name_checksum \subseteq 0 .. 7
    /\ ee \in EepromType
    /\ IsValidBaud(baud) /\ host \in Rates
    /\ lcd.high \in {None} \cup 0 .. 15 /\ lcd.addr \in 0 .. 127
    /\ \A a \in Cells : lcd.cells[a] \in 0 .. 255
    /\ leds \subseteq {"red", "green", "blue"}

\* The line is the one that was to come, but for one character.
IsTypo(line, other) ==
    /\ Len(line) = Len(other)
    /\ \E i \in DOMAIN line : /\ line[i] # other[i]
                             /\ \A j \in DOMAIN line \ {i} : line[j] = other[j]

\* What stores a name, whole or not.
StoresName(line) == Command(line) \/ \E n \in 0 .. NameSize : GlitchInStore(line, n)

\* The comments of ReceiveName: a name is stored when it came twice in
\* consecutive commands, and not with a typo. The code compares eight bits of a
\* count and of a sum with those of another command, or with what the variables
\* hold at first.
NameCameTwice ==
    [][ee'.name # ee.name =>
         \/ /\ seen.named /\ seen.since \in {0, CountSize}
            /\ \A line \in Lines : StoresName(Heard(line)) => ~IsTypo(Heard(line), seen.came)
         \/ ~seen.named /\ NextCount = NeverCounted + 1]_vars

\* A rate is stored only when a command was understood at it, so a terminal that
\* starts again listens at a rate that worked, also when the store was broken
\* off: the valid rates differ in their upper bytes. Only the upper byte of a
\* new EEPROM may come to be half of a rate nobody has tried.
StoredBaudWorked ==
    SetBaud(ee.baud) \in
        seen.talked \cup {bd \in ValidBauds : Upper(bd) = Upper(seen.new.baud)}

\* Nor does storing a name take away the end of the one in the EEPROM.
NameEnds == ee.name[NameSize] \in {NUL, seen.new.name[NameSize]}

\* The state is well-formed, a name that was stored ends, and the rate the
\* terminal begins with is one the host and the terminal have talked at.
StoredInv == TypeOK /\ StoredBaudWorked /\ NameEnds

\* The display shows what was last written to its rows, cut or filled up to its
\* width, and after a restart at any point, also one in the middle of a text or
\* of the initialisation itself, nothing of what was there: unless the glitch
\* came between two nibbles of a byte.
DisplayShows ==
    "LCD" \in features /\ bus = <<>> /\ ~seen.torn =>
        /\ lcd.on /\ \A r \in 0 .. 1 : Shown(lcd, r) = seen.row[r]

\* The same without the exception: the comments of LcdDisplay.
DisplayAlwaysShows ==
    "LCD" \in features /\ bus = <<>> => \A r \in 0 .. 1 : Shown(lcd, r) = seen.row[r]
=============================================================================
