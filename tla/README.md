# Verification of earl, the RFID access control of a hacker space

`software/earl` is a Go program on a Raspberry Pi. Terminals at the doors and inside the space (an
RFID reader, a keypad, sometimes an LCD) hang on serial lines. earl looks up in a CSV file of users
who may open which door, switches door relays and rings bells, lets members add and renew cards at a
control terminal, and passes events between its parts over an application bus.
`software/firmware` is the C++ program in the terminals.

This directory holds TLA+ modules of that code, the TLC configurations that check them, and theorems
about them that TLAPS checks. Paths below are relative to `software/earl` unless they say otherwise.

## 1. The system

| Component | State | Operations | Talks to | What is hard | What makes it correct |
|---|---|---|---|---|---|
| User records (`user.go`) | name, contact, level, validity, codes | expiry, validity, hours, CSV row and back | the authenticator's file | times lose zone and seconds in the file; hours and holidays have boundaries | expired stays expired; a reload changes nothing more; shown hours are the hours that count |
| Authenticator (`authenticator.go`) | user list and two indexes, revision, timestamp, two mutexes, CSV file, `.tmp` file | FindUser, AuthUser, AddNewUser, UpdateUser, DeleteUser, reload, append, dump and rename | called by every terminal's goroutine; posts to the bus on each reload and change | goroutines, hand edits, crash, full disk, optimistic locking | list and indexes agree; memory and file agree; no acknowledged change is lost; only the authorised change users |
| Application bus (`application-bus.go`) | receivers, a queue of one closure | Post, Subscribe, Unsubscribe, Flush, Shutdown | everybody | unbounded waits at full channels, arbitrary order of receivers | total order broadcast; calls return |
| Access handler (`accesshandler.go`) | digits typed, last card, LED and its off-time | keys, RFID, bus events, ticks | authenticator (two lookups), bus, its terminal | the user may change between the two lookups; timeouts | a door opens only for a valid code; stale digits are forgotten |
| Control UI (`uicontrolhandler.go`) | seven states, their timeout, who is authorised, hush time | keys, RFID, bus events, ticks | authenticator, bus, LCD | events interrupt menus; the user is looked up again after the change | a menu acts for who opened it; always back to idle |
| Door and bell (`gpioactions.go`) | earliest next opening and ringing per door | open, ring, hush | bus; a goroutine per opening | relay goroutines against the rate limit | a relay is released; no opening cuts another short |
| Serial terminal (`serial-terminal.go`, `terminal-interface.go`) | channels of events and responses, LCD cache, error flag | request and answer, event loop, ping | firmware, handler, bus | a late answer; an error anywhere; tick starvation | answers belong to requests; a lost terminal is noticed |
| Device loop and start-up (`main.go`) | connection, backoff | connect, dispatch by name, reconnect | all of the above | reconnection, ordering of connect and disconnect events | every device is retried for ever |
| Event APIs (`http-api.go`, `tcp-api.go`, `event-list.go`) | history list, connections | collect, stream, post | bus | history and subscription are two steps | a client misses no event |
| Firmware main loop (`../firmware/terminal-main.cc`) | line buffer, name checksum, EEPROM, LEDs, state of the repeat filter | commands, card polling, keys | host over the serial line, all drivers | lines in pieces, repeated cards, restart at any point | commands are the lines; a stored rate worked; a card is sent once a visit |
| Firmware serial line (`../firmware/serial-com.*`) | ring buffer, count of lost bytes, rate | interrupt, read, write | main loop | interrupt against main loop, index wrap | bytes in order, loss only when full |
| Firmware keypad, tones, clock (`keypad.*`, `tone-gen.*`, `clock.h`) | debounce state, end of the tone, a 16 bit counter | poll, start, interrupt | main loop | wrap of the clock, readings and stores torn by the interrupt | one settled key per press; tones last and end |
| Firmware LCD (`lcd.cc`) | interface width and half byte in the display | print, initialise | main loop | restart with the display half way through a byte | the rows show what was printed last |
| MFRC522 driver (`mfrc522/`) | UID, known bits of the anticollision | request, select, reset | cards, main loop | collisions, noise, cards that come and go between frames | what is sent is the UID of a selected card; polls end |
| Debug handler (`debughandler.go`) | | logs | | | |

Every terminal has a goroutine of its own (`handleSerialDevice`, `RunEventLoop`), which also runs its
handler and hence its calls into the authenticator. The bus, the GPIO actions, each collector and
each API connection are goroutines too. They share the authenticator under `fileLock` and
`userLock`; everything else goes through channels.

`PROJECT.json` lists the components with their status and every hazard at its line.

## 2. Modules

    UserRecord ──── UserLife ──── UserLifeMC
        │               └──────── UserLifeProofs
        └── Authenticator ── AuthenticatorProperties ── AuthenticatorMC
                                     │     └─────────── AuthenticatorProofs
                                     └ refines UserDirectory
    ApplicationBus ── ApplicationBusMC
        │     └ refines Broadcast
        └──────────── ApplicationBusProofs
    Entrance ── EntranceMC, EntranceProofs
    SerialCom ── SerialComMC
        │    └────────── SerialLineProofs
        └ refines LossyFifo    │
    LineBuffer ── LineBufferMC │
        │    └─────────────────┘
        ├ uses LossyFifo
        └ refines LineProtocol
    LcdDisplay ── TerminalCommands ── TerminalCommandsMC, TerminalCommandsProofs
    FrontPanel ── FrontPanelMC, FrontPanelProofs
    CardReader ── CardReaderMC, CardReaderProofs

The firmware modules are a chain: `SerialCom` implements the queue `LossyFifo`, `LineBuffer` reads
from that queue and implements `LineProtocol`, `TerminalCommands` takes the lines. `FrontPanel` and
`CardReader` are what the main loop does when there is no line.

Operators named `X_Y` after a definition `X` are slips: `X` with a plausible mistake. They are not
part of any specification; each is used to see that a property notices it.

### UserRecord, UserLife (`user.go`, `userHasAccess`)

`UserRecord` has the record, `ExpiryDate`, `InValidityPeriod`, `AccessHours`, `UserHasAccess`, the
level tables, and the way through the CSV file: `WriteCSV` formats wall-clock minutes without a zone,
`NewUserFromCSV` reads them as UTC. A time is an instant and whether it is shown in local time,
because `clock.Now()` is local and a parsed time is UTC. `UserLife` is one record: time passes
(`Tick`), it is renewed at the control terminal (`Renew`), it goes through the file (`Reload`).

Abstractions: a name is one of four kinds; codes are the hashed ones and hashing is injective;
the host's distance from UTC is a constant (no daylight saving); sponsors are left out, nothing reads
them.

### Authenticator (`authenticator.go`)

`db` is `userList`, `user2index`, `code2user`; `newAuth` the authenticator `reloadIfChanged` fills
before it takes over its fields. A client is a goroutine in a call, `pc` its next step, `my` its
locals. A step is what lies between two points where another goroutine, an editor or a crash can be
observed: the two halves of `reloadIfChanged`'s open and stat, each line read, the swap under
`userLock`, each post to the event bus, each lookup, each change in memory, each row of a dump, the
rename, the stat after it.
Objects have addresses, since `user2index` is keyed by pointer.

| In the model | In the code |
|---|---|
| `ReloadNotNeeded`, `ReloadOpen`, `ReloadStat`, `ReloadLine`, `ReloadSwap` | `reloadIfChanged`, `readDatabase` |
| `ReloadFails` | the stat, or the open of the new authenticator, fails: the lookup goes on with the old list |
| `ReloadPosted`, `Posted` | `eventBus.Post` returns: in `reloadIfChanged`, which holds both locks over it, and in `postUserEvent`, before a change is written |
| `FindUser`, `AuthUser`, `VerifyOpAllowed`, `FindTarget` | the four uses of `findUserSynchronized` |
| `AddUser`, `ReplaceDelete`/`ReplaceAdd`, `DeleteUser`, `NotModified` | changes under `userLock` |
| `AppendEntry`, `AppendFails` | `appendDatabaseSingleEntry` |
| `CreateTemp`, `CreateFails`, `WriteRow`, `DiskFull`, `RenameTemp`, `Stamp` | `writeTempCSV`, `writeDatabase` |
| `UpdatePanics`, `StatPanics` | `UpdateUser`'s copy of a nil user; the result of a second stat, used though it failed |
| `Start`, `StartLine`, `Started`, `Crash` | `NewFileBasedAuthenticator` in `main`; the process dies |
| `EditFile`, `EditBegin`, `EditEnd`, `Tick` | somebody's editor, the clock |

Abstractions: `os.Remove` and `os.OpenFile` of the temporary file are one step; a dump walks the list
as it was when it began, where the code reads each element when it comes to it, so a replacement that
comes between the rows of a dump is in the code's dump and not in the model's; open, write and close
of an append are one step, and so are open and stat at start-up; every write gives the file a new
timestamp; a crash of the process loses nothing already written (no power loss); the allocator returns
the smallest free address; what a post says, sponsors, log lines and counters are left out.

What may fail is a constant of its own. `ReadMayFail`: a stat, or opening the file to read it. The
first stat of a reload and the open behind it are checked by the code (`ReloadFails`), the second stat
there and the one after writing are not, and the process panics on a nil `fileinfo` (`StatPanics`);
at start-up, where the program ends if it cannot read the file, the process just stays down.
`OpenMayFail`: opening the file or the temporary file to write it. `DiskMayFill`: rows that do not get
written. A rename fails only if there is no temporary file. A post is a wait: the bus is not part of
this module, and `ReloadPosted` or `Posted` may come at any time or never.

`UserDirectory` is what the authenticator promises: users come, go or are replaced one at a time, no
two share a code, and the file goes in one step from one whole directory to the next.
`ImplementsDirectory` is the refinement; a half-done replacement already counts as done, because
`userLock` is held.

### ApplicationBus (`application-bus.go`)

`syncedOperations` is the queue of closures, `current`, `at` and `left` the loop of `Post`'s closure
over the receivers. Each goroutine either waits to hand over a closure (`call`) or may receive or
begin a call. `Take` runs the next closure, `Deliver` sends one event to one receiver and waits while
its channel is full, `StartWith` picks any order of the receivers, as a Go map does.

An event is its poster and a bit that alternates: this is enough to tell duplicates, losses and
reordering apart. A collector's unbuffered channel is a capacity of 1 with the event in the
collector's hand. A goroutine subscribes once (each connection makes its own channel). Nothing in
the program calls `Shutdown`; the model lets it be called.

`Broadcast` is the promise: an event that is published goes to every member there is, once, in one
order for all. `EventHub` maps a member's pending events to those in its channel plus the one still
to be sent to it; an event is published when its closure is taken.

### Entrance (`accesshandler.go`, `serial-terminal.go`, `gpioactions.go`)

One door: the goroutine of its terminal, which runs `AccessHandler`; GPIOActions; one goroutine for
each opening; and as environment the users, who change while they are looked up, and others who ask
for the door to open. Time is in ticks and is kept as what is left of the code's times, or has passed
since. It passes only where the code waits: for an event, for an answer of the terminal, in a lookup,
in `Post`, and asleep in an opening.

| In the model | In the code |
|---|---|
| `BeginLoop`, `IdleTick`, `EndTick` | the loop of `RunEventLoop`, with the forced and the idle tick and the ping |
| `HandleTick` | `HandleTick`: forgets digits, switches the light off |
| `Enter`, `Clear`, `Digit`, `HandleRFID` | `HandleKeypress`, `HandleRFID` |
| `FindUser`, `AuthUser`, `BuzzGranted`, `BuzzDenied`, `Post`, `EndCheck` | `checkAccess` |
| `AppEvent`, `SetColor` | `HandleAppEvent`, `setColorForTime` |
| `OpenDoor`, `SwitchOn`, `SwitchOff` | the loop of GPIOActions, `openDoor` and its goroutine |
| `Restart` | the program is started again after the panic at `accesshandler.go:172` |

`switchRelay` may fail to open the file of the pin, each time (`opened`). Then the relay stays as it
is: a door does not open, or stays open until the next opening of it has ended, and `seen.stuck` says
so.

Abstractions: an event may be there or not each time the loop selects, which covers every content of
the channels; the typed digits are "none" or "some", and `Enter` chooses what they were; what a lookup
says of the one at the door is chosen at `FindUser` and may change before `AuthUser`; a terminal
answers within `AnswerTime` (errors and time-outs, which end the loop, are left out); of the events on
the bus only the opening of this door matters; the bell, its rate limit and its hush are left out.

Two facts of the code show in the model. A request to open that comes before `nextOpen` is dropped,
although the light goes green. And the panic leaves the relay as it is until somebody starts the
program again, so `DoorsClose` excepts it, as it does a relay that could not be switched off.

### SerialCom, LossyFifo (`serial-com.h`, `serial-com.cc`)

The receive interrupt is one step (`StuffByte`); `read()` of the main loop is one step for each access
to what the two share: `EndWait`, `Take`, `Advance`. `dropped_rx()` loads its 16 bit counter in two
halves, in either order. `LossyFifo` is the promise: a queue that refuses a byte only when it is full
and counts that. Transmission waits for the UART and shares nothing.

### LineBuffer, LineProtocol (`LineBuffer`, the loop in `main`)

`ReadlineNoblock` byte by byte (`TakeByte`, `EndRead`, `Terminate`) with bytes that arrive between any
two, then `Execute`, then the choice between more bytes and the keypad and the reader (`More`,
`Serve`). The command is read from the buffer up to its NUL, as the code does, so bytes of an earlier
line would show. `LineProtocol` says what lines are made of the accepted bytes. A line that is too
long is not cut off but executed in pieces: the firmware's README (line 119) says it is clipped, the
comment at `terminal-main.cc:164` knows; `LineProtocol` says what the code does.

### TerminalCommands, LcdDisplay (`terminal-main.cc`, `lcd.cc`)

Each command is an action; a line is the sequence of its characters, and the parsing that decides is
modelled (`parseDec` in 16 bits, row characters as signed bytes, the name's checksum in 8 bits). Text
goes to the display nibble by nibble (`Write`), to a display modelled as the driver relies on it, and
the name and the two bytes of a rate to the EEPROM byte by byte. A power glitch may come between any
two of them (`PowerGlitch`, `GlitchInStore`, `GlitchInBaud`); RAM starts anew, EEPROM and display keep
what they have. Which byte of a rate is written first is avr-libc's affair, so either may be. A byte that
is being written is taken to be the old or the new one. What the EEPROM holds at first is a constant
(`Eeproms`): prepared, erased or garbage, of which `SetBaud` makes the rate of the build. When the host's rate is another than the terminal's, the
terminal hears noise. What commands answer is left out.

`StoredBaudWorked`: a store that was broken off leaves one byte of each rate, and no two valid rates
have an upper byte in common, so the mixture is one of the two or none at all, for which `SetBaud` has
its fallback. The one exception is a new EEPROM whose garbage has the upper byte of a rate: the lower
byte of another store makes it that rate.

`NameCameTwice` states the comments of `ReceiveName` as far as they are true: the comparison is of
eight bits, so a name also counts as confirmed when 256 commands passed since it came, and 0x42 as a
first value is the number of a command as well. What the sum is for ("should catch typos") is the other
half: the name that is stored is not the one that came with one character changed. `DisplayShows` excepts a glitch between two nibbles of a
byte, after which display and driver are out of step; the initialisation is a sequence for a display
that is in step or in 8 bit mode. `M` with a row character below `'0'` is answered as if it had been
displayed. `RegisterFont` reads an eighth row where the array has seven.

### FrontPanel (`keypad.*`, `tone-gen.*`, `clock.h`)

The 16 bit counter TCNT1 and everything that reads it. A reading is two loads; the first makes the
hardware keep the high byte for the second, in one register for all readers, so the interrupt of the
beeper, which reads the counter itself, spoils a reading of the main loop it comes into. `Tone()`
stores its two variables byte by byte. `StartPoll` and `SampleCol` scan the columns one at a time,
while contacts may bounce; the rest of `ReadKeypad` is one action for each outcome and load. The
histories in `seen` mark what a spoilt reading did, so that the properties hold exactly where the code
is right. `ms_to_cycles` is modelled in its 16 bits: a tone of more than about 8.4 s is a short one, and
some lengths become none at all. A tone of none, or of one tick, still sounds until the first interrupt
(`Length`).

### CardReader (`mfrc522/mfrc522.cc`, the card part of `main`)

A poll is `RequestA` and, if a card answers, `Anticollision` and `Select` through up to three cascade
levels. Every frame is a step. Cards follow ISO/IEC 14443-3 as far as the driver's comments say, come
and go between frames, and a noisy frame may be heard by any of them: the driver may get noise, nothing,
or the right answer of one card while another has not heard the question. `Reports` are what the chip may
say, `PCD_CommunicateWithPICC` what the driver makes of it. `EndPoll` holds the filter of `main` for
repeats (`NextState`, `Sends`), which the driver needs as a selected card misses every other poll.
`Copied` puts a level's bytes where they belong. With two cards in the field the terminal sends one
and the other in turns, for ever: the filter knows one card. (The firmware's README, line 138,
lets an ID be repeated every couple of 100 ms while the card stays; the code sends it once.)

`uid` is not cleared between two cards, and the driver does not check that the levels it puts together
are of one card. A card that waits at its second level and hears neither the request of the next poll nor
the frames of the first level there answers at the second level of that poll: what is sent is then the
first bytes of another card with its own last ones. `SentIsSelected` names this case (`seen.left`); the
proof found it, and the cards of the run's instance, which have their second levels in common, show it.

Left out: the SPI transfers, the chip's registers beyond what a report says, and the MIFARE, Ultralight,
halt and dump functions, which the terminal never calls.

## 3. Runs

| Run | Question | Bounds | Result |
|---|---|---|---|
| `user_life` | Does a record keep its meaning through time, renewals and reloads? | every level, with and without contact and limits; instants just before and after each edge | holds |
| `auth_changes` | Does one control terminal change users safely while a door looks them up, the process crashes and the file is edited between calls? | 2 changes, 1 edit, 1 crash, 2 users, 3 codes | holds, refinement of `UserDirectory` included |
| `auth_desks` | Two terminals that change users at once, files that cannot be read or opened, full disk | 2 changes | indexes and optimistic locking hold; every call returns, if no post to the bus waits for ever |
| `auth_doors` | Lookups while somebody edits the file in place at any moment, and it cannot always be read | 2 edits, 2 instants | no lookup uses a list older than the call, unless its reload was given up; when the timestamps agree, so do memory and file |
| `bus_broadcast` | Is the bus a broadcast, and do its calls return? | a listener that leaves, one that posts, one that posts, flushes and shuts down | holds |
| `entrance` | Do digits, lights and openings keep their times when everything that can be late is, and relays fail to switch? | one card, times of 1 and 2 ticks, goroutines late by 1 | digits and lights end within an answer and two ticks; openings are not cut short, nor too long if the relay could be switched off |
| `serial_line` | Is the ring buffer a queue, however the interrupt cuts in? | 4 slots, 2 bytes, a counter of 2 by 3 values | refines `LossyFifo`; reads return |
| `line_buffer` | Are the commands the lines? | lines of 3, a queue of 3, CR, LF and two letters | refines `LineProtocol`; no command stays behind; half a line does not stop the terminal |
| `terminal_commands` | Are name, rate and display what the commands made them, with glitches anywhere and garbage in the EEPROM? | 11 lines, one or more of each kind, a display of 1 column, a name of 2 bytes, one EEPROM of garbage with the upper byte of a valid rate (prepared and erased ones are in the theorem) | holds |
| `front_panel` | Are keys debounced and tones as long as asked for, on a clock that wraps and is read in halves? | one key, a clock of 2 by 5 values, a click of 3 and tones of 10 ms, which wraps to none | holds |
| `card_reader` | Is what is sent the UID of a card, once a visit, and do polls end? | two cards of seven bytes that collide in the first level and have the second in common, a byte and a position of noise | holds |
| `card_collision` | `mfrc522.cc:670`, "Choose the PICC with the bit set" | two cards that differ first in bit 9 | violated: the bit is set one byte too early |

In `card_collision` the collision is reported at the first bit of a byte. The index computed at
`mfrc522.cc:673` is right inside a byte (`InsideAByte`, a theorem). At the last bit of a byte it names
the byte behind, which does no harm: a card is left, as `CollisionsLeaveACard` shows in `card_reader`. At
bits 9, 17 and 25 it names the byte before, neither card has that bit pattern, nothing answers the next
frame and the poll fails.

Thirteen more configurations show behaviour next to these and are run by hand (each with its MC
module, as in `tlc -config Authenticator_race_rename.cfg AuthenticatorMC`); in each the property is
violated. With the constants of `Authenticator_race_update`, `Synced` and `ChangesAreAuthorised` are, too:
an edit just before the timestamp of a write is never read, and one between the lookup of the member who
authorises a change and the change itself does not stop it.

| Configuration | Says | What happens |
|---|---|---|
| `UserLife_AnonymousLastsThirtyDays` | `user.go:6-7`, "it will expire after 30 days" | the zone's hours are lost in the file |
| `UserLife_DocumentedUserHours` | the comment at the levels, 11..21 | the code has 10..22 |
| `Authenticator_race_rename` | `README.md:94-95`, files are re-loaded when they change | a file moved into place between a reload's open and its stat is never loaded |
| `Authenticator_race_update` | `authenticator.go:229-230`, "if nothing has changed in the meantime" | a reload does not change the revision |
| `Authenticator_full_disk` | `authenticator.go:454-455`, "make sure it succeeds" | a cut-off dump is renamed |
| `Authenticator_lost_append` | `authenticator.go:475`, appending is sufficient | a dump taken before overwrites the row |
| `Authenticator_taken_code` | `authenticator.go:307`, "Replace user" | the user is deleted and not added |
| `Authenticator_garbled` | | a line the CSV reader fails on hides the rows behind it |
| `Authenticator_shared_tmp` | | two dumps share one temporary file |
| `ApplicationBus_posting` | `application-bus.go:13-16`, handlers go at their own pace | a handler that posts and the bus wait for each other |
| `ApplicationBus_leaving` | | a connection that unsubscribes with a full channel, likewise |
| `ApplicationBus_flush` | | `Flush` returns when its closure is queued, not when it has run |
| `FrontPanel_settled` | `keypad.h:30-32`, a key is returned "if it settled for long enough" | a reading of the clock spoilt by the beeper's interrupt ends the wait early |

**Why the bounds are enough.** The hazards of the authenticator are meetings of two actors: two
changes, or a change and an edit, or either and a crash. Two clients, two changes and one or two
edits let any two meet at any pair of steps. Two users are the least for which order, indexes and a
cut-off dump matter, and three codes leave one that is free, one that is taken and one that is one's
own. Seven addresses and four inodes are more than are ever live at once. On the bus three
goroutines are the least with a listener that leaves, one that answers back and one from outside,
and the bit is sufficient for the broadcast at any capacity; capacities are those of the code.

At the door every time of the code is at least as long as the tick that measures it, as in the code;
ages are counted up to one more than any bound a property names (`Late`). The rate limit allows one
opening at a time, and two goroutines leave one that would be too many. The ring buffer of four slots
wraps and fills, and its counter carries. Lines of three bytes are empty, short, full and too long. The
clock of ten ticks is shorter than a tone or a pause, so it wraps under each; its two halves of
different size tell a low byte from a high one. Two cards are the least that collide, UIDs of seven
bytes the least with a cascade, and a common second level the case in which only the first tells whose
bytes are sent.

**Fairness.** `auth_desks` assumes strong fairness of each client's steps in the authenticator
(`Proceeding`): Go mutexes hand over to a waiter that has starved for a millisecond, so a client that
can infinitely often take a lock takes it. Calls themselves are not fair: nobody has to make one. Nor
are posts: the bus may keep one waiting for ever, under `userLock` and `fileLock` when it announces a
reload, and then no call returns. `CallsReturnIfPostsDo` says what the authenticator itself is
answerable for: if posts that wait return (`PostsReturn`), every call does. Whether they return is a
question to the bus, and the answer is yes only if listeners listen (`CallsReturnToListeners`). The bus has weak fairness of its own
goroutine and of receivers in their loops, and strong fairness of `Accept`, because senders at a Go
channel queue first come, first served. `CallsReturnToListeners` says under which conduct of the
listeners calls return; `ApplicationBus_posting` shows that it is needed. In the firmware the main
loop runs and its processor is its own: weak fairness of the main loop's steps in `SerialCom`,
`LineBuffer`, `CardReader` and `FrontPanel`. In `FrontPanel` the clock counts and interrupts are taken
(weak), and the loop comes back to the keypad between two requests for tones (strong, `StartPoll`): it
polls before it reads the next line only if none waits, and the host asks for far fewer. Nobody has to
press a key, bring a card or send a byte. `Entrance` and `TerminalCommands` state no fairness: all they
claim is safety, with delays bounded by constants.

Deadlock checking is off where the system really may stop: a record whose row the file would not take
back has nothing left to do when the last instant is reached (`UserLife`); and on the bus everybody
may have left, or the handlers and the bus wait for each other. All others check it.

## 4. Theorems

Each `*Proofs` module shows that its module's specification keeps an inductive invariant, and draws the
theorems from it. Every invariant was also checked by TLC on the instance of the module's run before it
was proved. Every safety property and every refinement a passing run checks is stated by a theorem, for
every value of the constants; some of the authenticator's need hypotheses, which are named below.

| Module | Theorem | Property | In words |
|---|---|---|---|
| `UserLifeProofs` | `TypeCorrect`, `ReloadStable`, `NeverExtends`, `ExpiryFinal` | `TypeOK`, `ReloadIsStable`, `ReloadNeverExtends`, `ExpiryIsFinal` | what a reload makes of a record |
| | `AccessRulesHold` | `AccessRules` | hours shown are hours that count; who may change users is not locked out |
| `AuthenticatorProofs` | `WellFormed`, `IndexesDescribeTheList` | `IndexInv`, `IndexConsistent` | list and indexes describe the same users at every step |
| | `SpotStaysEmpty` | `SpotEmpty` | the slot of a replacement stays free |
| | `LookupsAreFresh` | `LookupIsFresh` | no lookup uses an old list, if users are only added and its reload is not given up |
| one desk | `UpdatesSeen`, `StaysAuthorised` | `UpdatesWhatWasSeen`, `ChangesAreAuthorised` | a change is made to what was seen, for somebody who still may |
| | `LookupsStayFresh`, `FileStaysComplete` | `LookupIsFresh`, `FileIsComplete` | no lookup uses an old list; no dump goes into the file in place |
| calm host | `StaysSynced`, `AnswersAreStored` | `Synced`, `AcknowledgedIsStored` | memory is what a restart would load; what was answered is in the file |
| | `WholeDumps` | `RenamesWholeDump`, `ReplaceReplaces` | what is renamed is whole; the second half of a replacement does not fail |
| | `IsADirectory` | `ImplementsDirectory` | the authenticator is a directory of users |
| only doors | `DoorsStaySynced` | `Synced` | memory is what a restart would load, whenever and whatever is edited in place |
| `ApplicationBusProofs` | `TypeCorrect`, `Served`, `Refines` | `TypeOK`, `AudienceIsServed`, `ImplementsBroadcast` | the bus is a broadcast |
| `EntranceProofs` | `DoorIsSafe`, `OpeningsAreWhole` | `DoorInv`, `OpeningsLast` | digits, lights and openings keep their times |
| `SerialLineProofs` | `StatsRight`, `BufferIsAQueue` | `StatsInv`, `ImplementsFifo` | the ring buffer is a queue |
| | `CommandsAreTheLines` | `ImplementsProtocol` | the commands are the lines |
| `TerminalCommandsProofs` | `StoredRight` | `StoredInv` | a stored rate worked or is none, also one that was half written; storing a name leaves its end |
| | `DisplayRight`, `NamesComeTwice` | `DisplayShows`, `NameCameTwice` | the rows show what was printed last; names are confirmed and have no typo |
| `FrontPanelProofs` | `TonesStop`, `Debounced`, `TonesAreWhole` | `ToneInv`, `KeysAreDebounced`, `TonesLast` | keys and tones |
| `CardReaderProofs` | `NoRepeats`, `TheSelectedIsSent`, `ACardIsLeft` | `CardInv`, `SentIsSelected`, `CollisionsLeaveACard` | cards |
| | `InsideAByte` | `PicksBitSet`, inside a byte | a collision chooses the cards with the bit set |

**Assumptions** are those of the modules on their constants: of `UserLife`, a zone within a day of UTC;
of `Authenticator`, that addresses, inodes and bounds are numbers, that nobody is a goroutine and no
object at once with `Nil`, that requests are calls there are, and that a garbled or short line is no row
of columns; of `Entrance`, that times are numbers
and goroutines are late by less than the rate limit leaves; of `SerialCom`, that the size is a number
above one (the prover cannot compute a power of two); of `LineBuffer`, that NUL is not a byte that is
accepted; of `TerminalCommands`, that lines are sequences of characters other than NUL, that the rate of the
build is one the terminal accepts, that the count and its first value are of a byte, that a name has
room, that an EEPROM holds bytes, and that a row of the display fits its addresses; of `FrontPanel`, that settling and the longest pause between two polls fit the clock; of
`CardReader`, that UIDs are of 4, 7 or 10 bytes, are different, and do not begin their last level with
the cascade tag (ISO/IEC 14443-3 keeps it for the others).

**UserLifeProofs**, for every set of records, every set of instants and every zone within a day of
UTC. `ReloadIdempotent` is about the data alone: a written time is a whole UTC minute, and writing
that again gives the same. It rests on lemmas about `%` and about `FormatTime` and `ParseTime`.
`TypeCorrect` and `ReloadStable` follow. `NeverExtends` and `ExpiryFinal` need
`TzOffset <= 0`: east of Greenwich the lost zone makes a renewed card last some hours longer, so
there the two statements are false, and TLC finds it so. `AccessRulesHold` needs a well-formed record
only: it goes through the levels and their hours.

**AuthenticatorProofs**, for any number of goroutines, any calls, files, edits and bounds. What is
inductive is the shape of memory (`MemoryOK`, `LoaderOK`), of the files and of each call (`LocalsOK`),
`IndexConsistent` of the list and of the one being read, and for every call `CallFits` (which calls get
to a step) and `LocksHeld` (who is between the halves of a replacement holds `userLock` and its slot is
empty; who reads holds `fileLock`, and both while it announces what it has read; nobody is in a call
while the program starts). The lemmas on what
one insertion, removal or replacement does to the list and its indexes carry the weight; then each
step is looked at once.

More holds under hypotheses, and each of them is needed: the configurations run by hand show what
happens without.

- `OnlyAdds`: nobody updates or deletes. Otherwise a dump that was written earlier may be renamed over a
  file with a later timestamp, and the timestamp of the file goes back. `LookupsAreFresh` adds that what
  a call has seen is never newer than what is loaded when it looks up. A call whose reload is given up
  has, as far as `LookupIsFresh` goes, seen nothing (`asOf` is 0): the code answers it from the list it has.
- `OneDesk`: at most one goroutine changes users. `main.go` gives the handler that does to the terminals
  called `control`, and there is one. With two, and a third change, two dumps share a temporary file
  (`Authenticator_shared_tmp`, `Authenticator_lost_append`).
- `CalmEdits`: the file is edited between calls and the new one moved into place, or not edited
  (`Authenticator_race_update`, `Authenticator_race_rename`).
- `~ReadMayFail`: the file can be read whenever it is looked at, which with the two before is `CalmDesk`. If
  not, a reload may be given up for the first lookup of a change and not for its second, and so come
  between the member that authorised it and the change.
- `QuietHost`: the disk takes what is written and the file can be opened (`Authenticator_full_disk`); no
  line is garbled (`Authenticator_garbled`); users that are added can be found again in the file (a
  name that does not begin with `#`, some code); updates renew or give up, as the control UI's do,
  and do not hand out codes (`Authenticator_taken_code`).
- `DoorsOnly`: nobody changes users, and whoever edits the file writes it in place. It may fail to be read.

With `CalmDesk`, `DInv` says that from the reload of its first lookup until it has
written, a change has list and file for itself: the timestamps agree and nobody reads
(`HasReloaded`), the one who authorised it is still listed (`Verified`), the target is still what its
code finds, the dump goes into the temporary file and is newer than the file in place.

With `QuietHost` as well (`Calm`), `HInv` follows the data. What is read so far are the users the lines
read so far come to (`ReadSoFar`); what is dumped so far comes to the users of the list up to that place
(`Dumping`); before an append, the list is the file with one user more, whose codes are free in the
file (`Appending`); and outside of a change the file is the list (`InFile`), since a record that was read or
written is written as it was read. `Loaded` and `UsersOf` are functions defined step by step over a
sequence of any length. That they are functions at all, that a longer sequence begins like a shorter
one, and that no two loaded users share a code is shown by induction over sets of numbers, from the
library's theorem that every such set has a least member (`SetInduction`, `Recursion`, `SameSteps`).
`IsADirectory` then takes the steps one by one: a change in memory is `UserDirectory`'s change, a half-done
replacement counts as done, the append, the rename and the edit are its changes of the file, a
reload, a start and a crash leave the list as stored or empty, and all the rest stutters.

For `DoorsStaySynced` edits may come while the file is opened, stamped and read, and lines may be garbled.
`SInv` says that what is loaded, or being read, is what the file comes to for as long as its
timestamp is the one taken: it was taken after the file was opened and before the first line was
read, and an edit gives the file a later one.

**ApplicationBusProofs**, for any goroutines, any calls they make and any capacities. The parts of
`IInv` say what the others need of the closures under way:

- `Sending`: the bus is busy exactly as long as a receiver is left. Without it `Take` could start
  over in the middle of an event.
- `Signed`, `Alternating`: the bit of an event in the queue, in a call and to come alternate, so the
  event that is published is the publisher's next one.
- `Newcomers`: who has yet to become a receiver has an empty channel and one `Subscribe` under way,
  so a join brings nothing with it.
- `Leavers`, `Joined`, `Audiences`: who has been told that it is subscribed is a receiver, or its
  `Subscribe` is in the queue, or it has left. The queue holds one closure: if that is a `Post`, no
  `Subscribe` is before it.

Then `Post`, `Accept`, `Deliver` stutter, `Receive` is a receive of a member or a stutter, and `Take`
is a join, a leave, a publication or a stutter.

**EntranceProofs**, for any times of the code and any bounds on delays. Between two ticks of the handler
the loop waits for a bounded time: `Waited` bounds what has passed since the last tick at each place of
the loop, `DigitsAge` and `LightsAge` add it to the age of a digit or a light. `OneOpening` says that
at most one goroutine is asleep with the relay on, and `OpenSince` that the relay has been on for as
long as that one has slept, or longer if it could not be switched off before; the rate limit keeps the next one from starting before it has ended, as
long as `Slack < OpenRateLimit`. Without that the next opening is cut short.

**SerialLineProofs**, for any size of buffer and counter, any length of a line, any alphabet and any
capacity; it is about `SerialCom` and about `LineBuffer` on top of it. `Reading`: once `read()` has seen
that there is a byte, there is one until `Advance` gives its slot back, and the interrupt does not write
to that slot. `Counting`: what the two loads of the counter have to do with what it was and is. For
`BufferIsAQueue`, what is abstractly in the queue is what lies between the indexes, less a byte already
copied: the copy is the abstract read, `Advance` a stutter. In the line, `HoldsBytes` (no NUL before
`pos`), `Room` and `LineReady` say where a line ends at each place of `ReadlineNoblock`. The sequence of
the bytes before `pos` is the abstract unfinished line; that the command read up to its NUL is that
sequence is a lemma on sequences.

**TerminalCommandsProofs**, for any lines and rates, names of any length and displays of any width, any
EEPROM at first, and a glitch between any two bytes or nibbles. `UpperWorked`: if the upper byte of the rate
in the EEPROM is that of a valid rate, it is one the EEPROM held at first, or that rate is the build's or one a
command was understood at; as valid rates differ
in their upper bytes (`UppersDiffer`), a mixture of two is valid only if it is one of them. `Named`: as long
as fewer commands than its count can tell came since a name, the count says how many. `Summed`: the sum kept
is that of the name that came; the sum of a name with one character changed differs in the lowest bit in
which the characters do (`TypoHasOtherSum`). `Display` says what the display has taken: of `LcdInit`'s program, whatever
it was doing before (`Booting`, `Reached`: after two nibbles it takes eight lines, after the third four),
or of the address and the text of a row (`Printing`): the characters before the k-th are in their cells,
the other row is as it was. Each nibble takes one step along one of them, until nothing is on its way
(`Ready`); a command or a glitch begins anew.

**FrontPanelProofs**, for a clock of any width in two halves of any size, and any lengths of time.
`LoadsAreClose`: at most a tick passes between the two loads of the clock. `KeyTimes` relates the
counter that is stored and compared to the time the keypad has held still, up to the settling time,
which is shorter than the clock; `StartStored` and `Sounding` do so for a tone from its first store to
its end: its age is what the interrupt computes until the clock has gone round, and unless an
interrupt is due the tone was not over when the last one was. All of it rests on lemmas about `%`:
bytes of a number, differences of times, the phase of a divided clock. The lemma for a tone's end failed
for tones of none at first: they last until the first interrupt (`Length`).

**CardReaderProofs**, for any set of cards, also of different lengths, and any noise. `Gathered`: a card
that takes part in a poll is no further than the poll, and where it is as far the bytes gathered are its
own; `seen.left` are those that do not take part. A UID is sent after the last level was selected,
which then belongs to a card that has followed, or to one of those. `Fair` says where a card that
was sent and is not disturbed is: every other poll selects it again, and `NextState` does not send it.
`ACardIsLeft` and `InsideAByte` need no more than types: they are about the bits of a byte and where the
driver puts the bit it sets, which is in the byte that collided unless the first or the last bit of a
byte did; the last one does no harm, as the bit that is set is not yet known then. Inside a byte the
frame goes on with exactly the cards that have the bit (`SetBitMatches`): no card that was told to be
silent before comes back, since a collision is behind all bits that were known (`FewerBits`).

**Only model-checked.** Liveness (`CallsReturnIfPostsDo`, `CallsReturnToListeners`, `ReadReturns`,
`CommandsAreExecuted`, `ServesInSilence`, `KeyGetsThrough`, `IsSent`, `PollEnds`) is beyond the prover.
Of the authenticator, `UpdatesWhatWasSeen` is checked in `auth_desks` for two terminals that make a
change each, and proved for one that makes any number: with a third change two dumps can share the temporary
file, a reload comes between the halves of an update, and it does not hold.

## 5. Not modelled, and plan

Not modelled:

- **Control UI** (`uicontrolhandler.go`): seven menus and their texts. Its changes of users are steps of
  `Authenticator` and `UserLife`; its menus would be a module as large as its code.
- **Bell and hush** of GPIOActions: a sound that an external program plays.
- **Errors and time-outs of the serial terminal**, the parsing of what it sends, its LCD cache, the
  **device loop** with its back-off and dispatch by name: they need a model of a failing serial port, of
  which the code shows only that it returns errors. The late answer taken for the next one
  (`serial-terminal.go:139`) is listed as a hazard.
- **Event APIs** (JSON, HTTP and sockets around a list; their use of the bus is in `ApplicationBus`),
  the **debug handler** (logging), flags and the user listing of `main`.
- The SPI transfers and the uncalled functions of the **MFRC522** driver, the waveform of tones, delays
  and pins of the LCD, the board layouts.

What could be proved further: `LookupIsFresh` for edits in place at any moment and one desk. A dump may then
be renamed over an edit, so it holds only until the first one is; the statement needs that history.
