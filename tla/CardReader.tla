------------------------------ MODULE CardReader ------------------------------
(***************************************************************************)
(* firmware/mfrc522/mfrc522.cc as the terminal uses it, and the card part  *)
(* of the main loop of terminal-main.cc: a poll is a REQA and, if a card   *)
(* answers, the SELECT of one card, cascade level by cascade level. Every  *)
(* frame on the air is a step: cards come and go between two of them, and  *)
(* noise spoils what the card or the reader hears.                         *)
(*                                                                         *)
(* The cards are modelled from what the driver says of them (its comments  *)
(* quote ISO/IEC 14443-3): they are not part of this repository.           *)
(***************************************************************************)
EXTENDS Integers, Sequences, FiniteSets

CONSTANTS
    Cards,
    UidOf,           \* [card -> its 4, 7 or 10 bytes]
    Garbage,         \* bytes noise puts in place of received ones
    GarbledPos       \* collision positions noise makes the chip report

PICC_CMD_CT == 136
Byte == 0 .. 255

\* The last level does not begin like one that is not the last.
ASSUME CardAssumption ==
    /\ IsFiniteSet(Cards)
    /\ Garbage \subseteq Byte /\ Garbage # {} /\ GarbledPos \subseteq 0 .. 31
    /\ UidOf \in [Cards -> Seq(Byte)]
    /\ \A c \in Cards : /\ Len(UidOf[c]) \in {4, 7, 10}
                        /\ UidOf[c][Len(UidOf[c]) - 3] # PICC_CMD_CT
    /\ \A c, d \in Cards : UidOf[c] = UidOf[d] => c = d

VARIABLES
    field,      \* [card -> what state it is in, at what cascade level]
    pc,         \* "request", "select"
    sel,        \* locals of PICC_Select
    uid,        \* card_reader.uid
    state,      \* RfidState
    last,       \* last_sent_uid, as the bytes that count
    seen        \* history of the cards: see Init

vars == <<field, pc, sel, uid, state, last, seen>>

-----------------------------------------------------------------------------
\* 2 to the k, for the bits of a byte.
Power(k) == <<1, 2, 4, 8, 16, 32, 64, 128>>[k + 1]

\* Bits of a cascade level, in the order of transmission: 1 .. 32.
Bit(b, i) == (b[1 + (i - 1) \div 8] \div Power((i - 1) % 8)) % 2

\* The first n bits of a and the others of b.
Spliced(a, b, n) ==
    [j \in 1 .. 4 |->
        LET k == n - 8 * (j - 1) IN
        IF k >= 8 THEN a[j]
        ELSE IF k <= 0 THEN b[j]
        ELSE (a[j] % Power(k)) + (b[j] - (b[j] % Power(k)))]

SameBits(a, b, n) == Spliced(a, b, n) = b

Zeros == [j \in 1 .. 4 |-> 0]

WithBit(b, j, n) ==
    IF j \in 1 .. 4 /\ (b[j] \div Power(n)) % 2 = 0 THEN [b EXCEPT ![j] = @ + Power(n)] ELSE b

\* What a card sends as its UID at a cascade level.
Levels(c) == (Len(UidOf[c]) - 1) \div 3

LevelBytes(c, l) ==
    IF l < Levels(c) THEN <<PICC_CMD_CT>> \o SubSeq(UidOf[c], 3 * l - 2, 3 * l)
    ELSE SubSeq(UidOf[c], 3 * l - 2, 3 * l + 1)

-----------------------------------------------------------------------------
Out == [at |-> "out", level |-> 0]
IdleCard == [at |-> "idle", level |-> 0]
Ready(l) == [at |-> "ready", level |-> l]
Active == [at |-> "active", level |-> 0]

Present == {c \in Cards : field[c] # Out}
AtLevel(l) == {c \in Cards : field[c] = Ready(l)}

\* A card that hears a REQA answers it if it is idle, or else falls idle.
HearRequest(c) == IF field[c] = IdleCard THEN Ready(1) ELSE IdleCard

\* ... an ANTICOLLISION: every ready card waits on.
HearAnticoll(c, l) == IF field[c] = Ready(l) THEN field[c] ELSE IdleCard

\* ... a SELECT: the card that is meant goes on, all others fall idle.
HearSelect(c, l, bytes) ==
    IF field[c] # Ready(l) \/ LevelBytes(c, l) # bytes THEN IdleCard
    ELSE IF l < Levels(c) THEN Ready(l + 1) ELSE Active

\* Some cards hear a frame.
Hears(cs, become) ==
    field' = [c \in Cards |-> IF c \in cs THEN become[c] ELSE field[c]]

-----------------------------------------------------------------------------
Init ==
    /\ field = [c \in Cards |-> Out]
    /\ pc = "request"
    /\ sel = [level |-> 1, known |-> 0, data |-> Zeros]
    /\ uid = [size |-> 0, uidByte |-> [i \in 1 .. 10 |-> 0]]
    /\ state = "IDLE"
    /\ last \in {<<>>} \cup {UidOf[c] : c \in Cards}     \* not initialised
    /\ seen = [empty |-> 2,      \* polls since the field is empty, 2 for more
               fair |-> FALSE,   \* the card in the field is alone, was missed
                                 \* before it came, and is not disturbed
               sent |-> 0,       \* how often it was sent, 2 for more
               left |-> {},      \* cards that missed the request of this poll
                                 \* half-way through a selection
               sending |-> FALSE]  \* the last step sent a UID

-----------------------------------------------------------------------------
\* The slip.
NextState_NoRepeat(cp) ==
    IF cp THEN "FIRST_SEEN"
    ELSE (IF state = "FIRST_SEEN" THEN "REPEAT_1" ELSE "IDLE")

\* The end of an iteration of the main loop; cp: a card was read.
NextState(cp) ==
    CASE state = "IDLE"       -> IF cp THEN "FIRST_SEEN" ELSE "IDLE"
      [] state = "FIRST_SEEN" -> IF cp THEN "FIRST_SEEN" ELSE "REPEAT_1"
      [] state = "REPEAT_1"   -> IF cp THEN "REPEAT_2" ELSE "IDLE"
      [] state = "REPEAT_2"   -> IF cp THEN "FIRST_SEEN" ELSE "REPEAT_1"

UidBytes == SubSeq(uid'.uidByte, 1, uid'.size)

\* The slip.
Sends_OnlyChanges(cp) == cp /\ last # UidBytes /\ uid'.size <= 15

\* is_same is true when no card was read. A UID of more than 15 is "fishy".
Sends(cp) ==
    /\ (cp /\ last # UidBytes) \/ NextState(cp) = "FIRST_SEEN"
    /\ uid'.size <= 15

Capped(n) == IF n > 2 THEN 2 ELSE n

NewSelect == [level |-> 1, known |-> 0, data |-> Zeros]

EndPoll(cp, quiet) ==
    /\ pc' = "request" /\ sel' = NewSelect
    /\ state' = NextState(cp)
    /\ last' = IF Sends(cp) THEN UidBytes ELSE last
    /\ seen' = [empty |-> IF Present = {} THEN Capped(seen.empty + 1) ELSE 0,
                fair |-> seen.fair /\ quiet,
                sent |-> IF Sends(cp) THEN Capped(seen.sent + 1) ELSE seen.sent,
                left |-> {}, sending |-> Sends(cp)]

GoOn(next, quiet, left) ==
    /\ pc' = "select" /\ sel' = next
    /\ seen' = [seen EXCEPT !.fair = @ /\ quiet, !.left = left, !.sending = FALSE]
    /\ UNCHANGED <<state, last>>

Fail(quiet) == UNCHANGED uid /\ EndPoll(FALSE, quiet)

\* Who hears a frame: all cards if the air is quiet, otherwise any of them.
Hearing(quiet) == IF quiet THEN {Present} ELSE SUBSET Present

-----------------------------------------------------------------------------
\* What the chip reports after a frame: how the wait for its interrupts ended
\* (none for the emergency break), ErrorReg, bytes in the FIFO, valid bits of
\* the last one.
Report(irq, error, n, valid) == [irq |-> irq, error |-> error, n |-> n, valid |-> valid]

Reports == [irq : {"done", "timer", "none"}, error : SUBSET {"fatal", "CollErr"},
            n : 0 .. 3, valid : {0, 4}]

PCD_CommunicateWithPICC(report, room) ==
    CASE report.irq # "done"        -> "TIMEOUT"
      [] "fatal" \in report.error   -> "ERROR"
      [] report.n > room            -> "NO_ROOM"
      [] "CollErr" \in report.error -> "COLLISION"
      [] OTHER                      -> "OK"

PICC_REQA_or_WUPA(report) ==
    LET status == PCD_CommunicateWithPICC(report, 2) IN
    IF status = "OK" /\ (report.n # 2 \/ report.valid # 0) THEN "ERROR" ELSE status

Noise == {PICC_REQA_or_WUPA(r) : r \in Reports}

\* Several cards collide, or are not heard at all; noise may be anything.
ResultsOf(answering, quiet) ==
    IF ~quiet THEN Noise
    ELSE {PICC_REQA_or_WUPA(r) : r \in
            (IF answering = {} THEN {} ELSE {Report("done", {}, 2, 0)})
            \cup (IF Cardinality(answering) = 1 THEN {} ELSE {Report("timer", {}, 0, 0)})
            \cup (IF Cardinality(answering) < 2 THEN {}
                  ELSE {Report("done", {"CollErr"}, 2, 0)})}

\* Cards that wait for the rest of a selection.
HalfWay == AtLevel(2) \cup AtLevel(3)

\* PICC_IsNewCardPresent.
RequestA(quiet) ==
    /\ pc = "request"
    /\ \E cs \in Hearing(quiet) :
        /\ Hears(cs, [c \in Cards |-> HearRequest(c)])
        /\ \E result \in ResultsOf({c \in cs : field[c] = IdleCard}, quiet) :
              IF result \in {"OK", "COLLISION"}
              THEN GoOn(NewSelect, quiet, HalfWay \ cs) /\ UNCHANGED uid
              ELSE Fail(quiet)

-----------------------------------------------------------------------------
\* An ANTICOLLISION frame with the known bits. What comes back is stored
\* behind them.
Meant(cs) == {c \in cs \cap AtLevel(sel.level) :
                SameBits(LevelBytes(c, sel.level), sel.data, sel.known)}

\* One card answers, or one of several drowns the others.
Received(bytes, quiet) ==
    GoOn([sel EXCEPT !.known = 32, !.data = bytes], quiet, seen.left) /\ UNCHANGED uid

\* The slip.
CollisionIndex_Floor(k) == 1 + k \div 8

\* The chip names the first bit that collided; the bits behind it are zero.
\* The driver sets a bit, not always this one: see CollisionIndex.
CollisionIndex(k) == 1 + k \div 8 + (IF (k - 1) % 8 = 0 THEN 0 ELSE 1)

\* The slip.
Collided_NoCheck(k, bytes, quiet) ==
    /\ GoOn([sel EXCEPT !.known = k,
               !.data = WithBit(bytes, CollisionIndex(k) - 1, (k - 1) % 8)], quiet, seen.left)
    /\ UNCHANGED uid

Collided(k, bytes, quiet) ==
    IF k <= sel.known THEN Fail(quiet)
    ELSE /\ GoOn([sel EXCEPT !.known = k,
                   !.data = WithBit(bytes, CollisionIndex(k) - 1, (k - 1) % 8)], quiet, seen.left)
         /\ UNCHANGED uid

FirstDifference(cs, k) ==
    /\ \A c, d \in cs : SameBits(LevelBytes(c, sel.level), LevelBytes(d, sel.level), k - 1)
    /\ \E c, d \in cs : Bit(LevelBytes(c, sel.level), k) # Bit(LevelBytes(d, sel.level), k)

Anticollision ==
    /\ pc = "select" /\ sel.known < 32
    /\ Hears(Present, [c \in Cards |-> HearAnticoll(c, sel.level)])
    /\ LET meant == Meant(Present) IN
       \/ \E c \in meant :
             Received(Spliced(sel.data, LevelBytes(c, sel.level), sel.known), TRUE)
       \/ \E c \in meant, k \in 1 .. 32 :
             /\ FirstDifference(meant, k)
             /\ Collided(k, Spliced(LevelBytes(c, sel.level), Zeros, k), TRUE)
       \/ Cardinality(meant) # 1 /\ Fail(TRUE)

\* With noise: no or a wrong answer, or the right one of a card while another
\* has heard nothing. A single byte is stored without the mask that protects
\* known bits. Of a wrong answer all that matters is that it is not a card's:
\* one byte stands for each it brings and, when it is short, for each that
\* the buffer held before.
NoisyAnticollision(g, p) ==
    /\ pc = "select" /\ sel.known < 32
    /\ \E cs \in SUBSET Present :
        /\ Hears(cs, [c \in Cards |-> HearAnticoll(c, sel.level)])
        /\ LET wrong(n) == Spliced(sel.data, [j \in 1 .. 4 |-> g], n) IN
           \/ Fail(FALSE)
           \/ \E c \in Meant(cs) :
                 Received(Spliced(sel.data, LevelBytes(c, sel.level), sel.known), FALSE)
           \/ \E n \in {sel.known, 8 * (sel.known \div 8)} : Received(wrong(n), FALSE)
           \/ Collided(IF p = 0 THEN 32 ELSE p, wrong(sel.known), FALSE)

-----------------------------------------------------------------------------
\* The slip.
UidIndex_Four(level) == 4 * (level - 1)

\* The bytes of a level go where they belong, without the cascade tag.
UidIndex(level) == 3 * (level - 1)

Copied ==
    LET tagged == sel.data[1] = PICC_CMD_CT
        from == IF tagged THEN 1 ELSE 0
        n == 4 - from
        base == UidIndex(sel.level)
    IN  [uid EXCEPT !.uidByte = [i \in 1 .. 10 |->
            IF i \in base + 1 .. base + n THEN sel.data[i - base + from] ELSE @[i]]]

\* A SELECT frame, with the BCC the driver makes itself. SAK comes back.
Select(quiet) ==
    /\ pc = "select" /\ sel.known >= 32
    /\ \E cs \in Hearing(quiet) :
        /\ Hears(cs, [c \in Cards |-> HearSelect(c, sel.level, sel.data)])
        /\ LET meant == Meant(cs)
               more == \E c \in meant : sel.level < Levels(c)
           IN  \/ (meant = {} \/ ~quiet) /\ Fail(quiet)
               \/ ~quiet /\ uid' = Copied /\ EndPoll(FALSE, FALSE)
               \/ /\ meant # {} /\ more
                  /\ uid' = Copied
                  /\ IF sel.level = 3 THEN EndPoll(FALSE, quiet)
                     ELSE GoOn([sel EXCEPT !.level = @ + 1, !.known = 0], quiet, seen.left)
               \/ /\ meant # {} /\ ~more
                  /\ uid' = [Copied EXCEPT !.size = 3 * sel.level + 1]
                  /\ EndPoll(TRUE, quiet)

\* The CRC coprocessor does not finish: nothing is sent.
CrcTimeout == pc = "select" /\ sel.known >= 32 /\ Fail(FALSE) /\ UNCHANGED field

-----------------------------------------------------------------------------
\* Command R. The antenna is off until PCD_Init: cards lose their power.
ResetReader ==
    /\ pc = "request"
    /\ field' = [c \in Cards |-> IF c \in Present THEN IdleCard ELSE Out]
    /\ last' = <<>>
    /\ seen' = [seen EXCEPT !.fair = (Cardinality(Present) = 1), !.sent = 0,
                            !.sending = FALSE]
    /\ UNCHANGED <<pc, sel, uid, state>>

\* A card is brought. It can be missed at once, unless it is another one than
\* the last or two polls have found the field empty.
Come(c) ==
    /\ field[c] = Out
    /\ field' = [field EXCEPT ![c] = IdleCard]
    /\ seen' = [seen EXCEPT
          !.fair = (Present = {} /\ (seen.empty = 2 \/ last # UidOf[c])),
          !.sent = 0, !.sending = FALSE]
    /\ UNCHANGED <<pc, sel, uid, state, last>>

Leave(c) ==
    /\ field[c] # Out
    /\ field' = [field EXCEPT ![c] = Out]
    /\ seen' = [seen EXCEPT !.empty = 0, !.fair = FALSE, !.sent = 0, !.sending = FALSE]
    /\ UNCHANGED <<pc, sel, uid, state, last>>

Quiet == RequestA(TRUE) \/ Anticollision \/ Select(TRUE)

Noisy == RequestA(FALSE) \/ Select(FALSE) \/ CrcTimeout
         \/ \E g \in Garbage, p \in GarbledPos : NoisyAnticollision(g, p)

Next == Quiet \/ Noisy \/ ResetReader \/ (\E c \in Cards : Come(c) \/ Leave(c))

\* The main loop polls on. Nobody has to bring a card, the air may be noisy.
Spec == Init /\ [][Next]_vars /\ WF_vars(Quiet \/ Noisy)

-----------------------------------------------------------------------------
States == {"IDLE", "FIRST_SEEN", "REPEAT_1", "REPEAT_2"}

CardStates == {Out, IdleCard, Active} \cup {Ready(l) : l \in 1 .. 3}

TypeOK ==
    /\ field \in [Cards -> CardStates]
    /\ pc \in {"request", "select"} /\ state \in States
    /\ sel \in [level : 1 .. 3, known : 0 .. 32, data : [1 .. 4 -> Byte]]
    /\ uid \in [size : {0, 4, 7, 10}, uidByte : [1 .. 10 -> Byte]]
    /\ last \in Seq(Byte) /\ Len(last) \in {0, 4, 7, 10}
    /\ seen \in [empty : 0 .. 2, fair : BOOLEAN, sent : 0 .. 2, left : SUBSET Cards,
                 sending : BOOLEAN]

\* Whatever the noise, whatever cards came and went between the frames and
\* whatever levels they share, the UID that is sent to the host is that of a
\* card which is selected at this moment; or else the card that is selected
\* was half-way through a selection, and missed the request of this poll. (Its
\* first bytes are then those of the card that was selected before it.)
SentIsSelected ==
    [][seen'.sending => \E c \in Cards :
          field'[c] = Active /\ (UidOf[c] = last' \/ c \in seen.left)]_vars

\* The comment in the main loop: a card that is brought up is sent once, with
\* no repeat, although every other poll does not see it.
OnlyOnce == seen.fair => seen.sent <= 1

\* The state is well-formed, whatever noise the chip reports, and a card that is
\* brought up is sent without repeats.
CardInv == TypeOK /\ OnlyOnce

\* A card that is brought up is sent, also when it is the same card again.
IsSent == seen.fair ~> seen.sent > 0 \/ ~seen.fair

\* PICC_Select ends: collisions make progress, levels are at most three.
PollEnds == pc = "select" ~> pc = "request"

\* "Choose the PICC with the bit set": after a collision a card still matches
\* the known bits, unless the first bit of a byte collided.
CollisionsLeaveACard ==
    [][Anticollision /\ pc' = "select" /\ sel'.known \notin {32, 9, 17, 25}
         => Meant(Present)' # {}]_vars

\* The comment taken at its word: the cards that match are those with the bit
\* that collided set.
PicksBitSet ==
    [][\A k \in 1 .. 31 :
        Anticollision /\ pc' = "select" /\ sel'.known = k
          => Meant(Present)' = {c \in Meant(Present) :
                                  Bit(LevelBytes(c, sel.level), k) = 1}]_vars
=============================================================================
