--------------------------- MODULE CardReaderProofs ---------------------------
(***************************************************************************)
(* What holds of the card reader for any cards and any noise: the state is *)
(* well-formed, a card that is brought up is sent without repeats, a UID   *)
(* that is sent is that of the card that is selected, and a collision      *)
(* leaves a card that matches.                                             *)
(***************************************************************************)
EXTENDS CardReader, FiniteSetTheorems, SequenceTheorems, TLAPS

-----------------------------------------------------------------------------
\* A card waits at a level it has.
LevelsFit == \A c \in Cards : field[c].at = "ready" => field[c].level <= Levels(c)

\* Nobody is left behind between two polls.
LeftBehind == pc = "request" => seen.left = {}

\* A card that takes part in this poll has come as far as the poll or less far,
\* and the bytes before the poll's level are its own.
Follows(c) ==
    field[c].at = "ready" =>
        /\ field[c].level <= sel.level
        /\ field[c].level = sel.level =>
              \A i \in 1 .. 3 * (sel.level - 1) : uid.uidByte[i] = UidOf[c][i]

Gathered == pc = "select" => \A c \in Cards \ seen.left : Follows(c)

\* Where a card is that was sent once and then not disturbed: every other poll
\* selects it again, and it has been sent already.
Selectable(c) ==
    /\ state = "REPEAT_1" /\ field[c] = Ready(sel.level)
    /\ \/ sel.known = 0
       \/ sel.known = 32 /\ sel.data = LevelBytes(c, sel.level)

Repeated(c) ==
    /\ last = UidOf[c]
    /\ pc = "request" => \/ field[c] = Active /\ state \in {"FIRST_SEEN", "REPEAT_2"}
                         \/ field[c] = IdleCard /\ state = "REPEAT_1"
    /\ pc = "select" => Selectable(c)

Undisturbed(c) ==
    /\ Present = {c}
    /\ field[c].at = "ready" => c \notin seen.left
    /\ seen.sent = 0 \/ (seen.sent = 1 /\ Repeated(c))

Fair == seen.fair => \E c \in Cards : Undisturbed(c)

IInv == TypeOK /\ LevelsFit /\ LeftBehind /\ Gathered /\ Fair

-----------------------------------------------------------------------------
(* Bytes, and the levels of a card. *)

Level4 == [1 .. 4 -> Byte]

\* The table holds the powers of two.
LEMMA Powers ==
    ASSUME NEW k \in 0 .. 7
    PROVE  Power(k) \in {1, 2, 4, 8, 16, 32, 64, 128}
<1>1. k \in {0, 1, 2, 3, 4, 5, 6, 7}
  OBVIOUS
<1> QED
  BY <1>1 DEF Power

\* The low bits of one byte with the high bits of another are a byte.
LEMMA SplicedByte ==
    ASSUME NEW a \in Byte, NEW b \in Byte, NEW k \in 0 .. 7
    PROVE  (a % Power(k)) + (b - (b % Power(k))) \in Byte
<1>1. ASSUME NEW p \in {1, 2, 4, 8, 16, 32, 64, 128}
      PROVE  (a % p) + (b - (b % p)) \in 0 .. 255
  <2>1. CASE p = 1
    BY <2>1 DEF Byte
  <2>2. CASE p = 2
    BY <2>2 DEF Byte
  <2>3. CASE p = 4
    BY <2>3 DEF Byte
  <2>4. CASE p = 8
    BY <2>4 DEF Byte
  <2>5. CASE p = 16
    BY <2>5 DEF Byte
  <2>6. CASE p = 32
    BY <2>6 DEF Byte
  <2>7. CASE p = 64
    BY <2>7 DEF Byte
  <2>8. CASE p = 128
    BY <2>8 DEF Byte
  <2> QED
    BY <2>1, <2>2, <2>3, <2>4, <2>5, <2>6, <2>7, <2>8
<1> QED
  BY <1>1, Powers DEF Byte

\* So are spliced frames: bytes.
LEMMA SplicedType ==
    ASSUME NEW a \in Level4, NEW b \in Level4, NEW n \in Int
    PROVE  Spliced(a, b, n) \in Level4
<1>1. SUFFICES ASSUME NEW j \in 1 .. 4
               PROVE  Spliced(a, b, n)[j] \in Byte
  BY DEF Spliced, Level4
<1> DEFINE k == n - 8 * (j - 1)
<1>2. a[j] \in Byte /\ b[j] \in Byte /\ k \in Int
  BY DEF Level4
<1>3. Spliced(a, b, n)[j] =
        IF k >= 8 THEN a[j]
        ELSE IF k <= 0 THEN b[j]
        ELSE (a[j] % Power(k)) + (b[j] - (b[j] % Power(k)))
  BY DEF Spliced
<1> HIDE DEF k
<1>4. CASE k >= 8 \/ k <= 0
  BY <1>2, <1>3, <1>4
<1>5. CASE k \in 1 .. 7
  <2> k \in 0 .. 7
    BY <1>5
  <2>1. (a[j] % Power(k)) + (b[j] - (b[j] % Power(k))) \in Byte
    BY <1>2, SplicedByte, Zenon
  <2> QED
    BY <1>3, <1>5, <2>1
<1> QED
  BY <1>2, <1>4, <1>5

\* No bits, or all bits.
LEMMA SplicedNone ==
    ASSUME NEW a, NEW b \in Level4
    PROVE  Spliced(a, b, 0) = b
BY DEF Spliced, Level4

LEMMA SplicedAll ==
    ASSUME NEW a \in Level4, NEW b
    PROVE  Spliced(a, b, 32) = a
BY DEF Spliced, Level4

\* A bit is set where it is clear.
LEMMA WithBitType ==
    ASSUME NEW b \in Level4, NEW j \in Int, NEW n \in 0 .. 7
    PROVE  WithBit(b, j, n) \in Level4
<1>1. ASSUME NEW x \in 0 .. 255, NEW p \in {1, 2, 4, 8, 16, 32, 64, 128},
             (x \div p) % 2 = 0
      PROVE  x + p \in 0 .. 255
  <2>1. CASE p = 1
    BY <1>1, <2>1
  <2>2. CASE p = 2
    BY <1>1, <2>2
  <2>3. CASE p = 4
    BY <1>1, <2>3
  <2>4. CASE p = 8
    BY <1>1, <2>4
  <2>5. CASE p = 16
    BY <1>1, <2>5
  <2>6. CASE p = 32
    BY <1>1, <2>6
  <2>7. CASE p = 64
    BY <1>1, <2>7
  <2>8. CASE p = 128
    BY <1>1, <2>8
  <2> QED
    BY <2>1, <2>2, <2>3, <2>4, <2>5, <2>6, <2>7, <2>8
<1>2. CASE j \in 1 .. 4 /\ (b[j] \div Power(n)) % 2 = 0
  <2>1. b[j] \in 0 .. 255 /\ Power(n) \in {1, 2, 4, 8, 16, 32, 64, 128}
    BY <1>2, Powers DEF Byte, Level4
  <2>2. b[j] + Power(n) \in 0 .. 255
    BY <1>1, <1>2, <2>1
  <2> QED
    BY <1>2, <2>2 DEF WithBit, Level4, Byte
<1>3. CASE ~(j \in 1 .. 4 /\ (b[j] \div Power(n)) % 2 = 0)
  BY <1>3 DEF WithBit
<1> QED
  BY <1>2, <1>3

\* What a card is.
LEMMA CardFacts ==
    ASSUME NEW c \in Cards
    PROVE  /\ UidOf[c] \in Seq(Byte) /\ Len(UidOf[c]) = 3 * Levels(c) + 1
           /\ Levels(c) \in 1 .. 3
           /\ UidOf[c][3 * Levels(c) - 2] # PICC_CMD_CT
<1>1. /\ UidOf[c] \in Seq(Byte) /\ Len(UidOf[c]) \in {4, 7, 10}
      /\ UidOf[c][Len(UidOf[c]) - 3] # PICC_CMD_CT
  BY CardAssumption
<1>2. Len(UidOf[c]) = 3 * Levels(c) + 1 /\ Levels(c) \in 1 .. 3
  <2>1. Levels(c) = (Len(UidOf[c]) - 1) \div 3
    BY DEF Levels
  <2>2. \A n \in {4, 7, 10} : n = 3 * ((n - 1) \div 3) + 1 /\ (n - 1) \div 3 \in 1 .. 3
    OBVIOUS
  <2> QED
    BY <1>1, <2>1, <2>2
<1>3. Len(UidOf[c]) - 3 = 3 * Levels(c) - 2
  BY <1>2
<1> QED
  BY <1>1, <1>2, <1>3

\* A level that is not the last is the cascade tag and three bytes.
LEMMA TaggedLevel ==
    ASSUME NEW c \in Cards, NEW l \in 1 .. 3, l < Levels(c)
    PROVE  /\ LevelBytes(c, l) \in Level4
           /\ LevelBytes(c, l)[1] = PICC_CMD_CT
           /\ \A i \in 1 .. 3 : LevelBytes(c, l)[i + 1] = UidOf[c][3 * (l - 1) + i]
<1> DEFINE u == UidOf[c]
           s == SubSeq(u, 3 * l - 2, 3 * l)
<1>1. u \in Seq(Byte) /\ Len(u) = 3 * Levels(c) + 1 /\ Levels(c) \in 1 .. 3
  BY CardFacts
<1>2. s \in Seq(Byte) /\ Len(s) = 3 /\ \A i \in 1 .. 3 : s[i] = u[3 * l - 3 + i]
  <2> HIDE DEF u
  <2> QED
    BY <1>1
<1>3. LevelBytes(c, l) = <<PICC_CMD_CT>> \o s
  BY DEF LevelBytes
<1> HIDE DEF u, s
<1>4. <<PICC_CMD_CT>> \in Seq(Byte) /\ Len(<<PICC_CMD_CT>>) = 1
  BY DEF PICC_CMD_CT, Byte
<1>5. /\ LevelBytes(c, l) \in Seq(Byte) /\ Len(LevelBytes(c, l)) = 4
      /\ LevelBytes(c, l)[1] = PICC_CMD_CT
      /\ \A i \in 1 .. 3 : LevelBytes(c, l)[i + 1] = s[i]
  <2> DEFINE t == <<PICC_CMD_CT>>
  <2>1. /\ t \o s \in Seq(Byte) /\ Len(t \o s) = Len(t) + Len(s)
        /\ \A i \in 1 .. Len(t) + Len(s) :
              (t \o s)[i] = IF i <= Len(t) THEN t[i] ELSE s[i - Len(t)]
    BY <1>2, <1>4, ConcatProperties, Zenon
  <2>2. t[1] = PICC_CMD_CT
    OBVIOUS
  <2>3. LevelBytes(c, l) = t \o s
    BY <1>3
  <2> HIDE DEF t
  <2>4. Len(t) = 1
    BY <1>4 DEF t
  <2> QED
    BY <1>2, <2>1, <2>2, <2>3, <2>4
<1>6. LevelBytes(c, l) \in Level4
  BY <1>5, LenProperties DEF Level4
<1> QED
  BY <1>2, <1>5, <1>6 DEF u

\* The last level is four bytes.
LEMMA LastLevel ==
    ASSUME NEW c \in Cards
    PROVE  /\ LevelBytes(c, Levels(c)) \in Level4
           /\ LevelBytes(c, Levels(c))[1] # PICC_CMD_CT
           /\ \A i \in 1 .. 4 : LevelBytes(c, Levels(c))[i]
                                  = UidOf[c][3 * (Levels(c) - 1) + i]
<1> DEFINE u == UidOf[c]
           l == Levels(c)
           s == SubSeq(u, 3 * l - 2, 3 * l + 1)
<1>1. u \in Seq(Byte) /\ Len(u) = 3 * l + 1 /\ l \in 1 .. 3 /\ u[3 * l - 2] # PICC_CMD_CT
  BY CardFacts
<1>2. LevelBytes(c, l) = s
  <2>1. ~(l < Levels(c))
    BY <1>1
  <2> QED
    BY <2>1 DEF LevelBytes
<1> HIDE DEF u, l
<1>3. s \in Seq(Byte) /\ Len(s) = 4 /\ \A i \in 1 .. 4 : s[i] = u[3 * l - 3 + i]
  BY <1>1
<1>4. s[1] = u[3 * l - 2]
  BY <1>1, <1>3
<1>5. s \in Level4
  BY <1>3, LenProperties DEF Level4
<1>6. \A i \in 1 .. 4 : s[i] = u[3 * (l - 1) + i]
  BY <1>1, <1>3
<1> QED
  BY <1>1, <1>2, <1>4, <1>5, <1>6 DEF l, u

LEMMA LevelType ==
    ASSUME NEW c \in Cards, NEW l \in 1 .. 3, l <= Levels(c)
    PROVE  LevelBytes(c, l) \in Level4
<1>1. CASE l < Levels(c)
  BY <1>1, TaggedLevel
<1>2. CASE l = Levels(c)
  BY <1>2, LastLevel
<1> QED
  BY <1>1, <1>2, CardFacts

-----------------------------------------------------------------------------
(* Types, part by part. *)

Fields == [Cards -> CardStates]
Sels == [level : 1 .. 3, known : 0 .. 32, data : Level4]
Uids == [size : {0, 4, 7, 10}, uidByte : [1 .. 10 -> Byte]]
Seens == [empty : 0 .. 2, fair : BOOLEAN, sent : 0 .. 2, left : SUBSET Cards,
          sending : BOOLEAN]

LEMMA TypeParts ==
    TypeOK <=> /\ field \in Fields /\ pc \in {"request", "select"} /\ state \in States
               /\ sel \in Sels /\ uid \in Uids
               /\ last \in Seq(Byte) /\ Len(last) \in {0, 4, 7, 10}
               /\ seen \in Seens
BY DEF TypeOK, Fields, Sels, Uids, Seens, Level4

LEMMA ZerosType == Zeros \in Level4
BY DEF Zeros, Level4, Byte

LEMMA NewSelectType == NewSelect \in Sels
BY ZerosType DEF NewSelect, Sels

\* The bytes that are sent.
LEMMA UidBytesFacts ==
    ASSUME uid' \in Uids
    PROVE  /\ UidBytes \in Seq(Byte) /\ Len(UidBytes) = uid'.size
           /\ \A i \in 1 .. uid'.size : UidBytes[i] = uid'.uidByte[i]
<1> DEFINE f == uid'.uidByte
           n == uid'.size
<1>1. f \in [1 .. 10 -> Byte] /\ n \in {0, 4, 7, 10}
  BY DEF Uids
<1>2. UidBytes = SubSeq(f, 1, n)
  BY DEF UidBytes
<1> HIDE DEF f, n
<1>3. \A i \in 1 .. n : f[i] \in Byte
  BY <1>1
<1>4. n \in Int /\ 1 \in Int
  BY <1>1
<1>5. /\ SubSeq(f, 1, n) \in Seq(Byte)
      /\ Len(SubSeq(f, 1, n)) = IF 1 <= n THEN n - 1 + 1 ELSE 0
      /\ \A i \in 1 .. n - 1 + 1 : SubSeq(f, 1, n)[i] = f[1 + i - 1]
  BY <1>3, <1>4, SubSeqProperties
<1>6. /\ UidBytes \in Seq(Byte) /\ Len(UidBytes) = n
      /\ \A i \in 1 .. n : UidBytes[i] = f[i]
  BY <1>1, <1>2, <1>5
<1> QED
  BY <1>6 DEF f, n

\* Nothing is sent in an iteration that read no card.
LEMMA NothingToSend ==
    ASSUME state \in States
    PROVE  ~Sends(FALSE)
BY DEF States, Sends, NextState

LEMMA NextStateType ==
    ASSUME state \in States, NEW cp \in BOOLEAN
    PROVE  NextState(cp) \in States
BY DEF States, NextState

\* The end of a poll leaves the state well-formed.
LEMMA EndPollType ==
    ASSUME TypeOK, field' \in Fields, uid' \in Uids,
           NEW cp \in BOOLEAN, NEW quiet \in BOOLEAN, EndPoll(cp, quiet)
    PROVE  TypeOK'
<1>1. state' \in States
  BY NextStateType, TypeParts DEF EndPoll
<1>2. last' \in Seq(Byte) /\ Len(last') \in {0, 4, 7, 10}
  <2>1. CASE Sends(cp)
    <3>1. uid'.size \in {0, 4, 7, 10}
      BY DEF Uids
    <3> QED
      BY <2>1, <3>1, UidBytesFacts DEF EndPoll
  <2>2. CASE ~Sends(cp)
    BY <2>2, TypeParts DEF EndPoll
  <2> QED
    BY <2>1, <2>2
<1>3. seen' \in Seens
  <2>1. seen \in Seens
    BY TypeParts
  <2>2. Sends(cp) \in BOOLEAN
    BY DEF Sends
  <2>3. \A n \in 0 .. 2 : Capped(n + 1) \in 0 .. 2
    BY DEF Capped
  <2> DEFINE e == IF Present = {} THEN Capped(seen.empty + 1) ELSE 0
             s == IF Sends(cp) THEN Capped(seen.sent + 1) ELSE seen.sent
  <2>4. e \in 0 .. 2 /\ s \in 0 .. 2
    BY <2>1, <2>3 DEF Seens
  <2>5. seen' = [empty |-> e, fair |-> seen.fair /\ quiet, sent |-> s,
                 left |-> {}, sending |-> Sends(cp)]
    BY DEF EndPoll
  <2> HIDE DEF e, s
  <2>6. (seen.fair /\ quiet) \in BOOLEAN
    OBVIOUS
  <2> QED
    BY <2>2, <2>4, <2>5, <2>6 DEF Seens
<1>4. pc' = "request" /\ sel' = NewSelect
  BY DEF EndPoll
<1>5. /\ field' \in Fields /\ pc' \in {"request", "select"} /\ state' \in States
      /\ sel' \in Sels /\ uid' \in Uids
      /\ last' \in Seq(Byte) /\ Len(last') \in {0, 4, 7, 10}
      /\ seen' \in Seens
  BY <1>1, <1>2, <1>3, <1>4, NewSelectType
<1> QED
  BY <1>5 DEF TypeOK, Fields, Sels, Uids, Seens, Level4

\* So does a step within a poll.
LEMMA GoOnType ==
    ASSUME TypeOK, field' \in Fields, uid' \in Uids,
           NEW next \in Sels, NEW left \in SUBSET Cards,
           NEW quiet \in BOOLEAN, GoOn(next, quiet, left)
    PROVE  TypeOK'
<1>1. seen' \in Seens
  <2>1. seen \in Seens
    BY TypeParts
  <2>2. (seen.fair /\ quiet) \in BOOLEAN
    OBVIOUS
  <2>3. seen' = [seen EXCEPT !.fair = @ /\ quiet, !.left = left, !.sending = FALSE]
    BY DEF GoOn
  <2> QED
    BY <2>1, <2>2, <2>3 DEF Seens
<1>2. /\ pc' = "select" /\ sel' = next /\ state' = state /\ last' = last
  BY DEF GoOn
<1>3. /\ field' \in Fields /\ pc' \in {"request", "select"} /\ state' \in States
      /\ sel' \in Sels /\ uid' \in Uids
      /\ last' \in Seq(Byte) /\ Len(last') \in {0, 4, 7, 10}
      /\ seen' \in Seens
  BY <1>1, <1>2, TypeParts
<1> QED
  BY <1>3 DEF TypeOK, Fields, Sels, Uids, Seens, Level4

-----------------------------------------------------------------------------
(* Frames on the air: what becomes of the cards. *)

LEMMA AfterRequest ==
    ASSUME TypeOK, LevelsFit, NEW cs, Hears(cs, [c \in Cards |-> HearRequest(c)])
    PROVE  /\ field' \in Fields /\ LevelsFit'
           /\ \A c \in Cards :
                 field'[c] = IF c \in cs
                             THEN (IF field[c] = IdleCard THEN Ready(1) ELSE IdleCard)
                             ELSE field[c]
<1>1. field \in Fields
  BY TypeParts
<1>2. \A c \in Cards :
         field'[c] = IF c \in cs
                     THEN (IF field[c] = IdleCard THEN Ready(1) ELSE IdleCard)
                     ELSE field[c]
  BY DEF Hears, HearRequest
<1>3. field' \in Fields
  <2>1. \A c \in Cards : field'[c] \in CardStates
    BY <1>1, <1>2 DEF Fields, CardStates
  <2>2. field' = [c \in Cards |-> field'[c]]
    BY DEF Hears
  <2> QED
    BY <2>1, <2>2 DEF Fields
<1>4. LevelsFit'
  BY <1>2, CardFacts DEF LevelsFit, Ready, IdleCard
<1> QED
  BY <1>2, <1>3, <1>4

LEMMA AfterAnticoll ==
    ASSUME TypeOK, LevelsFit, NEW cs,
           Hears(cs, [c \in Cards |-> HearAnticoll(c, sel.level)])
    PROVE  /\ field' \in Fields /\ LevelsFit'
           /\ \A c \in Cards : \/ field'[c] = field[c]
                               \/ field'[c] = IdleCard /\ c \in cs \ AtLevel(sel.level)
<1>1. field \in Fields
  BY TypeParts
<1>2. \A c \in Cards : \/ field'[c] = field[c]
                       \/ field'[c] = IdleCard /\ c \in cs \ AtLevel(sel.level)
  BY DEF Hears, HearAnticoll, AtLevel
<1>3. field' \in Fields
  <2>1. \A c \in Cards : field'[c] \in CardStates
    BY <1>1, <1>2 DEF Fields, CardStates
  <2>2. field' = [c \in Cards |-> field'[c]]
    BY DEF Hears
  <2> QED
    BY <2>1, <2>2 DEF Fields
<1>4. LevelsFit'
  BY <1>2 DEF LevelsFit, IdleCard
<1> QED
  BY <1>2, <1>3, <1>4

\* A card is selected only if it was at this level and its bytes were sent.
LEMMA AfterSelect ==
    ASSUME TypeOK, LevelsFit, NEW cs,
           Hears(cs, [c \in Cards |-> HearSelect(c, sel.level, sel.data)])
    PROVE  /\ field' \in Fields /\ LevelsFit'
           /\ \A c \in Cards :
                 \/ field'[c] = field[c] /\ c \notin cs
                 \/ /\ field'[c] = IdleCard /\ c \in cs
                    /\ ~(field[c] = Ready(sel.level)
                          /\ LevelBytes(c, sel.level) = sel.data)
                 \/ /\ c \in cs
                    /\ field[c] = Ready(sel.level)
                    /\ LevelBytes(c, sel.level) = sel.data
                    /\ field'[c] = IF sel.level < Levels(c)
                                   THEN Ready(sel.level + 1) ELSE Active
<1>1. field \in Fields /\ sel.level \in 1 .. 3
  BY TypeParts DEF Sels
<1>2. \A c \in Cards :
         \/ field'[c] = field[c] /\ c \notin cs
         \/ /\ field'[c] = IdleCard /\ c \in cs
            /\ ~(field[c] = Ready(sel.level) /\ LevelBytes(c, sel.level) = sel.data)
         \/ /\ c \in cs
            /\ field[c] = Ready(sel.level)
            /\ LevelBytes(c, sel.level) = sel.data
            /\ field'[c] = IF sel.level < Levels(c) THEN Ready(sel.level + 1) ELSE Active
  BY DEF Hears, HearSelect
<1>3. field' \in Fields
  <2>1. ASSUME NEW c \in Cards
        PROVE  field'[c] \in CardStates
    <3>1. field[c] \in CardStates
      BY <1>1 DEF Fields
    <3>2. sel.level < Levels(c) => sel.level + 1 \in 1 .. 3
      BY <1>1, CardFacts
    <3> QED
      BY <1>2, <3>1, <3>2 DEF CardStates
  <2>2. field' = [c \in Cards |-> field'[c]]
    BY DEF Hears
  <2> QED
    BY <2>1, <2>2 DEF Fields
<1>4. LevelsFit'
  <2>1. SUFFICES ASSUME NEW c \in Cards, field'[c].at = "ready"
                 PROVE  field'[c].level <= Levels(c)
    BY DEF LevelsFit
  <2>2. CASE field'[c] = field[c]
    BY <2>1, <2>2 DEF LevelsFit
  <2>3. CASE sel.level < Levels(c) /\ field'[c] = Ready(sel.level + 1)
    BY <1>1, <2>3, CardFacts DEF Ready
  <2> QED
    BY <1>2, <2>1, <2>2, <2>3 DEF IdleCard, Active
<1> QED
  BY <1>2, <1>3, <1>4

\* A card that is meant by a complete frame has the bytes of the frame.
LEMMA MeantWhole ==
    ASSUME TypeOK, LevelsFit, NEW cs, NEW c \in Meant(cs), sel.known >= 32
    PROVE  /\ c \in cs /\ c \in Cards /\ field[c] = Ready(sel.level)
           /\ sel.level <= Levels(c) /\ LevelBytes(c, sel.level) = sel.data
<1>1. /\ c \in cs /\ c \in Cards /\ field[c] = Ready(sel.level)
      /\ SameBits(LevelBytes(c, sel.level), sel.data, sel.known)
  BY DEF Meant, AtLevel
<1>2. sel.level \in 1 .. 3 /\ sel.known = 32
  <2>1. sel \in Sels
    BY TypeParts
  <2>2. sel.level \in 1 .. 3 /\ sel.known \in 0 .. 32
    BY <2>1 DEF Sels
  <2> QED
    BY <2>2
<1>3. sel.level <= Levels(c)
  BY <1>1 DEF LevelsFit, Ready
<1>4. LevelBytes(c, sel.level) \in Level4
  BY <1>1, <1>2, <1>3, LevelType
<1> QED
  BY <1>1, <1>2, <1>3, <1>4, SplicedAll DEF SameBits

\* The level of a card that is meant.
LEMMA MeantLevel ==
    ASSUME TypeOK, LevelsFit, NEW cs, NEW c \in Meant(cs)
    PROVE  /\ c \in cs /\ c \in Cards /\ field[c] = Ready(sel.level)
           /\ sel.level <= Levels(c) /\ LevelBytes(c, sel.level) \in Level4
<1>1. c \in cs /\ c \in Cards /\ field[c] = Ready(sel.level)
  BY DEF Meant, AtLevel
<1>2. sel.level \in 1 .. 3
  BY TypeParts DEF Sels
<1>3. sel.level <= Levels(c)
  BY <1>1 DEF LevelsFit, Ready
<1> QED
  BY <1>1, <1>2, <1>3, LevelType

\* The bytes of a level are copied behind those of the levels before.
LEMMA CopiedFacts ==
    ASSUME TypeOK
    PROVE  /\ Copied \in Uids
           /\ \A i \in 1 .. 3 * (sel.level - 1) : Copied.uidByte[i] = uid.uidByte[i]
           /\ sel.data[1] = PICC_CMD_CT =>
                 \A i \in 1 .. 3 : Copied.uidByte[3 * (sel.level - 1) + i] = sel.data[i + 1]
           /\ sel.data[1] # PICC_CMD_CT =>
                 \A i \in 1 .. 4 : Copied.uidByte[3 * (sel.level - 1) + i] = sel.data[i]
<1> DEFINE from == IF sel.data[1] = PICC_CMD_CT THEN 1 ELSE 0
           n == 4 - from
           base == 3 * (sel.level - 1)
           bytes == [i \in 1 .. 10 |->
                        IF i \in base + 1 .. base + n THEN sel.data[i - base + from]
                        ELSE uid.uidByte[i]]
<1>1. /\ uid \in Uids /\ sel.level \in 1 .. 3 /\ sel.data \in [1 .. 4 -> Byte]
      /\ uid.uidByte \in [1 .. 10 -> Byte]
  BY TypeParts DEF Sels, Uids, Level4
<1>2. Copied = [uid EXCEPT !.uidByte = bytes]
  BY DEF Copied, UidIndex
<1>3. from \in {0, 1} /\ n = 4 - from /\ base \in {0, 3, 6}
  BY <1>1
<1>4. bytes \in [1 .. 10 -> Byte]
  <2> HIDE DEF from, n, base
  <2>1. ASSUME NEW i \in 1 .. 10
        PROVE  bytes[i] \in Byte
    <3>1. i \in base + 1 .. base + n => i - base + from \in 1 .. 4
      BY <1>3
    <3> QED
      BY <1>1, <3>1
  <2> QED
    BY <2>1
<1>5. Copied \in Uids /\ Copied.uidByte = bytes
  <2> HIDE DEF bytes
  <2> QED
    BY <1>1, <1>2, <1>4 DEF Uids
<1>6. \A i \in 1 .. base : bytes[i] = uid.uidByte[i]
  <2> HIDE DEF from, n, base
  <2> QED
    BY <1>3
<1>7. \A i \in 1 .. n : bytes[base + i] = sel.data[i + from]
  <2> HIDE DEF from, n, base
  <2>1. ASSUME NEW i \in 1 .. n
        PROVE  /\ base + i \in 1 .. 10 /\ base + i \in base + 1 .. base + n
               /\ (base + i) - base + from = i + from
    BY <1>3
  <2> QED
    BY <2>1
<1> QED
  BY <1>5, <1>6, <1>7, <1>1

-----------------------------------------------------------------------------
(* What the parts of the invariant need of a step. *)

\* Cards come and go in Come and Leave only.
LEMMA PresentKept ==
    ASSUME field \in Fields, field' \in Fields,
           \A c \in Cards : field'[c] # field[c] =>
                               c \in Present /\ field'[c] # Out
    PROVE  Present' = Present
BY DEF Present

LEMMA StatesDiffer ==
    /\ Out # IdleCard /\ Out # Active /\ IdleCard # Active
    /\ \A l : Ready(l) # Out /\ Ready(l) # IdleCard /\ Ready(l) # Active
    /\ \A l, m : Ready(l) = Ready(m) => l = m
    /\ Out.at # "ready" /\ IdleCard.at # "ready" /\ Active.at # "ready"
    /\ \A l : Ready(l).at = "ready" /\ Ready(l).level = l
<1>1. /\ Out.at = "out" /\ IdleCard.at = "idle" /\ Active.at = "active"
      /\ \A l : Ready(l).at = "ready" /\ Ready(l).level = l
  BY DEF Out, IdleCard, Active, Ready
<1> QED
  BY <1>1

\* Cards that neither go on nor change their mind gather no wrong bytes.
LEMMA GatheredKept ==
    ASSUME Gathered, pc = "select", seen'.left = seen.left,
           sel'.level = sel.level, uid' = uid,
           \A c \in Cards : field'[c] = field[c] \/ field'[c].at # "ready"
    PROVE  Gathered'
BY DEF Gathered, Follows

\* After a poll nobody is left behind in the next one yet.
LEMMA PollIsOver ==
    ASSUME NEW cp \in BOOLEAN, NEW quiet \in BOOLEAN, EndPoll(cp, quiet)
    PROVE  pc' = "request" /\ seen'.left = {} /\ LeftBehind' /\ Gathered'
BY DEF EndPoll, LeftBehind, Gathered

\* A failed poll sends nothing.
LEMMA FailFacts ==
    ASSUME TypeOK, NEW quiet \in BOOLEAN, Fail(quiet)
    PROVE  /\ uid' = uid /\ EndPoll(FALSE, quiet) /\ uid' \in Uids
           /\ pc' = "request" /\ state' = NextState(FALSE) /\ last' = last
           /\ seen'.fair = (seen.fair /\ quiet) /\ seen'.sent = seen.sent
           /\ seen'.left = {} /\ ~seen'.sending
<1>1. uid' = uid /\ EndPoll(FALSE, quiet) /\ uid' \in Uids
  BY TypeParts DEF Fail
<1>2. ~Sends(FALSE)
  BY NothingToSend, TypeParts
<1>3. seen' = [empty |-> IF Present = {} THEN Capped(seen.empty + 1) ELSE 0,
               fair |-> seen.fair /\ quiet, sent |-> seen.sent,
               left |-> {}, sending |-> Sends(FALSE)]
  BY <1>1, <1>2 DEF EndPoll
<1>4. /\ seen'.fair = (seen.fair /\ quiet) /\ seen'.sent = seen.sent
      /\ seen'.left = {} /\ seen'.sending = Sends(FALSE)
  BY <1>3, Zenon
<1>5. pc' = "request" /\ state' = NextState(FALSE) /\ last' = last
  BY <1>1, <1>2 DEF EndPoll
<1> QED
  BY <1>1, <1>2, <1>4, <1>5, Zenon

LEMMA EndPollFair ==
    ASSUME NEW cp, NEW quiet, EndPoll(cp, quiet)
    PROVE  seen'.fair = (seen.fair /\ quiet)
<1>1. seen' = [empty |-> IF Present = {} THEN Capped(seen.empty + 1) ELSE 0,
               fair |-> seen.fair /\ quiet,
               sent |-> IF Sends(cp) THEN Capped(seen.sent + 1) ELSE seen.sent,
               left |-> {}, sending |-> Sends(cp)]
  BY DEF EndPoll
<1> QED
  BY <1>1, Zenon

LEMMA GoOnFacts ==
    ASSUME TypeOK, NEW next, NEW left, NEW quiet \in BOOLEAN, GoOn(next, quiet, left)
    PROVE  /\ pc' = "select" /\ sel' = next /\ state' = state /\ last' = last
           /\ seen'.fair = (seen.fair /\ quiet) /\ seen'.sent = seen.sent
           /\ seen'.left = left /\ seen'.sending = FALSE
<1>1. seen \in Seens
  BY TypeParts
<1> QED
  BY <1>1 DEF GoOn, Seens

\* With noise the card is disturbed.
LEMMA NoisyIsUnfair ==
    ASSUME ~seen'.fair
    PROVE  Fair'
BY DEF Fair

\* The bytes of a card that has followed the poll to its last level are all
\* there.
LEMMA WholeUid ==
    ASSUME IInv, pc = "select", sel.known >= 32,
           NEW cs, NEW c \in Meant(cs), ~(sel.level < Levels(c)),
           uid' = [Copied EXCEPT !.size = 3 * sel.level + 1]
    PROVE  uid' \in Uids /\ (c \notin seen.left => UidBytes = UidOf[c])
<1> DEFINE l == sel.level
           u == UidOf[c]
           f == Copied.uidByte
           base == 3 * (l - 1)
<1>1. /\ c \in Cards /\ field[c] = Ready(l) /\ LevelBytes(c, l) = sel.data /\ l <= Levels(c)
  BY MeantWhole DEF IInv
<1>2. /\ l \in 1 .. 3 /\ Levels(c) = l
      /\ u \in Seq(Byte) /\ Len(u) = 3 * l + 1
  <2>1. l \in 1 .. 3
    BY TypeParts DEF IInv, Sels
  <2> QED
    BY <1>1, <2>1, CardFacts
<1>3. /\ Copied \in Uids
      /\ \A i \in 1 .. base : f[i] = uid.uidByte[i]
      /\ sel.data[1] # PICC_CMD_CT => \A i \in 1 .. 4 : f[base + i] = sel.data[i]
  BY CopiedFacts DEF IInv
<1>4. uid' \in Uids /\ uid'.uidByte = f /\ uid'.size = 3 * l + 1
  <2>1. 3 * l + 1 \in {4, 7, 10}
    BY <1>2
  <2> QED
    BY <1>3, <2>1 DEF Uids
<1>5. /\ UidBytes \in Seq(Byte) /\ Len(UidBytes) = 3 * l + 1
      /\ \A i \in 1 .. 3 * l + 1 : UidBytes[i] = f[i]
  BY <1>4, UidBytesFacts
<1>6. ASSUME c \notin seen.left
      PROVE  UidBytes = u
  <2>1. \A i \in 1 .. base : uid.uidByte[i] = u[i]
    BY <1>1, <1>6, StatesDiffer DEF IInv, Gathered, Follows
  <2>2. sel.data[1] # PICC_CMD_CT /\ \A i \in 1 .. 4 : sel.data[i] = u[base + i]
    BY <1>1, <1>2, LastLevel
  <2>3. \A i \in 1 .. 4 : f[base + i] = u[base + i]
    BY <1>3, <2>2
  <2>4. ASSUME NEW i \in 1 .. 3 * l + 1
        PROVE  f[i] = u[i]
    <3> HIDE DEF f, u
    <3>1. CASE i <= base
      BY <1>2, <1>3, <2>1, <3>1
    <3>2. CASE i > base
      <4>1. i - base \in 1 .. 4 /\ base + (i - base) = i
        BY <1>2, <3>2
      <4> QED
        BY <2>3, <4>1
    <3> QED
      BY <1>2, <3>1, <3>2
  <2> HIDE DEF f, u, l
  <2> QED
    BY <1>2, <1>5, <2>4, SeqEqual
<1> QED
  BY <1>4, <1>6

-----------------------------------------------------------------------------
(* Frame by frame. *)

LEMMA InitHolds == Init => IInv
<1> SUFFICES ASSUME Init
             PROVE  IInv
  OBVIOUS
<1>1. TypeOK
  <2>1. field \in Fields
    BY DEF Init, Fields, CardStates
  <2>2. sel \in Sels
    BY ZerosType DEF Init, Sels
  <2>3. uid \in Uids
    BY DEF Init, Uids, Byte
  <2>4. last \in Seq(Byte) /\ Len(last) \in {0, 4, 7, 10}
    <3>1. CASE last = <<>>
      BY <3>1
    <3>2. CASE last \in {UidOf[c] : c \in Cards}
      BY <3>2, CardAssumption
    <3> QED
      BY <3>1, <3>2 DEF Init
  <2>5. seen \in Seens
    BY DEF Init, Seens
  <2>6. pc \in {"request", "select"} /\ state \in States
    BY DEF Init, States
  <2> QED
    BY <2>1, <2>2, <2>3, <2>4, <2>5, <2>6, TypeParts
<1>2. LevelsFit
  BY StatesDiffer DEF Init, LevelsFit
<1>3. LeftBehind /\ Gathered /\ Fair
  BY DEF Init, LeftBehind, Gathered, Fair
<1> QED
  BY <1>1, <1>2, <1>3 DEF IInv

\* REQA in the quiet: a card that was sent and is selected falls idle, an idle
\* one answers.
LEMMA RequestFair ==
    ASSUME IInv, RequestA(TRUE), Present' = Present
    PROVE  Fair'
<1> SUFFICES ASSUME seen'.fair
             PROVE  \E c \in Cards : Undisturbed(c)'
  BY DEF Fair
<1>1. PICK result \in ResultsOf({c \in Present : field[c] = IdleCard}, TRUE) :
         IF result \in {"OK", "COLLISION"}
         THEN GoOn(NewSelect, TRUE, HalfWay \ Present) /\ UNCHANGED uid
         ELSE Fail(TRUE)
  BY DEF RequestA, Hearing
<1>2. pc = "request" /\ Hears(Present, [c \in Cards |-> HearRequest(c)])
  BY DEF RequestA, Hearing
<1>3. /\ seen.fair /\ seen'.left = {} /\ seen'.sent = seen.sent
      /\ last' = last
  <2>1. CASE result \in {"OK", "COLLISION"}
    <3>1. HalfWay \ Present = {}
      BY StatesDiffer DEF HalfWay, Present, AtLevel
    <3> QED
      BY <1>1, <2>1, <3>1, GoOnFacts DEF IInv
  <2>2. CASE result \notin {"OK", "COLLISION"}
    BY <1>1, <2>2, FailFacts DEF IInv
  <2> QED
    BY <2>1, <2>2
<1>4. PICK c \in Cards : Undisturbed(c)
  BY <1>3 DEF IInv, Fair
<1>5. /\ c \in Present /\ Present = {c}
      /\ field'[c] = IF field[c] = IdleCard THEN Ready(1) ELSE IdleCard
  BY <1>2, <1>4, AfterRequest DEF Undisturbed, IInv
<1>6. ASSUME seen.sent = 1, Repeated(c)
      PROVE  Repeated(c)'
  <2>1. CASE field[c] = Active /\ state \in {"FIRST_SEEN", "REPEAT_2"}
    <3>1. {d \in Present : field[d] = IdleCard} = {}
      BY <1>5, <2>1, StatesDiffer
    <3>2. result = "TIMEOUT"
      <4>1. Cardinality({}) = 0
        BY FS_EmptySet
      <4>2. result = PICC_REQA_or_WUPA(Report("timer", {}, 0, 0))
        BY <1>1, <3>1, <4>1 DEF ResultsOf
      <4> QED
        BY <4>2 DEF PICC_REQA_or_WUPA, PCD_CommunicateWithPICC, Report
    <3>3. Fail(TRUE)
      BY <1>1, <3>2
    <3>4. pc' = "request" /\ state' = NextState(FALSE)
      BY <3>3, FailFacts DEF IInv
    <3>5. state' = "REPEAT_1"
      BY <2>1, <3>4 DEF NextState
    <3>6. field'[c] = IdleCard
      BY <1>5, <2>1, StatesDiffer
    <3> QED
      BY <1>3, <1>6, <3>4, <3>5, <3>6 DEF Repeated
  <2>2. CASE field[c] = IdleCard /\ state = "REPEAT_1"
    <3>1. {d \in Present : field[d] = IdleCard} = {c}
      BY <1>5, <2>2
    <3>2. result = "OK"
      <4>1. Cardinality({c}) = 1 /\ {c} # {}
        BY FS_Singleton
      <4>2. result = PICC_REQA_or_WUPA(Report("done", {}, 2, 0))
        BY <1>1, <3>1, <4>1 DEF ResultsOf
      <4> QED
        BY <4>2 DEF PICC_REQA_or_WUPA, PCD_CommunicateWithPICC, Report
    <3>3. GoOn(NewSelect, TRUE, HalfWay \ Present)
      BY <1>1, <3>2
    <3>4. pc' = "select" /\ sel' = NewSelect /\ state' = state
      BY <3>3, GoOnFacts DEF IInv
    <3>5. sel'.level = 1 /\ sel'.known = 0
      BY <3>4 DEF NewSelect
    <3>6. field'[c] = Ready(1)
      BY <1>5, <2>2
    <3> QED
      BY <1>3, <1>6, <2>2, <3>4, <3>5, <3>6 DEF Repeated, Selectable
  <2> QED
    BY <1>2, <1>6, <2>1, <2>2 DEF Repeated
<1>7. Undisturbed(c)'
  BY <1>3, <1>4, <1>5, <1>6 DEF Undisturbed
<1> QED
  BY <1>7

LEMMA RequestStep ==
    ASSUME IInv, NEW quiet \in BOOLEAN, RequestA(quiet)
    PROVE  IInv'
<1>1. PICK cs \in Hearing(quiet) :
        /\ Hears(cs, [c \in Cards |-> HearRequest(c)])
        /\ \E result \in ResultsOf({c \in cs : field[c] = IdleCard}, quiet) :
              IF result \in {"OK", "COLLISION"}
              THEN GoOn(NewSelect, quiet, HalfWay \ cs) /\ UNCHANGED uid
              ELSE Fail(quiet)
  BY DEF RequestA
<1>2. /\ field' \in Fields /\ LevelsFit'
      /\ \A c \in Cards :
            field'[c] = IF c \in cs
                        THEN (IF field[c] = IdleCard THEN Ready(1) ELSE IdleCard)
                        ELSE field[c]
  BY <1>1, AfterRequest DEF IInv
<1>3. cs \subseteq Present /\ HalfWay \ cs \in SUBSET Cards
  BY DEF Hearing, Present, HalfWay, AtLevel
<1>4. Present' = Present
  BY <1>2, <1>3, StatesDiffer, PresentKept, TypeParts DEF IInv
<1>5. Fair'
  <2>1. CASE quiet
    BY <1>4, <2>1, RequestFair
  <2>2. CASE ~quiet
    BY <1>1, <2>2, FailFacts, GoOnFacts, NoisyIsUnfair DEF IInv
  <2> QED
    BY <2>1, <2>2
<1>6. CASE GoOn(NewSelect, quiet, HalfWay \ cs) /\ UNCHANGED uid
  <2>1. TypeOK'
    <3>1. uid' \in Uids
      BY <1>6, TypeParts DEF IInv
    <3> QED
      BY <1>2, <1>3, <1>6, <3>1, GoOnType, NewSelectType DEF IInv
  <2>2. pc' = "select" /\ sel' = NewSelect /\ seen'.left = HalfWay \ cs
    BY <1>6, GoOnFacts DEF IInv
  <2>3. Gathered'
    <3>1. SUFFICES ASSUME NEW c \in Cards \ seen'.left, field'[c].at = "ready"
                   PROVE  field'[c].level <= 1
      BY <2>2 DEF Gathered, Follows, NewSelect
    <3>2. CASE c \in cs
      BY <1>2, <3>1, <3>2, StatesDiffer
    <3>3. CASE c \notin cs
      <4>1. field'[c] = field[c] /\ c \notin HalfWay
        BY <1>2, <2>2, <3>3
      <4>2. field[c] \in CardStates
        BY TypeParts DEF IInv, Fields
      <4>3. PICK l \in 1 .. 3 : field[c] = Ready(l)
        BY <3>1, <4>1, <4>2, StatesDiffer DEF CardStates
      <4>4. l # 2 /\ l # 3
        BY <4>1, <4>3 DEF HalfWay, AtLevel
      <4> QED
        BY <4>1, <4>3, <4>4, StatesDiffer
    <3> QED
      BY <3>2, <3>3
  <2>4. LeftBehind'
    BY <2>2 DEF LeftBehind
  <2> QED
    BY <1>2, <1>5, <2>1, <2>3, <2>4 DEF IInv
<1>7. CASE Fail(quiet)
  <2>1. EndPoll(FALSE, quiet) /\ uid' \in Uids
    BY <1>7, FailFacts DEF IInv
  <2>2. TypeOK'
    BY <1>2, <2>1, EndPollType DEF IInv
  <2>3. LeftBehind' /\ Gathered'
    BY <2>1, PollIsOver
  <2> QED
    BY <1>2, <1>5, <2>2, <2>3 DEF IInv
<1> QED
  BY <1>1, <1>6, <1>7

\* How an ANTICOLLISION frame ends: the poll is over or the level goes on.
Ends(quiet) ==
    /\ TypeOK' /\ uid' = uid /\ ~seen'.sending
    /\ seen'.fair = (seen.fair /\ quiet) /\ seen'.sent = seen.sent
    /\ \/ EndPoll(FALSE, quiet)
       \/ pc' = "select" /\ sel'.level = sel.level /\ seen'.left = seen.left

LEMMA FailStep ==
    ASSUME TypeOK, field' \in Fields, NEW quiet \in BOOLEAN, Fail(quiet)
    PROVE  Ends(quiet)
<1>1. /\ uid' = uid /\ EndPoll(FALSE, quiet) /\ uid' \in Uids /\ ~seen'.sending
      /\ seen'.fair = (seen.fair /\ quiet) /\ seen'.sent = seen.sent
  BY FailFacts
<1> QED
  BY <1>1, EndPollType DEF Ends

\* Two fields of a record are changed.
LEMMA TwoFieldsChanged ==
    ASSUME NEW D, NEW s \in [level : 1 .. 3, known : 0 .. 32, data : D],
           NEW k \in 0 .. 32, NEW d \in D
    PROVE  LET next == [s EXCEPT !.known = k, !.data = d] IN
           /\ next \in [level : 1 .. 3, known : 0 .. 32, data : D]
           /\ next.level = s.level /\ next.known = k /\ next.data = d
OBVIOUS

LEMMA SelChanged ==
    ASSUME sel \in Sels, NEW k \in 1 .. 32, NEW d \in Level4
    PROVE  LET next == [sel EXCEPT !.known = k, !.data = d] IN
           next \in Sels /\ next.level = sel.level /\ next.known = k /\ next.data = d
<1>1. k \in 0 .. 32
  OBVIOUS
<1>2. sel \in [level : 1 .. 3, known : 0 .. 32, data : Level4]
  BY DEF Sels
<1> QED
  BY <1>1, <1>2, TwoFieldsChanged, Zenon DEF Sels

LEMMA CollidedStep ==
    ASSUME TypeOK, field' \in Fields, NEW k \in 1 .. 32, NEW bytes \in Level4,
           NEW quiet \in BOOLEAN, Collided(k, bytes, quiet)
    PROVE  Ends(quiet)
<1>1. sel \in Sels /\ seen \in Seens /\ uid \in Uids
  BY TypeParts
<1>2. CASE Fail(quiet)
  BY <1>2, FailStep
<1>3. ASSUME NEW next, next = [sel EXCEPT !.known = k,
                   !.data = WithBit(bytes, CollisionIndex(k) - 1, (k - 1) % 8)],
             GoOn(next, quiet, seen.left), uid' = uid
      PROVE  Ends(quiet)
  <2>1. CollisionIndex(k) - 1 \in Int /\ (k - 1) % 8 \in 0 .. 7
    BY DEF CollisionIndex
  <2>2. WithBit(bytes, CollisionIndex(k) - 1, (k - 1) % 8) \in Level4
    BY <2>1, WithBitType
  <2>3. next \in Sels /\ next.level = sel.level
    <3> DEFINE d == WithBit(bytes, CollisionIndex(k) - 1, (k - 1) % 8)
    <3>1. d \in Level4 /\ next = [sel EXCEPT !.known = k, !.data = d]
      BY <1>3, <2>2
    <3> HIDE DEF d
    <3> QED
      BY <1>1, <3>1, SelChanged
  <2>4. seen.left \in SUBSET Cards
    BY <1>1 DEF Seens
  <2>5. TypeOK'
    BY <1>1, <1>3, <2>3, <2>4, GoOnType
  <2> QED
    BY <1>3, <2>3, <2>5, GoOnFacts DEF Ends
<1> QED
  BY <1>2, <1>3 DEF Collided

\* An answer is complete.
LEMMA ReceivedStep ==
    ASSUME TypeOK, field' \in Fields, NEW bytes \in Level4,
           NEW quiet \in BOOLEAN, Received(bytes, quiet)
    PROVE  /\ Ends(quiet) /\ state' = state /\ last' = last
           /\ pc' = "select" /\ sel'.level = sel.level
           /\ sel'.known = 32 /\ sel'.data = bytes
<1> DEFINE next == [sel EXCEPT !.known = 32, !.data = bytes]
<1>1. sel \in Sels /\ seen \in Seens /\ uid \in Uids
  BY TypeParts
<1>2. /\ next \in Sels /\ next.level = sel.level
      /\ next.known = 32 /\ next.data = bytes
  <2>1. ASSUME NEW k \in 1 .. 32
        PROVE  LET changed == [sel EXCEPT !.known = k, !.data = bytes] IN
               /\ changed \in Sels /\ changed.level = sel.level
               /\ changed.known = k /\ changed.data = bytes
    BY <1>1, SelChanged, Zenon
  <2>2. 32 \in 1 .. 32
    OBVIOUS
  <2> QED
    BY <2>1, <2>2, Zenon
<1>3. GoOn(next, quiet, seen.left) /\ uid' = uid
  BY DEF Received
<1>4. seen.left \in SUBSET Cards
  BY <1>1 DEF Seens
<1> HIDE DEF next
<1>5. TypeOK'
  BY <1>1, <1>2, <1>3, <1>4, GoOnType
<1> QED
  BY <1>2, <1>3, <1>5, GoOnFacts DEF Ends

\* What an ANTICOLLISION frame leaves of a poll, if only the types, the cards'
\* states and how it ends are known.
LEMMA AnticollEnds ==
    ASSUME IInv, pc = "select",
           \A c \in Cards : field'[c] = field[c] \/ field'[c] = IdleCard,
           NEW quiet \in BOOLEAN, Ends(quiet)
    PROVE  LeftBehind' /\ Gathered'
<1>1. CASE EndPoll(FALSE, quiet)
  BY <1>1, PollIsOver
<1>2. CASE pc' = "select" /\ sel'.level = sel.level /\ seen'.left = seen.left
  <2>1. Gathered'
    BY <1>2, GatheredKept, StatesDiffer DEF IInv, Ends
  <2> QED
    BY <1>2, <2>1 DEF LeftBehind
<1> QED
  BY <1>1, <1>2 DEF Ends

LEMMA AnticollisionStep ==
    ASSUME IInv, Anticollision
    PROVE  IInv'
<1>1. /\ pc = "select" /\ sel.known < 32
      /\ Hears(Present, [c \in Cards |-> HearAnticoll(c, sel.level)])
  BY DEF Anticollision
<1>2. /\ field' \in Fields /\ LevelsFit'
      /\ \A c \in Cards : \/ field'[c] = field[c]
                          \/ field'[c] = IdleCard /\ c \in Present \ AtLevel(sel.level)
  BY <1>1, AfterAnticoll DEF IInv
<1>3. Present' = Present
  BY <1>2, StatesDiffer, PresentKept, TypeParts DEF IInv
<1>4. sel \in Sels /\ sel.known \in 0 .. 32 /\ sel.data \in Level4
  BY TypeParts DEF IInv, Sels
<1>5. ASSUME NEW c \in Meant(Present)
      PROVE  LevelBytes(c, sel.level) \in Level4
  BY MeantLevel DEF IInv
\* How the frame ends.
<1>6. \/ \E c \in Meant(Present) :
            Received(Spliced(sel.data, LevelBytes(c, sel.level), sel.known), TRUE)
      \/ \E c \in Meant(Present), k \in 1 .. 32 :
            /\ FirstDifference(Meant(Present), k)
            /\ Collided(k, Spliced(LevelBytes(c, sel.level), Zeros, k), TRUE)
      \/ Cardinality(Meant(Present)) # 1 /\ Fail(TRUE)
  BY DEF Anticollision
<1>7. Ends(TRUE)
  <2>1. ASSUME NEW c \in Meant(Present),
               Received(Spliced(sel.data, LevelBytes(c, sel.level), sel.known), TRUE)
        PROVE  Ends(TRUE)
    <3>1. Spliced(sel.data, LevelBytes(c, sel.level), sel.known) \in Level4
      <4>1. LevelBytes(c, sel.level) \in Level4 /\ sel.data \in Level4 /\ sel.known \in Int
        BY <1>4, <1>5
      <4> QED
        BY <4>1, SplicedType, Zenon
    <3> QED
      BY <1>2, <2>1, <3>1, ReceivedStep DEF IInv
  <2>2. ASSUME NEW c \in Meant(Present), NEW k \in 1 .. 32,
               Collided(k, Spliced(LevelBytes(c, sel.level), Zeros, k), TRUE)
        PROVE  Ends(TRUE)
    <3>1. Spliced(LevelBytes(c, sel.level), Zeros, k) \in Level4
      BY <1>5, SplicedType, ZerosType
    <3> QED
      BY <1>2, <2>2, <3>1, CollidedStep DEF IInv
  <2>3. CASE Fail(TRUE)
    BY <1>2, <2>3, FailStep DEF IInv
  <2> QED
    BY <1>6, <2>1, <2>2, <2>3
<1>8. LeftBehind' /\ Gathered'
  BY <1>1, <1>2, <1>7, AnticollEnds
\* A card that is alone answers, and is understood.
<1>9. Fair'
  <2>1. SUFFICES ASSUME seen'.fair
                 PROVE  \E c \in Cards : Undisturbed(c)'
    BY DEF Fair
  <2>2. PICK c \in Cards : Undisturbed(c)
    BY <1>7, <2>1 DEF IInv, Fair, Ends
  <2>3. Present = {c} /\ (field[c].at = "ready" => c \notin seen.left)
    BY <2>2 DEF Undisturbed
  <2>4. field'[c].at = "ready" => c \notin seen'.left
    <3>1. seen'.left = {} \/ seen'.left = seen.left
      BY <1>7, PollIsOver DEF Ends
    <3> QED
      BY <1>2, <2>3, <3>1, StatesDiffer
  <2>5. ASSUME seen.sent = 1, Repeated(c)
        PROVE  Repeated(c)'
    <3>1. /\ state = "REPEAT_1" /\ field[c] = Ready(sel.level) /\ sel.known = 0
          /\ last = UidOf[c]
      BY <1>1, <2>5 DEF Repeated, Selectable
    <3>2. LevelBytes(c, sel.level) \in Level4
      <4>1. sel.level \in 1 .. 3 /\ sel.level <= Levels(c)
        BY <1>4, <3>1, StatesDiffer DEF Sels, IInv, LevelsFit
      <4> QED
        BY <4>1, LevelType
    <3>3. Meant(Present) = {c}
      BY <1>4, <2>3, <3>1, <3>2, SplicedNone DEF Meant, AtLevel, SameBits
    <3>4. Cardinality(Meant(Present)) = 1
      BY <3>3, FS_Singleton
    <3>5. ~\E k \in 1 .. 32 : FirstDifference(Meant(Present), k)
      BY <3>3 DEF FirstDifference
    <3>6. Received(LevelBytes(c, sel.level), TRUE)
      <4>1. Received(Spliced(sel.data, LevelBytes(c, sel.level), sel.known), TRUE)
        BY <1>6, <3>3, <3>4, <3>5
      <4> QED
        BY <3>1, <3>2, <4>1, SplicedNone
    <3>7. /\ state' = state /\ last' = last /\ pc' = "select"
          /\ sel'.level = sel.level /\ sel'.known = 32
          /\ sel'.data = LevelBytes(c, sel.level)
      BY <1>2, <3>2, <3>6, ReceivedStep DEF IInv
    <3>8. field'[c] = field[c]
      BY <1>2, <3>1 DEF AtLevel
    <3> QED
      BY <3>1, <3>7, <3>8 DEF Repeated, Selectable
  <2>6. Undisturbed(c)'
    BY <1>3, <1>7, <2>2, <2>3, <2>4, <2>5 DEF Undisturbed, Ends
  <2> QED
    BY <2>6
<1> QED
  BY <1>2, <1>7, <1>8, <1>9 DEF IInv, Ends

LEMMA NoisyAnticollisionStep ==
    ASSUME IInv, NEW g \in Garbage, NEW p \in GarbledPos, NoisyAnticollision(g, p)
    PROVE  IInv'
<1>1. pc = "select" /\ sel.known < 32
  BY DEF NoisyAnticollision
<1> DEFINE wrong(n) == Spliced(sel.data, [j \in 1 .. 4 |-> g], n)
           position == IF p = 0 THEN 32 ELSE p
<1>2. PICK cs \in SUBSET Present :
        /\ Hears(cs, [c \in Cards |-> HearAnticoll(c, sel.level)])
        /\ \/ Fail(FALSE)
           \/ \E c \in Meant(cs) :
                 Received(Spliced(sel.data, LevelBytes(c, sel.level), sel.known), FALSE)
           \/ \E n \in {sel.known, 8 * (sel.known \div 8)} : Received(wrong(n), FALSE)
           \/ Collided(position, wrong(sel.known), FALSE)
  BY DEF NoisyAnticollision
<1>3. /\ field' \in Fields /\ LevelsFit'
      /\ \A c \in Cards : \/ field'[c] = field[c]
                          \/ field'[c] = IdleCard /\ c \in cs \ AtLevel(sel.level)
  BY <1>2, AfterAnticoll DEF IInv
<1>4. sel \in Sels /\ sel.known \in 0 .. 32 /\ sel.data \in Level4
  BY TypeParts DEF IInv, Sels
<1>5. ASSUME NEW n \in Int
      PROVE  wrong(n) \in Level4
  <2>1. [j \in 1 .. 4 |-> g] \in Level4
    BY CardAssumption DEF Level4
  <2> QED
    BY <1>4, <2>1, SplicedType
<1>6. position \in 1 .. 32
  BY CardAssumption
<1> HIDE DEF wrong, position
<1>7. Ends(FALSE)
  <2>1. ASSUME NEW c \in Meant(cs),
               Received(Spliced(sel.data, LevelBytes(c, sel.level), sel.known), FALSE)
        PROVE  Ends(FALSE)
    <3>1. Spliced(sel.data, LevelBytes(c, sel.level), sel.known) \in Level4
      <4>1. sel.data \in Level4 /\ sel.known \in Int
        BY <1>4
      <4>2. LevelBytes(c, sel.level) \in Level4
        BY MeantLevel DEF IInv
      <4> QED
        BY <4>1, <4>2, SplicedType, Zenon
    <3> QED
      BY <1>3, <2>1, <3>1, ReceivedStep DEF IInv
  <2>2. ASSUME NEW n \in {sel.known, 8 * (sel.known \div 8)}, Received(wrong(n), FALSE)
        PROVE  Ends(FALSE)
    <3>1. n \in Int
      BY <1>4
    <3> QED
      BY <1>3, <1>5, <2>2, <3>1, ReceivedStep DEF IInv
  <2>3. CASE Collided(position, wrong(sel.known), FALSE)
    <3>1. wrong(sel.known) \in Level4
      BY <1>4, <1>5
    <3> QED
      BY <1>3, <1>6, <2>3, <3>1, CollidedStep DEF IInv
  <2>4. CASE Fail(FALSE)
    BY <1>3, <2>4, FailStep DEF IInv
  <2> QED
    BY <1>2, <2>1, <2>2, <2>3, <2>4
<1>8. LeftBehind' /\ Gathered'
  BY <1>1, <1>3, <1>7, AnticollEnds
<1> QED
  BY <1>3, <1>7, <1>8, NoisyIsUnfair DEF IInv, Ends

-----------------------------------------------------------------------------
(* SELECT. *)

\* How a SELECT frame that the cards cs hear ends.
SelectEnds(cs, quiet) ==
    \/ (Meant(cs) = {} \/ ~quiet) /\ Fail(quiet)
    \/ ~quiet /\ uid' = Copied /\ EndPoll(FALSE, FALSE)
    \/ /\ \E c \in Meant(cs) : sel.level < Levels(c)
       /\ uid' = Copied /\ sel.level # 3
       /\ GoOn([sel EXCEPT !.level = @ + 1, !.known = 0], quiet, seen.left)
    \/ /\ Meant(cs) # {} /\ ~\E c \in Meant(cs) : sel.level < Levels(c)
       /\ uid' = [Copied EXCEPT !.size = 3 * sel.level + 1]
       /\ EndPoll(TRUE, quiet)

\* A card has three levels at most: the driver's own check never fails.
LEMMA SelectCases ==
    ASSUME IInv, NEW quiet \in BOOLEAN, Select(quiet)
    PROVE  /\ pc = "select" /\ sel.known >= 32
           /\ \E cs \in Hearing(quiet) :
                 /\ Hears(cs, [c \in Cards |-> HearSelect(c, sel.level, sel.data)])
                 /\ SelectEnds(cs, quiet)
<1>1. PICK cs \in Hearing(quiet) :
        /\ Hears(cs, [c \in Cards |-> HearSelect(c, sel.level, sel.data)])
        /\ \/ (Meant(cs) = {} \/ ~quiet) /\ Fail(quiet)
           \/ ~quiet /\ uid' = Copied /\ EndPoll(FALSE, FALSE)
           \/ /\ Meant(cs) # {} /\ \E c \in Meant(cs) : sel.level < Levels(c)
              /\ uid' = Copied
              /\ IF sel.level = 3 THEN EndPoll(FALSE, quiet)
                 ELSE GoOn([sel EXCEPT !.level = @ + 1, !.known = 0], quiet, seen.left)
           \/ /\ Meant(cs) # {} /\ ~\E c \in Meant(cs) : sel.level < Levels(c)
              /\ uid' = [Copied EXCEPT !.size = 3 * sel.level + 1]
              /\ EndPoll(TRUE, quiet)
  BY DEF Select
<1>2. pc = "select" /\ sel.known >= 32
  BY DEF Select
<1>3. ASSUME NEW c \in Meant(cs), sel.level < Levels(c)
      PROVE  sel.level # 3
  BY <1>3, CardFacts DEF Meant, AtLevel
<1> QED
  BY <1>1, <1>2, <1>3 DEF SelectEnds

LEMMA LevelAndBitsChanged ==
    ASSUME NEW D, NEW s \in [level : 1 .. 3, known : 0 .. 32, data : D],
           NEW m \in 1 .. 3, NEW k \in 0 .. 32
    PROVE  LET next == [s EXCEPT !.level = m, !.known = k] IN
           /\ next \in [level : 1 .. 3, known : 0 .. 32, data : D]
           /\ next.level = m /\ next.known = k
OBVIOUS

\* The next level.
LEMMA NextLevel ==
    ASSUME TypeOK, sel.level # 3
    PROVE  LET next == [sel EXCEPT !.level = @ + 1, !.known = 0] IN
           next \in Sels /\ next.level = sel.level + 1 /\ next.known = 0
<1>2. /\ sel \in [level : 1 .. 3, known : 0 .. 32, data : Level4]
      /\ sel.level + 1 \in 1 .. 3 /\ 0 \in 0 .. 32
  <2>1. sel \in [level : 1 .. 3, known : 0 .. 32, data : Level4]
    BY TypeParts DEF Sels
  <2> QED
    BY <2>1
<1> QED
  BY <1>2, LevelAndBitsChanged, Zenon DEF Sels

\* A card that was sent already is selected again, and not sent again.
LEMMA SelectFair ==
    ASSUME IInv, pc = "select", sel.known >= 32, Present' = Present,
           Hears(Present, [c \in Cards |-> HearSelect(c, sel.level, sel.data)]),
           SelectEnds(Present, TRUE)
    PROVE  Fair'
<1> SUFFICES ASSUME seen'.fair
             PROVE  \E c \in Cards : Undisturbed(c)'
  BY DEF Fair
<1>1. seen \in Seens /\ state \in States /\ sel \in Sels
  BY TypeParts DEF IInv
<1>2. seen.fair
  <2>1. CASE Fail(TRUE)
    BY <2>1, FailFacts DEF IInv
  <2>2. CASE \E cp \in BOOLEAN : EndPoll(cp, TRUE)
    BY <2>2, EndPollFair
  <2>3. CASE \E next : GoOn(next, TRUE, seen.left)
    BY <2>3, GoOnFacts DEF IInv
  <2> QED
    BY <2>1, <2>2, <2>3 DEF SelectEnds
<1>3. PICK c \in Cards : Undisturbed(c)
  BY <1>2 DEF IInv, Fair
<1>4. Present = {c} /\ (field[c].at = "ready" => c \notin seen.left)
  BY <1>3 DEF Undisturbed
<1>5. ASSUME Meant(Present) # {}
      PROVE  /\ Meant(Present) = {c} /\ field[c] = Ready(sel.level)
             /\ LevelBytes(c, sel.level) = sel.data /\ c \notin seen.left
             /\ field'[c] = IF sel.level < Levels(c) THEN Ready(sel.level + 1) ELSE Active
  <2>1. Meant(Present) = {c}
    BY <1>4, <1>5 DEF Meant
  <2>2. field[c] = Ready(sel.level) /\ LevelBytes(c, sel.level) = sel.data
    BY <2>1, MeantWhole DEF IInv
  <2>3. c \in Present
    BY <1>4
  <2> QED
    BY <1>4, <2>1, <2>2, <2>3, AfterSelect, StatesDiffer DEF IInv
<1>6. ASSUME seen.sent = 1, Repeated(c)
      PROVE  /\ state = "REPEAT_1" /\ last = UidOf[c] /\ Meant(Present) # {}
  <2>1. /\ state = "REPEAT_1" /\ last = UidOf[c] /\ field[c] = Ready(sel.level)
        /\ sel.known = 32 /\ sel.data = LevelBytes(c, sel.level)
    BY <1>6 DEF Repeated, Selectable
  <2>2. SameBits(LevelBytes(c, sel.level), sel.data, sel.known)
    <3>1. sel.data \in Level4
      BY <1>1 DEF Sels
    <3> QED
      BY <2>1, <3>1, SplicedAll DEF SameBits
  <2>3. c \in Meant(Present)
    BY <1>4, <2>1, <2>2 DEF Meant, AtLevel
  <2> QED
    BY <2>1, <2>3
<1>7. CASE Meant(Present) = {} /\ Fail(TRUE)
  <2>1. seen.sent = 0
    BY <1>3, <1>6, <1>7 DEF Undisturbed
  <2> QED
    BY <1>4, <1>7, <2>1, FailFacts DEF IInv, Undisturbed
<1>8. CASE /\ \E d \in Meant(Present) : sel.level < Levels(d)
           /\ sel.level # 3
           /\ GoOn([sel EXCEPT !.level = @ + 1, !.known = 0], TRUE, seen.left)
  <2>1. /\ pc' = "select" /\ sel'.level = sel.level + 1 /\ sel'.known = 0
        /\ state' = state /\ last' = last
        /\ seen'.sent = seen.sent /\ seen'.left = seen.left
    <3> DEFINE next == [sel EXCEPT !.level = @ + 1, !.known = 0]
    <3>1. next.level = sel.level + 1 /\ next.known = 0
      BY <1>8, NextLevel DEF IInv
    <3>2. GoOn(next, TRUE, seen.left)
      BY <1>8
    <3> HIDE DEF next
    <3> QED
      BY <3>1, <3>2, GoOnFacts DEF IInv
  <2>2. field'[c] = Ready(sel'.level) /\ c \notin seen'.left
    BY <1>5, <1>8, <2>1
  <2>3. ASSUME seen.sent = 1, Repeated(c)
        PROVE  Repeated(c)'
    BY <1>6, <2>1, <2>2, <2>3 DEF Repeated, Selectable
  <2> QED
    BY <1>3, <1>4, <2>1, <2>2, <2>3 DEF Undisturbed
<1>9. CASE /\ Meant(Present) # {} /\ ~\E d \in Meant(Present) : sel.level < Levels(d)
           /\ uid' = [Copied EXCEPT !.size = 3 * sel.level + 1]
           /\ EndPoll(TRUE, TRUE)
  <2>1. /\ pc' = "request" /\ state' = NextState(TRUE) /\ seen'.left = {}
        /\ last' = IF Sends(TRUE) THEN UidBytes ELSE last
        /\ seen'.sent = IF Sends(TRUE) THEN Capped(seen.sent + 1) ELSE seen.sent
    BY <1>9 DEF EndPoll
  <2>2. UidBytes = UidOf[c]
    BY <1>5, <1>9, WholeUid
  <2>3. field'[c] = Active
    BY <1>5, <1>9
  <2>4. state' \in {"FIRST_SEEN", "REPEAT_2"}
    BY <1>1, <2>1 DEF NextState, States
  <2>5. CASE seen.sent = 0
    <3>1. CASE Sends(TRUE)
      <4>1. seen'.sent = 1 /\ last' = UidOf[c]
        BY <2>1, <2>2, <2>5, <3>1 DEF Capped
      <4> QED
        BY <1>4, <2>1, <2>3, <2>4, <4>1, StatesDiffer DEF Undisturbed, Repeated
    <3>2. CASE ~Sends(TRUE)
      BY <1>4, <2>1, <2>5, <3>2 DEF Undisturbed
    <3> QED
      BY <3>1, <3>2
  <2>6. CASE seen.sent = 1 /\ Repeated(c)
    <3>1. state = "REPEAT_1" /\ last = UidOf[c]
      BY <1>6, <2>6
    <3>2. ~Sends(TRUE)
      BY <2>2, <3>1 DEF Sends, NextState
    <3>3. seen'.sent = 1 /\ last' = UidOf[c]
      BY <2>1, <2>6, <3>1, <3>2
    <3> QED
      BY <1>4, <2>1, <2>3, <2>4, <3>3, StatesDiffer DEF Undisturbed, Repeated
  <2> QED
    BY <1>3, <2>5, <2>6 DEF Undisturbed
<1> QED
  BY <1>7, <1>8, <1>9 DEF SelectEnds

LEMMA SelectStep ==
    ASSUME IInv, NEW quiet \in BOOLEAN, Select(quiet)
    PROVE  IInv'
<1>1. pc = "select" /\ sel.known >= 32
  BY SelectCases
<1>2. PICK cs \in Hearing(quiet) :
        /\ Hears(cs, [c \in Cards |-> HearSelect(c, sel.level, sel.data)])
        /\ SelectEnds(cs, quiet)
  BY SelectCases
<1>3. /\ field' \in Fields /\ LevelsFit'
      /\ \A c \in Cards :
            \/ field'[c] = field[c] /\ c \notin cs
            \/ /\ field'[c] = IdleCard /\ c \in cs
               /\ ~(field[c] = Ready(sel.level) /\ LevelBytes(c, sel.level) = sel.data)
            \/ /\ c \in cs
               /\ field[c] = Ready(sel.level)
               /\ LevelBytes(c, sel.level) = sel.data
               /\ field'[c] = IF sel.level < Levels(c)
                              THEN Ready(sel.level + 1) ELSE Active
  BY <1>2, AfterSelect DEF IInv
<1>4. cs \subseteq Present /\ (quiet => cs = Present)
  BY DEF Hearing
<1>5. Present' = Present
  BY <1>3, <1>4, StatesDiffer, PresentKept, TypeParts DEF IInv
<1>6. sel \in Sels /\ sel.level \in 1 .. 3 /\ seen \in Seens /\ seen.left \in SUBSET Cards
  BY TypeParts DEF IInv, Sels, Seens
<1>7. Fair'
  <2>1. CASE quiet
    BY <1>1, <1>2, <1>4, <1>5, <2>1, SelectFair
  <2>2. CASE ~quiet
    <3>1. ~seen'.fair
      <4>1. CASE Fail(quiet)
        BY <2>2, <4>1, FailFacts DEF IInv
      <4>2. CASE \E cp \in BOOLEAN, q \in {quiet, FALSE} : EndPoll(cp, q)
        BY <2>2, <4>2, EndPollFair
      <4>3. CASE \E next : GoOn(next, quiet, seen.left)
        BY <2>2, <4>3, GoOnFacts DEF IInv
      <4> QED
        BY <1>2, <4>1, <4>2, <4>3 DEF SelectEnds
    <3> QED
      BY <3>1, NoisyIsUnfair
  <2> QED
    BY <2>1, <2>2
<1>8. CASE Fail(quiet)
  <2>1. EndPoll(FALSE, quiet) /\ uid' \in Uids
    BY <1>8, FailFacts DEF IInv
  <2> QED
    BY <1>3, <1>7, <2>1, EndPollType, PollIsOver DEF IInv
<1>9. CASE uid' = Copied /\ EndPoll(FALSE, FALSE)
  <2>1. uid' \in Uids
    BY <1>9, CopiedFacts DEF IInv
  <2> QED
    BY <1>3, <1>7, <1>9, <2>1, EndPollType, PollIsOver DEF IInv
<1>10. CASE /\ uid' = Copied /\ sel.level # 3
            /\ GoOn([sel EXCEPT !.level = @ + 1, !.known = 0], quiet, seen.left)
  <2> DEFINE next == [sel EXCEPT !.level = @ + 1, !.known = 0]
  <2>1. next \in Sels /\ next.level = sel.level + 1
    BY <1>10, NextLevel DEF IInv
  <2>2. GoOn(next, quiet, seen.left)
    BY <1>10
  <2> HIDE DEF next
  <2>3. uid' \in Uids
    BY <1>10, CopiedFacts DEF IInv
  <2>4. TypeOK'
    BY <1>3, <1>6, <2>1, <2>2, <2>3, GoOnType DEF IInv
  <2>5. pc' = "select" /\ sel'.level = sel.level + 1 /\ seen'.left = seen.left
    BY <1>6, <2>1, <2>2, GoOnFacts DEF IInv
  \* Whoever goes on has been sent the bytes that are copied.
  <2>6. ASSUME NEW c \in Cards \ seen.left
        PROVE  Follows(c)'
    <3>1. field[c].at = "ready" => field[c].level \in 1 .. sel.level
      <4>1. field[c] \in CardStates
        BY TypeParts DEF IInv, Fields
      <4>2. field[c].at = "ready" => field[c].level \in 1 .. 3
        BY <4>1, StatesDiffer DEF CardStates
      <4>3. field[c].at = "ready" => field[c].level <= sel.level
        BY <1>1 DEF IInv, Gathered, Follows
      <4> QED
        BY <1>6, <4>2, <4>3
    <3>2. CASE field'[c] = field[c]
      <4>1. field[c].at = "ready" => /\ field[c].level <= sel'.level
                                     /\ field[c].level # sel'.level
        BY <1>6, <2>5, <3>1
      <4> QED
        BY <3>2, <4>1 DEF Follows
    <3>3. CASE field'[c] = IdleCard \/ field'[c] = Active
      BY <3>3, StatesDiffer DEF Follows
    <3>4. CASE /\ sel.level < Levels(c) /\ field'[c] = Ready(sel.level + 1)
               /\ field[c] = Ready(sel.level) /\ LevelBytes(c, sel.level) = sel.data
      <4> DEFINE base == 3 * (sel.level - 1)
                 f == uid'.uidByte
                 u == UidOf[c]
      <4>1. \A i \in 1 .. base : uid.uidByte[i] = u[i]
        BY <1>1, <3>4, StatesDiffer DEF IInv, Gathered, Follows
      <4>2. /\ sel.data[1] = PICC_CMD_CT
            /\ \A i \in 1 .. 3 : sel.data[i + 1] = u[base + i]
        BY <1>6, <3>4, TaggedLevel
      <4>3. /\ \A i \in 1 .. base : f[i] = uid.uidByte[i]
            /\ \A i \in 1 .. 3 : f[base + i] = sel.data[i + 1]
        BY <1>10, <4>2, CopiedFacts DEF IInv
      <4>4. field'[c].level = sel'.level
        BY <2>5, <3>4, StatesDiffer
      <4>5. \A i \in 1 .. 3 : f[base + i] = u[base + i]
        BY <4>2, <4>3
      <4>6. 3 * (sel'.level - 1) = base + 3
        BY <1>6, <2>5
      <4>7. base \in Int /\ sel'.level \in Int
        BY <1>6, <2>5
      <4> HIDE DEF base, f, u
      <4>8. ASSUME NEW i \in 1 .. base + 3
            PROVE  f[i] = u[i]
        <5>1. CASE i <= base
          BY <4>1, <4>3, <4>7, <5>1
        <5>2. CASE i > base
          <6>1. i - base \in 1 .. 3 /\ base + (i - base) = i
            BY <4>7, <5>2
          <6> QED
            BY <4>5, <6>1
        <5> QED
          BY <4>7, <5>1, <5>2
      <4> QED
        BY <4>4, <4>6, <4>7, <4>8 DEF Follows, f, u
    <3> QED
      BY <1>3, <3>2, <3>3, <3>4
  <2>7. LeftBehind' /\ Gathered'
    BY <2>5, <2>6 DEF LeftBehind, Gathered
  <2> QED
    BY <1>3, <1>7, <2>4, <2>7 DEF IInv
<1>11. CASE /\ Meant(cs) # {} /\ ~\E c \in Meant(cs) : sel.level < Levels(c)
            /\ uid' = [Copied EXCEPT !.size = 3 * sel.level + 1]
            /\ EndPoll(TRUE, quiet)
  <2>1. uid' \in Uids
    BY <1>1, <1>11, WholeUid
  <2> QED
    BY <1>3, <1>7, <1>11, <2>1, EndPollType, PollIsOver DEF IInv
<1> QED
  BY <1>2, <1>8, <1>9, <1>10, <1>11 DEF SelectEnds

-----------------------------------------------------------------------------
(* The other steps. *)

LEMMA CrcTimeoutStep ==
    ASSUME IInv, CrcTimeout
    PROVE  IInv'
<1>1. field' = field /\ Fail(FALSE)
  BY DEF CrcTimeout
<1>2. field' \in Fields /\ LevelsFit'
  BY <1>1, TypeParts DEF IInv, LevelsFit
<1>3. EndPoll(FALSE, FALSE) /\ uid' \in Uids /\ seen'.fair = (seen.fair /\ FALSE)
  BY <1>1, FailFacts DEF IInv
<1> QED
  BY <1>2, <1>3, EndPollType, PollIsOver, NoisyIsUnfair DEF IInv

\* The state but for the cards and their history.
LEMMA StaysTyped ==
    ASSUME TypeOK, field' \in Fields, seen' \in Seens,
           last' \in Seq(Byte), Len(last') \in {0, 4, 7, 10},
           UNCHANGED <<pc, sel, uid, state>>
    PROVE  TypeOK'
<1>1. /\ pc' \in {"request", "select"} /\ state' \in States
      /\ sel' \in Sels /\ uid' \in Uids
  BY TypeParts
<1> QED
  BY <1>1 DEF TypeOK, Fields, Sels, Uids, Seens, Level4

\* The history changes.
LEMMA ThreeFieldsChanged ==
    ASSUME NEW D,
           NEW s \in [empty : 0 .. 2, fair : BOOLEAN, sent : 0 .. 2, left : D,
                      sending : BOOLEAN],
           NEW f \in BOOLEAN, NEW n \in 0 .. 2, NEW b \in BOOLEAN
    PROVE  LET next == [s EXCEPT !.fair = f, !.sent = n, !.sending = b] IN
           /\ next \in [empty : 0 .. 2, fair : BOOLEAN, sent : 0 .. 2, left : D,
                        sending : BOOLEAN]
           /\ next.sent = n /\ next.left = s.left /\ next.fair = f
OBVIOUS

LEMMA EmptyChanged ==
    ASSUME NEW D,
           NEW s \in [empty : 0 .. 2, fair : BOOLEAN, sent : 0 .. 2, left : D,
                      sending : BOOLEAN],
           NEW e \in 0 .. 2
    PROVE  [s EXCEPT !.empty = e] \in [empty : 0 .. 2, fair : BOOLEAN, sent : 0 .. 2,
                                      left : D, sending : BOOLEAN]
           /\ [s EXCEPT !.empty = e].left = s.left
OBVIOUS

LEMMA HistoryChanges ==
    ASSUME TypeOK, NEW f \in BOOLEAN,
           \/ seen' = [seen EXCEPT !.fair = f, !.sent = 0, !.sending = FALSE]
           \/ seen' = [seen EXCEPT !.empty = 0, !.fair = f, !.sent = 0, !.sending = FALSE]
    PROVE  /\ seen' \in Seens /\ seen'.sent = 0 /\ seen'.left = seen.left
           /\ seen'.fair = f
<1>1. seen \in [empty : 0 .. 2, fair : BOOLEAN, sent : 0 .. 2, left : SUBSET Cards,
               sending : BOOLEAN]
  BY TypeParts DEF Seens
<1>2. 0 \in 0 .. 2 /\ FALSE \in BOOLEAN
  OBVIOUS
<1>3. ASSUME NEW s, NEW n \in 0 .. 2, NEW b \in BOOLEAN,
             s \in [empty : 0 .. 2, fair : BOOLEAN, sent : 0 .. 2, left : SUBSET Cards,
                   sending : BOOLEAN]
      PROVE  LET next == [s EXCEPT !.fair = f, !.sent = n, !.sending = b] IN
             next \in Seens /\ next.sent = n /\ next.left = s.left /\ next.fair = f
  BY <1>3, ThreeFieldsChanged, Zenon DEF Seens
<1>4. CASE seen' = [seen EXCEPT !.fair = f, !.sent = 0, !.sending = FALSE]
  BY <1>1, <1>2, <1>3, <1>4, Zenon
<1>5. CASE seen' = [seen EXCEPT !.empty = 0, !.fair = f, !.sent = 0, !.sending = FALSE]
  <2> DEFINE s == [seen EXCEPT !.empty = 0]
  <2>1. /\ s \in [empty : 0 .. 2, fair : BOOLEAN, sent : 0 .. 2, left : SUBSET Cards,
                  sending : BOOLEAN]
        /\ s.left = seen.left
    BY <1>1, <1>2, EmptyChanged, Zenon
  <2>2. seen' = [s EXCEPT !.fair = f, !.sent = 0, !.sending = FALSE]
    BY <1>5
  <2> HIDE DEF s
  <2> QED
    BY <1>2, <1>3, <2>1, <2>2, Zenon
<1> QED
  BY <1>4, <1>5

LEMMA ResetReaderStep ==
    ASSUME IInv, ResetReader
    PROVE  IInv'
<1>1. /\ pc = "request" /\ last' = <<>>
      /\ field' = [c \in Cards |-> IF c \in Present THEN IdleCard ELSE Out]
      /\ seen' = [seen EXCEPT !.fair = (Cardinality(Present) = 1), !.sent = 0,
                              !.sending = FALSE]
      /\ UNCHANGED <<pc, sel, uid, state>>
  BY DEF ResetReader
<1>2. field \in Fields /\ seen \in Seens
  BY TypeParts DEF IInv
<1>3. field' \in Fields
  BY <1>1 DEF Fields, CardStates
<1>4. /\ seen' \in Seens /\ seen'.sent = 0 /\ seen'.left = seen.left
      /\ seen'.fair = (Cardinality(Present) = 1)
  <2>1. (Cardinality(Present) = 1) \in BOOLEAN
    OBVIOUS
  <2> QED
    BY <1>1, <2>1, HistoryChanges, Zenon DEF IInv
<1>5. TypeOK'
  BY <1>1, <1>3, <1>4, StaysTyped DEF IInv
<1>6. \A c \in Cards : field'[c].at # "ready"
  BY <1>1, StatesDiffer
<1>7. LevelsFit' /\ LeftBehind' /\ Gathered'
  BY <1>1, <1>4, <1>6 DEF LevelsFit, LeftBehind, Gathered, IInv
<1>8. Fair'
  <2>1. SUFFICES ASSUME Cardinality(Present) = 1
                 PROVE  \E c \in Cards : Undisturbed(c)'
    BY <1>4 DEF Fair
  <2>2. IsFiniteSet(Present)
    <3>1. Present \in SUBSET Cards /\ IsFiniteSet(Cards)
      BY CardAssumption DEF Present
    <3> QED
      BY <3>1, FS_Subset
  <2>3. PICK c : Present = {c}
    BY <2>1, <2>2, FS_Singleton
  <2>4. c \in Cards /\ Present' = {c}
    <3>1. Present' = Present
      BY <1>1, <1>2, <1>3, StatesDiffer, PresentKept DEF Present
    <3> QED
      BY <2>3, <3>1 DEF Present
  <2> QED
    BY <1>4, <1>6, <2>4 DEF Undisturbed
<1> QED
  BY <1>5, <1>7, <1>8 DEF IInv

\* Between frames, cards fall out of what they were doing.
LEMMA OneCardChanges ==
    ASSUME IInv, NEW c \in Cards, NEW to \in {Out, IdleCard},
           field' = [field EXCEPT ![c] = to], seen'.left = seen.left,
           UNCHANGED <<pc, sel, uid>>
    PROVE  field' \in Fields /\ LevelsFit' /\ LeftBehind' /\ Gathered'
<1>1. field \in Fields
  BY TypeParts DEF IInv
<1>2. \A d \in Cards : field'[d] = field[d] \/ field'[d].at # "ready"
  BY <1>1, StatesDiffer DEF Fields
<1>3. field' \in Fields
  BY <1>1 DEF Fields, CardStates
<1>4. LevelsFit' /\ LeftBehind'
  BY <1>2 DEF LevelsFit, LeftBehind, IInv
<1>5. Gathered'
  BY <1>2 DEF Gathered, Follows, IInv
<1> QED
  BY <1>3, <1>4, <1>5

LEMMA ComeStep ==
    ASSUME IInv, NEW c \in Cards, Come(c)
    PROVE  IInv'
<1> DEFINE fair == Present = {} /\ (seen.empty = 2 \/ last # UidOf[c])
<1>1. /\ field[c] = Out /\ field' = [field EXCEPT ![c] = IdleCard]
      /\ seen' = [seen EXCEPT !.fair = fair, !.sent = 0, !.sending = FALSE]
      /\ UNCHANGED <<pc, sel, uid, state, last>>
  BY DEF Come
<1>2. fair \in BOOLEAN /\ (fair => Present = {})
  OBVIOUS
<1> HIDE DEF fair
<1>3. seen \in Seens /\ field \in Fields /\ last \in Seq(Byte) /\ Len(last) \in {0, 4, 7, 10}
  BY TypeParts DEF IInv
<1>4. seen' \in Seens /\ seen'.sent = 0 /\ seen'.left = seen.left /\ seen'.fair = fair
  BY <1>1, <1>2, HistoryChanges, Zenon DEF IInv
<1>5. field' \in Fields /\ LevelsFit' /\ LeftBehind' /\ Gathered'
  BY <1>1, <1>4, OneCardChanges
<1>6. TypeOK'
  BY <1>1, <1>3, <1>4, <1>5, StaysTyped DEF IInv
<1>7. Fair'
  <2>1. SUFFICES ASSUME Present = {}
                 PROVE  Undisturbed(c)'
    BY <1>2, <1>4 DEF Fair
  <2>2. field'[c] = IdleCard /\ \A d \in Cards \ {c} : field'[d] = field[d]
    BY <1>1, <1>3 DEF Fields
  <2>3. Present' = {c}
    BY <2>1, <2>2, StatesDiffer DEF Present
  <2> QED
    BY <1>4, <2>2, <2>3, StatesDiffer DEF Undisturbed
<1> QED
  BY <1>5, <1>6, <1>7 DEF IInv

LEMMA LeaveStep ==
    ASSUME IInv, NEW c \in Cards, Leave(c)
    PROVE  IInv'
<1>1. /\ field' = [field EXCEPT ![c] = Out]
      /\ seen' = [seen EXCEPT !.empty = 0, !.fair = FALSE, !.sent = 0, !.sending = FALSE]
      /\ UNCHANGED <<pc, sel, uid, state, last>>
  BY DEF Leave
<1>2. seen \in Seens /\ last \in Seq(Byte) /\ Len(last) \in {0, 4, 7, 10}
  BY TypeParts DEF IInv
<1>3. seen' \in Seens /\ seen'.left = seen.left /\ ~seen'.fair
  <2>1. FALSE \in BOOLEAN
    OBVIOUS
  <2> QED
    BY <1>1, <2>1, HistoryChanges, Zenon DEF IInv
<1>4. field' \in Fields /\ LevelsFit' /\ LeftBehind' /\ Gathered'
  BY <1>1, <1>3, OneCardChanges
<1>5. TypeOK'
  BY <1>1, <1>2, <1>3, <1>4, StaysTyped DEF IInv
<1> QED
  BY <1>3, <1>4, <1>5, NoisyIsUnfair DEF IInv

LEMMA StutterStep ==
    ASSUME IInv, UNCHANGED vars
    PROVE  IInv'
<1>1. TypeOK'
  BY DEF IInv, vars, TypeOK
<1>2. LevelsFit' /\ LeftBehind' /\ Gathered'
  BY DEF IInv, vars, LevelsFit, LeftBehind, Gathered, Follows
<1>3. Fair'
  BY DEF IInv, vars, Fair, Undisturbed, Repeated, Selectable, Present
<1> QED
  BY <1>1, <1>2, <1>3 DEF IInv

-----------------------------------------------------------------------------
(* The theorems. *)

\* The inductive invariant: the cards that take part in a poll have come no
\* further than it, and the bytes that are gathered are theirs; a card that was
\* sent and is not disturbed is where every second poll selects it again.
THEOREM Invariant == Spec => []IInv
<1>1. Init => IInv
  BY InitHolds
<1>2. IInv /\ [Next]_vars => IInv'
  <2> SUFFICES ASSUME IInv, [Next]_vars
               PROVE  IInv'
    OBVIOUS
  <2>1. CASE UNCHANGED vars
    BY <2>1, StutterStep
  <2>2. ASSUME NEW quiet \in BOOLEAN, RequestA(quiet) \/ Select(quiet)
        PROVE  IInv'
    BY <2>2, RequestStep, SelectStep
  <2>3. CASE Anticollision
    BY <2>3, AnticollisionStep
  <2>4. CASE \E g \in Garbage, p \in GarbledPos : NoisyAnticollision(g, p)
    BY <2>4, NoisyAnticollisionStep
  <2>5. CASE CrcTimeout
    BY <2>5, CrcTimeoutStep
  <2>6. CASE ResetReader
    BY <2>6, ResetReaderStep
  <2>7. CASE \E c \in Cards : Come(c) \/ Leave(c)
    BY <2>7, ComeStep, LeaveStep
  <2> QED
    BY <2>1, <2>2, <2>3, <2>4, <2>5, <2>6, <2>7 DEF Next, Quiet, Noisy
<1> QED
  BY <1>1, <1>2, PTL DEF Spec

\* The state is well-formed whatever the noise, and a card that is brought up
\* and not disturbed is sent without repeats.
THEOREM NoRepeats == Spec => []CardInv
<1>1. IInv => CardInv
  <2> SUFFICES ASSUME IInv
               PROVE  OnlyOnce
    BY DEF CardInv, IInv
  <2>1. ASSUME seen.fair
        PROVE  seen.sent <= 1
    BY <2>1 DEF IInv, Fair, Undisturbed
  <2> QED
    BY <2>1 DEF OnlyOnce
<1> QED
  BY <1>1, Invariant, PTL

\* Whatever the noise and whatever cards come and go between the frames, the
\* UID that is sent is that of a card which is selected at this moment, but for
\* a card that was half-way through an earlier selection.
THEOREM TheSelectedIsSent == Spec => SentIsSelected
<1> DEFINE Sent == seen'.sending =>
                      \E c \in Cards : field'[c] = Active
                                       /\ (UidOf[c] = last' \/ c \in seen.left)
<1>1. IInv /\ [Next]_vars => [Sent]_vars
  <2> SUFFICES ASSUME IInv, Next, seen'.sending
               PROVE  Sent
    BY DEF vars
  <2>1. ASSUME NEW quiet \in BOOLEAN, Fail(quiet)
        PROVE  FALSE
    BY <2>1, FailFacts DEF IInv
  <2>2. ASSUME NEW quiet \in BOOLEAN, EndPoll(FALSE, quiet)
        PROVE  FALSE
    <3>1. ~Sends(FALSE)
      BY NothingToSend, TypeParts DEF IInv
    <3> QED
      BY <2>2, <3>1 DEF EndPoll
  <2>3. ASSUME NEW quiet \in BOOLEAN, \E next, left : GoOn(next, quiet, left)
        PROVE  FALSE
    BY <2>3, GoOnFacts DEF IInv
  <2>4. ASSUME NEW quiet \in BOOLEAN, RequestA(quiet)
        PROVE  FALSE
    BY <2>1, <2>3, <2>4 DEF RequestA
  <2>5. ASSUME Anticollision \/ \E g \in Garbage, p \in GarbledPos : NoisyAnticollision(g, p)
        PROVE  FALSE
    BY <2>1, <2>3, <2>5 DEF Anticollision, NoisyAnticollision, Received, Collided
  <2>6. ASSUME ResetReader \/ \E c \in Cards : Come(c) \/ Leave(c)
        PROVE  FALSE
    <3>1. seen \in Seens
      BY TypeParts DEF IInv
    <3> QED
      BY <2>6, <3>1 DEF ResetReader, Come, Leave, Seens
  <2>7. ASSUME CrcTimeout
        PROVE  FALSE
    BY <2>1, <2>7 DEF CrcTimeout
  <2>8. ASSUME NEW quiet \in BOOLEAN, Select(quiet)
        PROVE  Sent
    <3>1. pc = "select" /\ sel.known >= 32
      BY <2>8, SelectCases
    <3>2. PICK cs \in Hearing(quiet) :
            /\ Hears(cs, [c \in Cards |-> HearSelect(c, sel.level, sel.data)])
            /\ SelectEnds(cs, quiet)
      BY <2>8, SelectCases
    <3>3. /\ Meant(cs) # {} /\ ~\E c \in Meant(cs) : sel.level < Levels(c)
          /\ uid' = [Copied EXCEPT !.size = 3 * sel.level + 1]
          /\ EndPoll(TRUE, quiet)
      BY <2>1, <2>2, <2>3, <3>2 DEF SelectEnds
    <3>4. PICK c \in Meant(cs) : TRUE
      BY <3>3
    <3>5. c \notin seen.left => UidBytes = UidOf[c]
      BY <3>1, <3>3, WholeUid
    <3>6. last' = UidBytes
      <4>1. seen'.sending = Sends(TRUE) /\ last' = IF Sends(TRUE) THEN UidBytes ELSE last
        BY <3>3 DEF EndPoll
      <4> QED
        BY <4>1
    <3>7. /\ c \in Cards /\ c \in cs /\ field[c] = Ready(sel.level)
          /\ LevelBytes(c, sel.level) = sel.data
      BY <3>1, MeantWhole DEF IInv
    <3>8. field'[c] = Active
      BY <3>2, <3>3, <3>7, AfterSelect DEF IInv
    <3> QED
      BY <3>5, <3>6, <3>7, <3>8
  <2> QED
    BY <2>4, <2>5, <2>6, <2>7, <2>8 DEF Next, Quiet, Noisy
<1> QED
  BY <1>1, Invariant, PTL DEF Spec, SentIsSelected

-----------------------------------------------------------------------------
(* A collision. *)

\* Frames whose first n bits are the same, byte by byte.
LEMMA SameBitsIs ==
    ASSUME NEW a \in Level4, NEW b \in Level4, NEW n \in Int
    PROVE  SameBits(a, b, n) <=>
             \A j \in 1 .. 4 :
                /\ n - 8 * (j - 1) >= 8 => a[j] = b[j]
                /\ n - 8 * (j - 1) \in 1 .. 7 =>
                      a[j] % Power(n - 8 * (j - 1)) = b[j] % Power(n - 8 * (j - 1))
<1>1. SameBits(a, b, n) <=> \A j \in 1 .. 4 : Spliced(a, b, n)[j] = b[j]
  <2>1. Spliced(a, b, n) \in Level4
    BY SplicedType
  <2> QED
    BY <2>1 DEF SameBits, Level4
<1>2. ASSUME NEW j \in 1 .. 4
      PROVE  Spliced(a, b, n)[j] = b[j] <=>
                /\ n - 8 * (j - 1) >= 8 => a[j] = b[j]
                /\ n - 8 * (j - 1) \in 1 .. 7 =>
                      a[j] % Power(n - 8 * (j - 1)) = b[j] % Power(n - 8 * (j - 1))
  <2> DEFINE k == n - 8 * (j - 1)
             p == Power(k)
  <2>1. k \in Int /\ a[j] \in 0 .. 255 /\ b[j] \in 0 .. 255
    BY DEF Level4, Byte
  <2>2. Spliced(a, b, n)[j] = IF k >= 8 THEN a[j] ELSE IF k <= 0 THEN b[j]
                              ELSE (a[j] % p) + (b[j] - (b[j] % p))
    BY DEF Spliced
  <2>3. k \in 1 .. 7 => p \in Nat \ {0}
    <3> HIDE DEF k
    <3>1. k \in 1 .. 7 => k \in 0 .. 7
      OBVIOUS
    <3> QED
      BY <3>1, Powers
  <2> HIDE DEF k, p
  <2>4. k \in 1 .. 7 => a[j] % p \in Int /\ b[j] % p \in Int
    BY <2>1, <2>3
  <2>5. Spliced(a, b, n)[j] = b[j] <=>
            (k >= 8 => a[j] = b[j]) /\ (k \in 1 .. 7 => a[j] % p = b[j] % p)
    BY <2>1, <2>2, <2>4
  <2> QED
    BY <2>5 DEF k, p
<1> QED
  BY <1>1, <1>2

\* One bit more of a byte.
LEMMA OneBitMore ==
    ASSUME NEW w \in Byte, NEW m \in 1 .. 6
    PROVE  /\ Power(m) \in 2 .. 64 /\ Power(m + 1) = 2 * Power(m)
           /\ w % Power(m) \in 0 .. Power(m) - 1 /\ (w \div Power(m)) % 2 \in {0, 1}
           /\ (w \div Power(m)) % 2 = 0 => w % Power(m + 1) = w % Power(m)
           /\ (w \div Power(m)) % 2 = 1 => w % Power(m + 1) = (w % Power(m)) + Power(m)
<1> DEFINE Right(p, q) == /\ p \in 2 .. 64 /\ q = 2 * p
                          /\ w % p \in 0 .. p - 1 /\ (w \div p) % 2 \in {0, 1}
                          /\ (w \div p) % 2 = 0 => w % q = w % p
                          /\ (w \div p) % 2 = 1 => w % q = (w % p) + p
<1>1. w \in 0 .. 255
  BY DEF Byte
<1>2. /\ Right(2, 4) /\ Right(4, 8) /\ Right(8, 16)
      /\ Right(16, 32) /\ Right(32, 64) /\ Right(64, 128)
  <2>1. Right(2, 4)
    BY <1>1, SMTT(20)
  <2>2. Right(4, 8)
    BY <1>1, SMTT(20)
  <2>3. Right(8, 16)
    BY <1>1, SMTT(20)
  <2>4. Right(16, 32)
    BY <1>1, SMTT(20)
  <2>5. Right(32, 64)
    BY <1>1, SMTT(20)
  <2>6. Right(64, 128)
    BY <1>1, SMTT(20)
  <2> HIDE DEF Right
  <2> QED
    BY <2>1, <2>2, <2>3, <2>4, <2>5, <2>6
<1>3. /\ m = 1 => Power(m) = 2 /\ Power(m + 1) = 4
      /\ m = 2 => Power(m) = 4 /\ Power(m + 1) = 8
      /\ m = 3 => Power(m) = 8 /\ Power(m + 1) = 16
      /\ m = 4 => Power(m) = 16 /\ Power(m + 1) = 32
      /\ m = 5 => Power(m) = 32 /\ Power(m + 1) = 64
      /\ m = 6 => Power(m) = 64 /\ Power(m + 1) = 128
  BY DEF Power
<1>4. m \in {1, 2, 3, 4, 5, 6}
  OBVIOUS
<1> HIDE DEF Right
<1>5. Right(Power(m), Power(m + 1))
  BY <1>2, <1>3, <1>4, Zenon
<1> QED
  BY <1>5 DEF Right

\* low is x with no bits behind the m-th but the next one; set is low with that
\* one set.
SetsBit(x, m, low, set) ==
    /\ x \in Byte /\ m \in 1 .. 6
    /\ low = x % Power(m + 1)
    /\ (low \div Power(m)) % 2 = 0 => set = low + Power(m)
    /\ (low \div Power(m)) % 2 # 0 => set = low

LEMMA SetIs ==
    ASSUME NEW x, NEW m, NEW low, NEW set, SetsBit(x, m, low, set)
    PROVE  set = (x % Power(m)) + Power(m)
<1> DEFINE p == Power(m)
           r == x % p
<1>1. x \in Byte /\ m \in 1 .. 6
  BY DEF SetsBit
<1>2. p \in 2 .. 64 /\ r \in 0 .. p - 1 /\ (low = r \/ low = r + p)
  <2>1. (x \div p) % 2 \in {0, 1}
    BY <1>1, OneBitMore
  <2>2. p \in 2 .. 64 /\ r \in 0 .. p - 1
    BY <1>1, OneBitMore
  <2>3. (x \div p) % 2 = 0 => low = r
    BY <1>1, OneBitMore DEF SetsBit
  <2>4. (x \div p) % 2 = 1 => low = r + p
    BY <1>1, OneBitMore DEF SetsBit
  <2> HIDE DEF p, r
  <2> QED
    BY <2>1, <2>2, <2>3, <2>4
<1>3. /\ (low \div p) % 2 = 0 => set = low + p
      /\ (low \div p) % 2 # 0 => set = low
  BY DEF SetsBit
<1> HIDE DEF p, r
<1>4. CASE low = r
  <2>1. low \div p = 0
    BY <1>2, <1>4
  <2> QED
    BY <1>2, <1>3, <1>4, <2>1 DEF p, r
<1>5. CASE low = r + p
  <2>1. low \div p = 1
    BY <1>2, <1>5
  <2> QED
    BY <1>2, <1>3, <1>5, <2>1 DEF p, r
<1> QED
  BY <1>2, <1>4, <1>5

\* The bytes that agree with set up to the bit are those that agree with x up to
\* the bit before and have the bit set.
HasBit(x, m, set, y) ==
    set % Power(m + 1) = y % Power(m + 1) <=>
        x % Power(m) = y % Power(m) /\ (y \div Power(m)) % 2 = 1

LEMMA BitIsSet ==
    ASSUME NEW x, NEW m, NEW low, NEW set, SetsBit(x, m, low, set), NEW y \in Byte
    PROVE  HasBit(x, m, set, y)
<1> DEFINE p == Power(m)
           q == Power(m + 1)
           r == x % p
           t == y % p
           bit == (y \div p) % 2
<1>1. x \in Byte /\ m \in 1 .. 6
  BY DEF SetsBit
<1>2. p \in 2 .. 64 /\ q = 2 * p /\ r \in 0 .. p - 1
  BY <1>1, OneBitMore
<1>3. t \in 0 .. p - 1 /\ bit \in {0, 1}
  BY <1>1, OneBitMore
<1>4. bit = 0 => y % q = t
  BY <1>1, OneBitMore
<1>5. bit = 1 => y % q = t + p
  BY <1>1, OneBitMore
<1>6. set = r + p
  BY SetIs
<1> HIDE DEF p, q, r, t, bit
<1>7. set \in 0 .. q - 1 /\ q \in Nat \ {0}
  BY <1>2, <1>6
<1>8. set % q = set
  BY <1>7
<1>9. set % q = y % q <=> r = t /\ bit = 1
  BY <1>2, <1>3, <1>4, <1>5, <1>6, <1>8
<1> QED
  BY <1>9 DEF HasBit, p, q, r, t, bit

\* What the driver stores and sets after a collision at bit k.
Learned(a, k) == WithBit(Spliced(a, Zeros, k), CollisionIndex(k) - 1, (k - 1) % 8)

\* The bits up to the collision are those of a card that took part in it, the
\* bits behind it are zero.
LEMMA KnownBits ==
    ASSUME NEW a \in Level4, NEW k \in 1 .. 31, NEW j \in 1 .. 4
    PROVE  /\ k - 8 * (j - 1) >= 8 => Spliced(a, Zeros, k)[j] = a[j]
           /\ k - 8 * (j - 1) \in 1 .. 7 =>
                 Spliced(a, Zeros, k)[j] = a[j] % Power(k - 8 * (j - 1))
<1> DEFINE n == k - 8 * (j - 1)
           p == Power(n)
<1>1. Spliced(a, Zeros, k)[j] = IF n >= 8 THEN a[j] ELSE IF n <= 0 THEN Zeros[j]
                                ELSE (a[j] % p) + (Zeros[j] - (Zeros[j] % p))
  BY DEF Spliced
<1>2. n \in Int /\ a[j] \in 0 .. 255 /\ Zeros[j] = 0
  BY DEF Level4, Byte, Zeros
<1>3. n \in 1 .. 7 => p \in Nat \ {0}
  <2> HIDE DEF n
  <2>1. n \in 1 .. 7 => n \in 0 .. 7
    OBVIOUS
  <2> QED
    BY <2>1, Powers
<1> HIDE DEF n, p
<1>4. n \in 1 .. 7 => a[j] % p \in Int /\ 0 % p = 0
  BY <1>2, <1>3
<1>5. (n >= 8 => Spliced(a, Zeros, k)[j] = a[j])
      /\ (n \in 1 .. 7 => Spliced(a, Zeros, k)[j] = a[j] % p)
  BY <1>1, <1>2, <1>4
<1> QED
  BY <1>5 DEF n, p

\* The bit that is set, unless it is the first or the last one of a byte: what
\* matches now is what matched up to the bit before and has the bit set.
LEMMA SetBitMatches ==
    ASSUME NEW a \in Level4, NEW d \in Level4, NEW k \in 1 .. 31, k % 8 \notin {0, 1}
    PROVE  SameBits(d, Learned(a, k), k) <=> SameBits(a, d, k - 1) /\ Bit(d, k) = 1
<1> DEFINE bit == (k - 1) % 8
           i == 1 + k \div 8
           s == Spliced(a, Zeros, k)
           next == Learned(a, k)
<1>1. /\ bit \in 1 .. 6 /\ i \in 1 .. 4 /\ k - 8 * (i - 1) = bit + 1
      /\ CollisionIndex(k) - 1 = i /\ 1 + (k - 1) \div 8 = i
  <2>1. \A n \in 1 .. 31 : n % 8 \notin {0, 1} =>
            /\ (n - 1) % 8 \in 1 .. 6 /\ 1 + n \div 8 \in 1 .. 4
            /\ n - 8 * (n \div 8) = ((n - 1) % 8) + 1
            /\ 1 + (n - 1) \div 8 = 1 + n \div 8
    OBVIOUS
  <2> QED
    BY <2>1 DEF CollisionIndex
<1>2. Bit(d, k) = (d[i] \div Power(bit)) % 2
  BY <1>1 DEF Bit
<1>3. s \in Level4
  <2>1. k \in Int
    OBVIOUS
  <2> QED
    BY <2>1, SplicedType, ZerosType, Zenon
<1>4. next = WithBit(s, i, bit)
  BY <1>1 DEF Learned
<1>5. next \in Level4
  <2>1. bit \in 0 .. 7 /\ i \in Int
    BY <1>1
  <2> HIDE DEF s, i, bit, next
  <2> QED
    BY <1>3, <1>4, <2>1, WithBitType
<1>6. s[i] = a[i] % Power(bit + 1)
  <2>1. k - 8 * (i - 1) \in 1 .. 7
    BY <1>1
  <2>2. s[i] = a[i] % Power(k - 8 * (i - 1))
    BY <1>1, <2>1, KnownBits, Zenon
  <2> QED
    BY <1>1, <2>2, Zenon
<1>7. \A j \in 1 .. 4 : k - 8 * (j - 1) >= 8 => s[j] = a[j]
  BY KnownBits, Zenon
<1>8. \A j \in 1 .. 4 \ {i} : next[j] = s[j]
  BY <1>3, <1>4 DEF WithBit, Level4
<1>9. HasBit(a[i], bit, next[i], d[i])
  <2>1. /\ (s[i] \div Power(bit)) % 2 = 0 => next[i] = s[i] + Power(bit)
        /\ (s[i] \div Power(bit)) % 2 # 0 => next[i] = s[i]
    BY <1>1, <1>3, <1>4 DEF WithBit, Level4
  <2>2. a[i] \in Byte /\ d[i] \in Byte
    BY <1>1 DEF Level4
  <2> HIDE DEF i, bit, s, next
  <2>3. SetsBit(a[i], bit, s[i], next[i])
    BY <1>1, <1>6, <2>1, <2>2, Zenon DEF SetsBit
  <2> QED
    BY <2>2, <2>3, BitIsSet, Zenon
\* Byte by byte: the bytes before, the byte of the collision, the bytes behind.
<1>10. ASSUME NEW j \in 1 .. 4
       PROVE  /\ k - 8 * (j - 1) \in 1 .. 7 <=> j = i
              /\ (k - 1) - 8 * (j - 1) \in 1 .. 7 <=> j = i
              /\ k - 8 * (j - 1) >= 8 <=> (k - 1) - 8 * (j - 1) >= 8
              /\ k - 8 * (j - 1) >= 8 => j # i
  <2>1. \A n \in 1 .. 31 : n % 8 \notin {0, 1} =>
           /\ n - 8 * (j - 1) \in 1 .. 7 <=> j = 1 + n \div 8
           /\ (n - 1) - 8 * (j - 1) \in 1 .. 7 <=> j = 1 + n \div 8
           /\ n - 8 * (j - 1) >= 8 <=> (n - 1) - 8 * (j - 1) >= 8
           /\ n - 8 * (j - 1) >= 8 => j # 1 + n \div 8
    OBVIOUS
  <2> QED
    BY <2>1
<1>11. (k - 1) - 8 * (i - 1) = bit
  BY <1>1
<1>12. SameBits(d, next, k) <=>
          /\ \A j \in 1 .. 4 : k - 8 * (j - 1) >= 8 => d[j] = a[j]
          /\ d[i] % Power(bit + 1) = next[i] % Power(bit + 1)
  <2>1. SameBits(d, next, k) <=>
          \A j \in 1 .. 4 :
             /\ k - 8 * (j - 1) >= 8 => d[j] = next[j]
             /\ k - 8 * (j - 1) \in 1 .. 7 =>
                   d[j] % Power(k - 8 * (j - 1)) = next[j] % Power(k - 8 * (j - 1))
    <3>1. k \in Int
      OBVIOUS
    <3> HIDE DEF next
    <3> QED
      BY <1>5, <3>1, SameBitsIs, Zenon
  <2> HIDE DEF i, bit, s, next
  <2>2. \A j \in 1 .. 4 : k - 8 * (j - 1) >= 8 => next[j] = a[j]
    BY <1>7, <1>8, <1>10
  <2>3. (\A j \in 1 .. 4 : k - 8 * (j - 1) \in 1 .. 7 =>
            d[j] % Power(k - 8 * (j - 1)) = next[j] % Power(k - 8 * (j - 1)))
        <=> d[i] % Power(bit + 1) = next[i] % Power(bit + 1)
    BY <1>1, <1>10, Zenon
  <2> QED
    BY <2>1, <2>2, <2>3, Zenon
<1>13. SameBits(a, d, k - 1) <=>
          /\ \A j \in 1 .. 4 : k - 8 * (j - 1) >= 8 => d[j] = a[j]
          /\ a[i] % Power(bit) = d[i] % Power(bit)
  <2>1. SameBits(a, d, k - 1) <=>
          \A j \in 1 .. 4 :
             /\ (k - 1) - 8 * (j - 1) >= 8 => a[j] = d[j]
             /\ (k - 1) - 8 * (j - 1) \in 1 .. 7 =>
                   a[j] % Power((k - 1) - 8 * (j - 1)) = d[j] % Power((k - 1) - 8 * (j - 1))
    <3>1. k - 1 \in Int
      OBVIOUS
    <3> QED
      BY <3>1, SameBitsIs, Zenon
  <2> HIDE DEF i, bit, s, next
  <2>2. (\A j \in 1 .. 4 : (k - 1) - 8 * (j - 1) \in 1 .. 7 =>
            a[j] % Power((k - 1) - 8 * (j - 1)) = d[j] % Power((k - 1) - 8 * (j - 1)))
        <=> a[i] % Power(bit) = d[i] % Power(bit)
    BY <1>1, <1>10, <1>11, Zenon
  <2>3. (\A j \in 1 .. 4 : (k - 1) - 8 * (j - 1) >= 8 => a[j] = d[j])
        <=> \A j \in 1 .. 4 : k - 8 * (j - 1) >= 8 => d[j] = a[j]
    BY <1>10, Zenon
  <2> QED
    BY <2>1, <2>2, <2>3, Zenon
<1> HIDE DEF i, bit, s, next
<1>14. SameBits(d, next, k) <=> SameBits(a, d, k - 1) /\ Bit(d, k) = 1
  BY <1>2, <1>9, <1>12, <1>13, Zenon DEF HasBit
<1> QED
  BY <1>14 DEF next

\* Fewer bits of a byte are a remainder of more of them.
LEMMA LowBits ==
    ASSUME NEW w \in Byte, NEW m \in 1 .. 7, NEW n \in 1 .. 7, m <= n
    PROVE  (w % Power(n)) % Power(m) = w % Power(m)
<1> DEFINE Low(p, q) == (w % q) % p = w % p
<1>1. w \in 0 .. 255
  BY DEF Byte
<1>2. \A p \in {2, 4, 8, 16, 32, 64, 128} : Low(p, p)
  BY <1>1
<1>3. Low(2, 4) /\ Low(2, 8) /\ Low(2, 16) /\ Low(2, 32) /\ Low(2, 64) /\ Low(2, 128)
  BY <1>1, SMTT(20)
<1>4. Low(4, 8) /\ Low(4, 16) /\ Low(4, 32) /\ Low(4, 64) /\ Low(4, 128)
  BY <1>1, SMTT(20)
<1>5. Low(8, 16) /\ Low(8, 32) /\ Low(8, 64) /\ Low(8, 128)
  BY <1>1, SMTT(20)
<1>6. Low(16, 32) /\ Low(16, 64) /\ Low(16, 128) /\ Low(32, 64) /\ Low(32, 128)
      /\ Low(64, 128)
  BY <1>1, SMTT(20)
<1> HIDE DEF Low
<1>7. Low(Power(m), Power(n))
  <2>1. m \in {1, 2, 3, 4, 5, 6, 7} /\ n \in {1, 2, 3, 4, 5, 6, 7}
    OBVIOUS
  <2>2. CASE m = n
    BY <1>2, <2>1, <2>2 DEF Power
  <2>3. CASE m < n
    BY <1>3, <1>4, <1>5, <1>6, <2>1, <2>3 DEF Power
  <2> QED
    BY <2>2, <2>3
<1> QED
  BY <1>7 DEF Low

\* Frames that agree agree in fewer bits as well.
LEMMA FewerBits ==
    ASSUME NEW a \in Level4, NEW b \in Level4, NEW m \in 0 .. 32, NEW n \in 0 .. 32, m <= n,
           SameBits(a, b, n)
    PROVE  SameBits(a, b, m)
<1>1. m \in Int /\ n \in Int
  OBVIOUS
<1> DEFINE of(j) == n - 8 * (j - 1)
           at(j) == m - 8 * (j - 1)
<1>2. \A j \in 1 .. 4 :
         /\ of(j) >= 8 => a[j] = b[j]
         /\ of(j) \in 1 .. 7 => a[j] % Power(of(j)) = b[j] % Power(of(j))
  BY <1>1, SameBitsIs, Zenon
<1>3. ASSUME NEW j \in 1 .. 4
      PROVE  /\ at(j) >= 8 => a[j] = b[j]
             /\ at(j) \in 1 .. 7 => a[j] % Power(at(j)) = b[j] % Power(at(j))
  <2>1. at(j) <= of(j) /\ at(j) \in Int /\ of(j) \in Int
    OBVIOUS
  <2>2. a[j] \in Byte /\ b[j] \in Byte
    BY DEF Level4
  <2> HIDE DEF of, at
  <2>3. CASE of(j) >= 8
    BY <1>2, <2>3
  <2>4. CASE of(j) < 8 /\ at(j) \in 1 .. 7
    <3>1. of(j) \in 1 .. 7 /\ ~(at(j) >= 8)
      BY <2>1, <2>4
    <3>2. a[j] % Power(of(j)) = b[j] % Power(of(j))
      BY <1>2, <3>1, Zenon
    <3>3. (a[j] % Power(of(j))) % Power(at(j)) = a[j] % Power(at(j))
      BY <2>1, <2>2, <2>4, <3>1, LowBits, Zenon
    <3>4. (b[j] % Power(of(j))) % Power(at(j)) = b[j] % Power(at(j))
      BY <2>1, <2>2, <2>4, <3>1, LowBits, Zenon
    <3>5. a[j] % Power(at(j)) = b[j] % Power(at(j))
      BY <3>2, <3>3, <3>4, Zenon
    <3> QED
      BY <3>1, <3>5, Zenon
  <2> QED
    BY <2>1, <2>3, <2>4
<1> HIDE DEF of, at
<1>4. \A j \in 1 .. 4 :
         /\ at(j) >= 8 => a[j] = b[j]
         /\ at(j) \in 1 .. 7 => a[j] % Power(at(j)) = b[j] % Power(at(j))
  BY <1>3, Zenon
<1> QED
  BY <1>1, <1>4, SameBitsIs, Zenon DEF at

\* What agrees with the same frame agrees.
LEMMA BothAgree ==
    ASSUME NEW a \in Level4, NEW b \in Level4, NEW c \in Level4, NEW n \in 0 .. 32,
           SameBits(a, b, n), SameBits(a, c, n)
    PROVE  SameBits(b, c, n)
<1>1. n \in Int
  OBVIOUS
<1> DEFINE of(j) == n - 8 * (j - 1)
<1>2. \A j \in 1 .. 4 :
         /\ of(j) >= 8 => a[j] = b[j]
         /\ of(j) \in 1 .. 7 => a[j] % Power(of(j)) = b[j] % Power(of(j))
  BY <1>1, SameBitsIs, Zenon
<1>3. \A j \in 1 .. 4 :
         /\ of(j) >= 8 => a[j] = c[j]
         /\ of(j) \in 1 .. 7 => a[j] % Power(of(j)) = c[j] % Power(of(j))
  BY <1>1, SameBitsIs, Zenon
<1> HIDE DEF of
<1>4. \A j \in 1 .. 4 :
         /\ of(j) >= 8 => b[j] = c[j]
         /\ of(j) \in 1 .. 7 => b[j] % Power(of(j)) = c[j] % Power(of(j))
  BY <1>2, <1>3, Zenon
<1> QED
  BY <1>1, <1>4, SameBitsIs, Zenon DEF of

\* The bit that is set is not among those that are known, or there is none.
LEMMA OldBitsMatch ==
    ASSUME NEW a \in Level4, NEW k \in 1 .. 31, k = 1 \/ k % 8 = 0
    PROVE  SameBits(a, Learned(a, k), k)
<1> DEFINE m == (k - 1) % 8
           i == CollisionIndex(k) - 1
           s == Spliced(a, Zeros, k)
           x == Learned(a, k)
<1>1. m \in 0 .. 7 /\ i \in Int /\ (\A j \in 1 .. 4 : k - 8 * (j - 1) > 0 => j # i)
  <2>1. \A n \in 1 .. 31 : (n = 1 \/ n % 8 = 0) => n \in {1, 8, 16, 24}
    OBVIOUS
  <2>2. k \in {1, 8, 16, 24}
    BY <2>1
  <2> QED
    BY <2>2 DEF CollisionIndex
<1>2. s \in Level4
  <2>1. k \in Int
    OBVIOUS
  <2> QED
    BY <2>1, SplicedType, ZerosType, Zenon
<1>3. x = WithBit(s, i, m)
  BY DEF Learned
<1> HIDE DEF i, m, s, x
<1>4. x \in Level4
  BY <1>1, <1>2, <1>3, WithBitType
<1>5. \A j \in 1 .. 4 \ {i} : x[j] = s[j]
  BY <1>2, <1>3 DEF WithBit, Level4
<1>6. \A j \in 1 .. 4 :
         /\ k - 8 * (j - 1) >= 8 => a[j] = x[j]
         /\ k - 8 * (j - 1) \in 1 .. 7 =>
               a[j] % Power(k - 8 * (j - 1)) = x[j] % Power(k - 8 * (j - 1))
  <2>1. ASSUME NEW j \in 1 .. 4, k - 8 * (j - 1) >= 8
        PROVE  a[j] = x[j]
    <3>1. x[j] = s[j]
      BY <1>1, <1>5, <2>1
    <3>2. s[j] = a[j]
      BY <2>1, KnownBits, Zenon DEF s
    <3> QED
      BY <3>1, <3>2
  <2>2. ASSUME NEW j \in 1 .. 4, k - 8 * (j - 1) \in 1 .. 7
        PROVE  a[j] % Power(k - 8 * (j - 1)) = x[j] % Power(k - 8 * (j - 1))
    <3> DEFINE n == k - 8 * (j - 1)
               p == Power(n)
    <3>1. x[j] = s[j]
      BY <1>1, <1>5, <2>2
    <3>2. s[j] = a[j] % p
      BY <2>2, KnownBits, Zenon DEF s
    <3>3. a[j] \in 0 .. 255
      BY DEF Level4, Byte
    <3>4. n \in 0 .. 7
      BY <2>2
    <3> HIDE DEF n
    <3>5. p \in Nat \ {0}
      BY <3>4, Powers
    <3> HIDE DEF p
    <3>6. (a[j] % p) % p = a[j] % p
      <4> DEFINE r == a[j] % p
      <4>1. r \in 0 .. p - 1
        BY <3>3, <3>5
      <4> HIDE DEF r
      <4>2. r % p = r
        BY <3>5, <4>1
      <4> QED
        BY <4>2 DEF r
    <3> QED
      BY <3>1, <3>2, <3>6 DEF n, p
  <2> QED
    BY <2>1, <2>2
<1> QED
  <2>1. k \in Int
    OBVIOUS
  <2> QED
    BY <1>4, <1>6, <2>1, SameBitsIs, Zenon DEF x

\* A bit is zero or one; where two differ, one of them is one.
LEMMA BitsDiffer ==
    ASSUME NEW a \in Level4, NEW b \in Level4, NEW k \in 1 .. 32, Bit(a, k) # Bit(b, k)
    PROVE  Bit(a, k) = 1 \/ Bit(b, k) = 1
<1> DEFINE m == (k - 1) % 8
           i == 1 + (k - 1) \div 8
<1>1. m \in 0 .. 7 /\ i \in 1 .. 4
  OBVIOUS
<1>2. Power(m) \in Nat \ {0} /\ a[i] \in 0 .. 255 /\ b[i] \in 0 .. 255
  BY <1>1, Powers DEF Level4, Byte
<1>3. Bit(a, k) = (a[i] \div Power(m)) % 2 /\ Bit(b, k) = (b[i] \div Power(m)) % 2
  BY DEF Bit
<1> HIDE DEF i, m
<1>4. ASSUME NEW u \in 0 .. 255
      PROVE  (u \div Power(m)) % 2 \in {0, 1}
  <2> DEFINE q == u \div Power(m)
  <2>1. q \in Nat
    BY <1>2
  <2> HIDE DEF q
  <2>2. q % 2 \in {0, 1}
    BY <2>1
  <2> QED
    BY <2>2 DEF q
<1>5. Bit(a, k) \in {0, 1} /\ Bit(b, k) \in {0, 1}
  BY <1>2, <1>3, <1>4
<1> QED
  BY <1>5

\* "Choose the PICC with the bit set" (mfrc522.cc:670): after every collision,
\* whatever the cards and wherever they collide, one of them still matches what
\* will be sent next, but for collisions at the first bit of a byte.
THEOREM ACardIsLeft == Spec => CollisionsLeaveACard
<1>1. ASSUME IInv, Anticollision, pc' = "select", sel'.known \notin {32, 9, 17, 25}
      PROVE  Meant(Present)' # {}
  <2> DEFINE meant == Meant(Present)
             bytes(c) == LevelBytes(c, sel.level)
  <2>1. TypeOK /\ LevelsFit /\ field \in Fields /\ sel \in Sels
    BY <1>1, TypeParts DEF IInv
  <2>2. \A c \in meant : c \in Cards /\ c \in Present /\ field[c] = Ready(sel.level)
                         /\ bytes(c) \in Level4
    BY <2>1, MeantLevel
  <2>3. ASSUME NEW quiet, Fail(quiet)
        PROVE  FALSE
    BY <1>1, <2>3 DEF Fail, EndPoll
  <2>4. ASSUME NEW b, Received(b, TRUE)
        PROVE  FALSE
    <3>1. sel' = [sel EXCEPT !.known = 32, !.data = b]
      BY <2>4 DEF Received, GoOn
    <3> QED
      BY <1>1, <2>1, <3>1 DEF Sels
  <2>5. PICK c \in meant, k \in 1 .. 32 :
          /\ FirstDifference(meant, k)
          /\ Collided(k, Spliced(bytes(c), Zeros, k), TRUE)
    BY <1>1, <2>3, <2>4 DEF Anticollision
  <2>6. sel' = [sel EXCEPT !.known = k, !.data = Learned(bytes(c), k)]
    BY <2>3, <2>5 DEF Collided, GoOn, Learned
  <2>7. /\ sel'.level = sel.level /\ sel'.known = k /\ sel'.data = Learned(bytes(c), k)
        /\ k \in 1 .. 31 /\ k \notin {9, 17, 25}
    <3>1. sel'.level = sel.level /\ sel'.known = k /\ sel'.data = Learned(bytes(c), k)
      BY <2>1, <2>6 DEF Sels
    <3> QED
      BY <1>1, <3>1
  \* It is there still.
  <2>8. ASSUME NEW d \in meant, SameBits(bytes(d), Learned(bytes(c), k), k)
        PROVE  Meant(Present)' # {}
    <3>1. field'[d] = field[d]
      <4>1. Hears(Present, [e \in Cards |-> HearAnticoll(e, sel.level)])
        BY <1>1 DEF Anticollision
      <4> QED
        BY <2>2, <4>1 DEF Hears, HearAnticoll
    <3>2. d \in Cards /\ field'[d] = Ready(sel'.level) /\ field'[d] # Out
      BY <2>2, <2>7, <3>1, StatesDiffer
    <3>3. d \in Present' /\ d \in AtLevel(sel.level)'
      BY <2>7, <3>2 DEF Present, AtLevel
    <3>4. SameBits(LevelBytes(d, sel'.level), sel'.data, sel'.known)
      BY <2>7, <2>8
    <3> QED
      BY <2>7, <3>2, <3>3, <3>4 DEF Meant, Present, AtLevel
  <2> HIDE DEF meant, bytes
  <2>9. CASE k % 8 \in {0, 1}
    <3>1. k = 1 \/ k % 8 = 0
      <4>1. \A n \in 1 .. 31 : n % 8 \in {0, 1} /\ n \notin {9, 17, 25} => n = 1 \/ n % 8 = 0
        OBVIOUS
      <4> QED
        BY <2>7, <2>9, <4>1
    <3> QED
      BY <2>2, <2>5, <2>7, <2>8, <3>1, OldBitsMatch
  <2>10. CASE k % 8 \notin {0, 1}
    <3>1. PICK d \in meant : Bit(bytes(d), k) = 1
      BY <2>2, <2>5, BitsDiffer DEF FirstDifference, bytes
    <3>2. SameBits(bytes(c), bytes(d), k - 1)
      BY <2>5 DEF FirstDifference, bytes
    <3> QED
      BY <2>2, <2>5, <2>7, <2>8, <2>10, <3>1, <3>2, SetBitMatches
  <2> QED
    BY <2>9, <2>10
<1>2. IInv /\ [Next]_vars =>
        [Anticollision /\ pc' = "select" /\ sel'.known \notin {32, 9, 17, 25}
           => Meant(Present)' # {}]_vars
  BY <1>1
<1> QED
  BY <1>2, Invariant, PTL DEF Spec, CollisionsLeaveACard
\* The cards that match after a collision inside a byte.
PicksBitSetInside ==
    [][\A k \in 1 .. 31 :
        k % 8 \notin {0, 1} /\ Anticollision /\ pc' = "select" /\ sel'.known = k
          => Meant(Present)' = {c \in Meant(Present) :
                                  Bit(LevelBytes(c, sel.level), k) = 1}]_vars

\* The comment "Choose the PICC with the bit set" (mfrc522.cc:670) is right for
\* three quarters of the collisions: unless the first or the last bit of a byte
\* collided, the cards that match what is sent next are exactly those of the
\* cards that matched which have the bit set, however many cards there are and
\* whatever they send.
THEOREM InsideAByte == Spec => PicksBitSetInside
<1>1. ASSUME IInv, Anticollision, pc' = "select",
             NEW k \in 1 .. 31, k % 8 \notin {0, 1}, sel'.known = k
      PROVE  Meant(Present)' = {d \in Meant(Present) : Bit(LevelBytes(d, sel.level), k) = 1}
  <2> DEFINE meant == Meant(Present)
             bytes(c) == LevelBytes(c, sel.level)
  <2>1. TypeOK /\ LevelsFit /\ field \in Fields /\ sel \in Sels
    BY <1>1, TypeParts DEF IInv
  <2>2. \A c \in meant : c \in Cards /\ c \in Present /\ field[c] = Ready(sel.level)
                         /\ bytes(c) \in Level4
    BY <2>1, MeantLevel
  <2>3. ASSUME NEW quiet, Fail(quiet)
        PROVE  FALSE
    BY <1>1, <2>3 DEF Fail, EndPoll
  <2>4. ASSUME NEW b, Received(b, TRUE)
        PROVE  FALSE
    <3>1. sel' = [sel EXCEPT !.known = 32, !.data = b]
      BY <2>4 DEF Received, GoOn
    <3> QED
      BY <1>1, <2>1, <3>1 DEF Sels
  <2>5. PICK c \in meant, n \in 1 .. 32 :
          /\ FirstDifference(meant, n)
          /\ Collided(n, Spliced(bytes(c), Zeros, n), TRUE)
    BY <1>1, <2>3, <2>4 DEF Anticollision
  <2>6. /\ n > sel.known
        /\ sel' = [sel EXCEPT !.known = n, !.data = Learned(bytes(c), n)]
    <3>1. ~(n <= sel.known)
      BY <2>3, <2>5 DEF Collided
    <3>2. sel' = [sel EXCEPT !.known = n, !.data = Learned(bytes(c), n)]
      BY <2>5, <3>1 DEF Collided, GoOn, Learned
    <3>3. sel.known \in 0 .. 32
      BY <2>1 DEF Sels
    <3> QED
      BY <3>1, <3>2, <3>3
  <2>7. /\ n = k /\ sel.known \in 0 .. k - 1
        /\ sel'.level = sel.level /\ sel'.data = Learned(bytes(c), k)
    <3>1. sel'.level = sel.level /\ sel'.known = n /\ sel'.data = Learned(bytes(c), n)
      BY <2>1, <2>6 DEF Sels
    <3>2. sel.known \in 0 .. 32
      BY <2>1 DEF Sels
    <3> QED
      BY <1>1, <2>6, <3>1, <3>2
  <2>8. Hears(Present, [e \in Cards |-> HearAnticoll(e, sel.level)])
    BY <1>1 DEF Anticollision
  \* Those that wait on are those that waited.
  <2>9. ASSUME NEW d \in Cards
        PROVE  field'[d] = Ready(sel.level) <=> field[d] = Ready(sel.level)
    <3>1. field'[d] = IF d \in Present THEN HearAnticoll(d, sel.level) ELSE field[d]
      BY <2>8 DEF Hears
    <3>2. Ready(sel.level) # Out /\ Ready(sel.level) # IdleCard
      BY StatesDiffer
    <3> QED
      BY <3>1, <3>2 DEF HearAnticoll, Present
  <2>10. ASSUME NEW d
         PROVE  d \in Meant(Present)' <=>
                  /\ d \in Cards /\ field[d] = Ready(sel.level)
                  /\ SameBits(bytes(d), Learned(bytes(c), k), k)
    <3>1. d \in Meant(Present)' <=>
             /\ d \in Cards /\ field'[d] # Out /\ field'[d] = Ready(sel'.level)
             /\ SameBits(LevelBytes(d, sel'.level), sel'.data, sel'.known)
      BY DEF Meant, Present, AtLevel
    <3>2. Ready(sel.level) # Out
      BY StatesDiffer
    <3> QED
      BY <1>1, <2>7, <2>9, <3>1, <3>2
  <2>11. ASSUME NEW d \in Cards, field[d] = Ready(sel.level)
         PROVE  bytes(d) \in Level4
    <3>1. sel.level \in 1 .. 3
      BY <2>1 DEF Sels
    <3>2. field[d].at = "ready" /\ field[d].level = sel.level
      BY <2>11, StatesDiffer
    <3>3. sel.level <= Levels(d)
      BY <2>1, <3>2 DEF LevelsFit
    <3> QED
      BY <3>1, <3>3, LevelType
  <2>12. ASSUME NEW d \in Cards, field[d] = Ready(sel.level), SameBits(bytes(c), bytes(d), k - 1)
         PROVE  d \in meant
    <3> DEFINE a == bytes(c)
               b == bytes(d)
    <3>1. a \in Level4 /\ b \in Level4 /\ sel.data \in Level4
      BY <2>1, <2>2, <2>5, <2>11, <2>12 DEF Sels, Level4
    <3>2. sel.known \in 0 .. 32 /\ k - 1 \in 0 .. 32 /\ sel.known <= k - 1
      BY <2>7
    <3>3. SameBits(a, sel.data, sel.known)
      BY <2>5 DEF Meant
    <3> HIDE DEF a, b
    <3>4. SameBits(a, b, sel.known)
      BY <2>12, <3>1, <3>2, FewerBits DEF a, b
    <3>5. SameBits(b, sel.data, sel.known)
      BY <3>1, <3>2, <3>3, <3>4, BothAgree
    <3>6. Ready(sel.level) # Out
      BY StatesDiffer
    <3> QED
      BY <2>12, <3>5, <3>6 DEF b, Meant, Present, AtLevel
  <2>13. \A d \in meant : SameBits(bytes(c), bytes(d), k - 1)
    BY <2>5, <2>7 DEF FirstDifference
  <2>14. ASSUME NEW d \in Cards, field[d] = Ready(sel.level)
         PROVE  SameBits(bytes(d), Learned(bytes(c), k), k) <=>
                  SameBits(bytes(c), bytes(d), k - 1) /\ Bit(bytes(d), k) = 1
    <3>1. bytes(c) \in Level4 /\ bytes(d) \in Level4
      BY <2>2, <2>5, <2>11, <2>14
    <3> HIDE DEF bytes
    <3> QED
      BY <1>1, <3>1, SetBitMatches
  <2> HIDE DEF meant, bytes
  <2>15. ASSUME NEW d
         PROVE  d \in Meant(Present)' <=> d \in meant /\ Bit(bytes(d), k) = 1
    BY <2>2, <2>10, <2>12, <2>13, <2>14
  <2>16. Meant(Present)' = {d \in meant : Bit(bytes(d), k) = 1}
    BY <2>15
  <2> QED
    BY <2>16 DEF meant, bytes
<1>2. IInv /\ [Next]_vars =>
        [\A k \in 1 .. 31 :
            k % 8 \notin {0, 1} /\ Anticollision /\ pc' = "select" /\ sel'.known = k
              => Meant(Present)' = {c \in Meant(Present) :
                                      Bit(LevelBytes(c, sel.level), k) = 1}]_vars
  BY <1>1
<1> QED
  BY <1>2, Invariant, PTL DEF Spec, PicksBitSetInside
=============================================================================
