------------------------- MODULE TerminalCommandsProofs -------------------------
(***************************************************************************)
(* What a line does to the EEPROM, the baud rate and the display, for      *)
(* every set of lines and of rates, every size of the name and of the      *)
(* count, every width of the display, and a power glitch between any two   *)
(* nibbles or bytes.                                                       *)
(***************************************************************************)
EXTENDS TerminalCommands, SequenceTheorems, FiniteSetTheorems, TLAPS

-----------------------------------------------------------------------------
(* The inductive invariant. *)

Byte == 0 .. 255
Nibble == [rs : BOOLEAN, n : 0 .. 15]

LcdType == [four : BOOLEAN, high : {None} \cup 0 .. 15, font : BOOLEAN,
            addr : 0 .. 127, on : BOOLEAN, cells : [Cells -> Byte]]

Colours == {"red", "green", "blue"}

SeenType == [row : [0 .. 1 -> [1 .. LcdWidth -> Byte]], torn : BOOLEAN, named : BOOLEAN,
             came : Seq(Byte), since : 0 .. CountSize, new : EepromType, talked : SUBSET Rates]

Types ==
    /\ features \in {{"LCD"}, {"LED"}}
    /\ count \in 0 .. CountSize - 1 /\ first \in Byte /\ name_checksum \in SUBSET (0 .. 7)
    /\ ee \in EepromType
    /\ baud \in ValidBauds /\ host \in Rates
    /\ lcd \in LcdType
    /\ bus \in Seq(Nibble)
    /\ leds \in SUBSET Colours
    /\ seen \in SeenType

\* While fewer than CountSize commands came since a name, its count tells how many.
Named ==
    /\ ~seen.named => first = NeverCounted
    /\ seen.named => first \in 0 .. CountSize - 1
    /\ seen.named /\ seen.since < CountSize =>
           first = count - seen.since \/ first = count - seen.since + CountSize

\* A row shows its text from the first character up to the one before the n-th.
ShownUpTo(row, n) ==
    \A i \in 1 .. LcdWidth : i < n => lcd.cells[64 * row + i - 1] = seen.row[row][i]

\* Nothing is on its way.
Ready ==
    /\ bus = <<>> /\ lcd.four /\ lcd.high = None /\ lcd.on
    /\ \A r \in 0 .. 1 : ShownUpTo(r, LcdWidth + 1)

\* The nibbles of LcdInit. The driver cannot know whether the display takes four
\* or eight lines, and before the third nibble it may be either.
Program(m) ==
    CASE m \in 1 .. 2 -> [rs |-> FALSE, n |-> 3]
      [] m = 3 -> [rs |-> FALSE, n |-> 2]
      [] m \in 4 .. 13 -> [rs |-> FALSE, n |-> <<2, 8, 0, 6, 0, 12, 0, 1, 4, 8>>[m - 3]]
      [] OTHER -> [rs |-> TRUE, n |-> LcdInit[m].n]

\* What the display has taken after k of them.
Reached(k) ==
    /\ k = 1 => lcd.high = IF lcd.four THEN 3 ELSE None
    /\ k = 2 => ~lcd.four
    /\ k >= 3 => lcd.four
    /\ k \in {0, 2} \/ (k > 1 /\ k % 2 = 1) => lcd.high = None
    /\ k >= 4 /\ k % 2 = 0 => lcd.high = Program(k).n
    /\ k >= 9 => lcd.on
    /\ k >= 11 => \A a \in Cells : lcd.cells[a] = Space
    /\ k >= 13 => lcd.font

Booting(k) ==
    /\ Len(bus) = 29 - k /\ \A i \in 1 .. 29 - k : bus[i] = Program(k + i)
    /\ \A r \in 0 .. 1 : \A i \in 1 .. LcdWidth : seen.row[r][i] = Space
    /\ Reached(k)

\* The k-th nibble of bytes, of which the upper half goes first.
HalfOf(d, bytes, k) ==
    [rs |-> d, n |-> IF k % 2 = 1 THEN bytes[(k + 1) \div 2] \div 16 ELSE bytes[(k + 1) \div 2] % 16]

\* Those of LcdPrint: the address, then the characters.
Text(row, chars, m) ==
    IF m <= 2 THEN HalfOf(FALSE, <<128 + 64 * row>>, m) ELSE HalfOf(TRUE, chars, m - 2)

Printing(row, k) ==
    /\ Len(bus) = 2 * LcdWidth + 2 - k
    /\ \A i \in 1 .. 2 * LcdWidth + 2 - k : bus[i] = Text(row, seen.row[row], k + i)
    /\ lcd.four /\ lcd.on
    /\ lcd.high = IF k % 2 = 0 THEN None ELSE Text(row, seen.row[row], k).n
    /\ k >= 2 => ~lcd.font /\ lcd.addr = 64 * row + (k \div 2) - 1
    /\ ShownUpTo(row, k \div 2) /\ ShownUpTo(1 - row, LcdWidth + 1)

InStep ==
    \/ Ready
    \/ \E k \in 0 .. 28 : Booting(k)
    \/ \E row \in 0 .. 1, k \in 0 .. 2 * LcdWidth + 1 : Printing(row, k)

Display ==
    /\ ~lcd.four => lcd.high = None
    /\ "LCD" \notin features => bus = <<>>
    /\ "LCD" \in features /\ ~seen.torn => InStep

\* Whatever the lower byte of the rate in the EEPROM is, a valid rate with its
\* upper byte was understood, or the new EEPROM held that byte.
HalfOfNew == {bd \in ValidBauds : Upper(bd) = Upper(seen.new.baud)}

Worked == seen.talked \cup HalfOfNew

UpperWorked ==
    /\ SERIAL_BAUDRATE \in Worked
    /\ \A bd \in ValidBauds : Upper(bd) = Upper(ee.baud) => bd \in Worked

\* The sum is that of the line that came.
Summed == seen.named => name_checksum = Checksum(seen.came)

Kept == UpperWorked /\ NameEnds /\ Summed

IInv == Types /\ Kept /\ Named /\ Display

-----------------------------------------------------------------------------
(* What the driver writes. *)

LEMMA Halves == \A b \in Byte : /\ b \div 16 \in 0 .. 15 /\ b % 16 \in 0 .. 15
                                /\ 16 * (b \div 16) + (b % 16) = b /\ (b \div 16) % 16 = b \div 16
BY DEF Byte

LEMMA Joined == \A h, l \in 0 .. 15 : 16 * h + l \in Byte
BY DEF Byte

LEMMA Concatenated ==
  ASSUME NEW s \in Seq(Nibble), NEW t \in Seq(Nibble)
  PROVE  /\ s \o t \in Seq(Nibble) /\ Len(s \o t) = Len(s) + Len(t)
         /\ \A i \in 1 .. Len(s) + Len(t) :
                (s \o t)[i] = IF i <= Len(s) THEN s[i] ELSE t[i - Len(s)]
OBVIOUS

LEMMA WriteNibbleIs ==
  ASSUME NEW c \in BOOLEAN, NEW d \in BOOLEAN, d # c, NEW b \in Nat
  PROVE  /\ WriteNibble(c, b) \in Seq(Nibble) /\ Len(WriteNibble(c, b)) = 1
         /\ WriteNibble(c, b)[1] = [rs |-> d, n |-> b % 16]
<1>1. b % 16 \in 0 .. 15
  OBVIOUS
<1>2. [rs |-> d, n |-> b % 16] \in Nibble
  BY <1>1 DEF Nibble
<1>3. (~c) = d
  OBVIOUS
<1>4. WriteNibble(c, b) = <<[rs |-> d, n |-> b % 16]>>
  BY <1>3, Zenon DEF WriteNibble
<1> QED
  BY <1>2, <1>4

\* Two nibbles for each byte, the upper half first.
LEMMA WriteBytesIs ==
  ASSUME NEW c \in BOOLEAN, NEW d \in BOOLEAN, d # c, NEW bytes \in Seq(Byte)
  PROVE  /\ WriteBytes(c, bytes) \in Seq(Nibble)
         /\ Len(WriteBytes(c, bytes)) = 2 * Len(bytes)
         /\ \A k \in 1 .. 2 * Len(bytes) : WriteBytes(c, bytes)[k] = HalfOf(d, bytes, k)
<1> DEFINE W == WriteBytes(c, bytes)
<1>1. Len(bytes) \in Nat
  OBVIOUS
<1>2. ASSUME NEW k \in 1 .. 2 * Len(bytes)
      PROVE  /\ bytes[(k + 1) \div 2] \in Byte
             /\ WriteByte(c, bytes[(k + 1) \div 2])[2 - (k % 2)] = HalfOf(d, bytes, k)
  <2>1. (k + 1) \div 2 \in 1 .. Len(bytes)
    BY <1>1
  <2>2. PICK b \in Byte : b = bytes[(k + 1) \div 2]
    BY <2>1
  <2>3. k % 2 = 1 \/ k % 2 = 0
    BY <1>1
  <2>4. /\ WriteByte(c, b)[1] = [rs |-> d, n |-> b \div 16]
        /\ WriteByte(c, b)[2] = [rs |-> d, n |-> b % 16]
    <3>1. b \in Nat /\ b \div 16 \in Nat /\ (b \div 16) % 16 = b \div 16
      BY Halves DEF Byte
    <3>2. /\ WriteNibble(c, b \div 16) \in Seq(Nibble) /\ Len(WriteNibble(c, b \div 16)) = 1
          /\ WriteNibble(c, b) \in Seq(Nibble) /\ Len(WriteNibble(c, b)) = 1
          /\ WriteNibble(c, b \div 16)[1] = [rs |-> d, n |-> b \div 16]
          /\ WriteNibble(c, b)[1] = [rs |-> d, n |-> b % 16]
      BY <3>1, WriteNibbleIs
    <3>3. \A i \in 1 .. 2 : WriteByte(c, b)[i] =
              IF i <= 1 THEN WriteNibble(c, b \div 16)[i] ELSE WriteNibble(c, b)[i - 1]
      BY <3>2, Concatenated DEF WriteByte
    <3> QED
      BY <3>2, <3>3
  <2> QED
    BY <2>2, <2>3, <2>4 DEF HalfOf
<1>3. W = [k \in 1 .. 2 * Len(bytes) |-> HalfOf(d, bytes, k)]
  BY <1>2 DEF WriteBytes
<1>4. \A k \in 1 .. 2 * Len(bytes) : HalfOf(d, bytes, k) \in Nibble
  BY <1>2, Halves DEF Nibble, HalfOf
<1>5. W \in [1 .. 2 * Len(bytes) -> Nibble]
  BY <1>3, <1>4
<1>6. 2 * Len(bytes) \in Nat
  BY <1>1
<1>7. W \in Seq(Nibble)
  BY <1>5, <1>6
<1>8. Len(W) = 2 * Len(bytes)
  BY <1>5, <1>6, <1>7, LenProperties
<1> HIDE DEF W
<1>9. \A k \in 1 .. 2 * Len(bytes) : W[k] = HalfOf(d, bytes, k)
  BY <1>3
<1> QED
  BY <1>7, <1>8, <1>9 DEF W

\* The initialisation is the program of Booting.
LEMMA LcdInitIs ==
  /\ LcdInit \in Seq(Nibble) /\ Len(LcdInit) = 29
  /\ \A m \in 1 .. 29 : LcdInit[m] = Program(m) /\ Program(m) \in Nibble
<1> DEFINE A == WriteNibble(TRUE, 3)
           B == WriteNibble(TRUE, 2)
           AA == A \o A
           Three == AA \o B
           four == <<40, 6, 12, 1>>
           font == <<64 + 8>>
           rows == <<0, 4, 14, 14, 14, 31, 4, 0>>
           Four == WriteBytes(TRUE, four)
           Eleven == Three \o Four
           Font == WriteBytes(TRUE, font)
           Rows == WriteBytes(FALSE, rows)
           Chars == Font \o Rows
           All == Eleven \o Chars
<1>0. LcdInit = All
  BY DEF LcdInit, RegisterFont
<1>1. /\ A \in Seq(Nibble) /\ Len(A) = 1 /\ A[1] = [rs |-> FALSE, n |-> 3 % 16]
      /\ B \in Seq(Nibble) /\ Len(B) = 1 /\ B[1] = [rs |-> FALSE, n |-> 2 % 16]
  BY WriteNibbleIs
<1>2a. /\ four[1] = 40 /\ four[2] = 6 /\ four[3] = 12 /\ four[4] = 1
       /\ font[1] = 72
  OBVIOUS
<1>2b. Len(four) = 4 /\ Len(font) = 1 /\ Len(rows) = 8
  OBVIOUS
<1>2. four \in Seq(Byte) /\ font \in Seq(Byte) /\ rows \in Seq(Byte)
  BY DEF Byte
<1> HIDE DEF four, font, rows
<1>3. /\ Four \in Seq(Nibble) /\ Len(Four) = 8
      /\ \A k \in 1 .. 8 : Four[k] = [rs |-> FALSE, n |-> <<2, 8, 0, 6, 0, 12, 0, 1>>[k]]
  <2>1. Four \in Seq(Nibble) /\ Len(Four) = 2 * Len(four)
    BY <1>2, WriteBytesIs
  <2>1a. \A k \in 1 .. 2 * Len(four) : Four[k] = HalfOf(FALSE, four, k)
    BY <1>2, WriteBytesIs
  <2> HIDE DEF Four
  <2>2. Four \in Seq(Nibble) /\ Len(Four) = 8
    BY <1>2b, <2>1
  <2>2a. 1 .. 2 * Len(four) = 1 .. 8
    BY <1>2b
  <2>3. \A k \in 1 .. 8 : Four[k] = HalfOf(FALSE, four, k)
    BY <2>1a, <2>2a, Zenon
  <2>4. ASSUME NEW k \in 1 .. 8
        PROVE  (IF k % 2 = 1 THEN four[(k + 1) \div 2] \div 16 ELSE four[(k + 1) \div 2] % 16)
                 = <<2, 8, 0, 6, 0, 12, 0, 1>>[k]
    BY <1>2a
  <2> QED
    BY <2>2, <2>3, <2>4 DEF HalfOf
<1>4. /\ Font \in Seq(Nibble) /\ Len(Font) = 2
      /\ Font[1] = [rs |-> FALSE, n |-> 4] /\ Font[2] = [rs |-> FALSE, n |-> 8]
  <2>1. Font \in Seq(Nibble) /\ Len(Font) = 2 * Len(font)
    BY <1>2, WriteBytesIs
  <2>1a. \A k \in 1 .. 2 * Len(font) : Font[k] = HalfOf(FALSE, font, k)
    BY <1>2, WriteBytesIs
  <2> HIDE DEF Font
  <2>2. Font \in Seq(Nibble) /\ Len(Font) = 2
    BY <1>2b, <2>1
  <2>2a. 1 .. 2 * Len(font) = 1 .. 2
    BY <1>2b
  <2>3. \A k \in 1 .. 2 : Font[k] = HalfOf(FALSE, font, k)
    BY <2>1a, <2>2a, Zenon
  <2> QED
    BY <1>2a, <2>2, <2>3 DEF HalfOf
<1>5. /\ Rows \in Seq(Nibble) /\ Len(Rows) = 16 /\ \A k \in 1 .. 16 : Rows[k].rs = TRUE
  <2>1. Rows \in Seq(Nibble) /\ Len(Rows) = 2 * Len(rows)
    BY <1>2, WriteBytesIs
  <2>1a. \A k \in 1 .. 2 * Len(rows) : Rows[k] = HalfOf(TRUE, rows, k)
    BY <1>2, WriteBytesIs
  <2> HIDE DEF Rows
  <2>2. Rows \in Seq(Nibble) /\ Len(Rows) = 16
    BY <1>2b, <2>1
  <2>2a. 1 .. 2 * Len(rows) = 1 .. 16
    BY <1>2b
  <2>3. \A k \in 1 .. 16 : Rows[k] = HalfOf(TRUE, rows, k)
    BY <2>1a, <2>2a, Zenon
  <2> QED
    BY <2>2, <2>3 DEF HalfOf
<1> HIDE DEF A, B, Four, Font, Rows
<1>6. /\ AA \in Seq(Nibble) /\ Len(AA) = Len(A) + Len(A)
      /\ \A k \in 1 .. Len(A) + Len(A) : AA[k] = IF k <= Len(A) THEN A[k] ELSE A[k - Len(A)]
  BY <1>1, Concatenated
<1> HIDE DEF AA
<1>7. /\ Three \in Seq(Nibble) /\ Len(Three) = Len(AA) + Len(B)
      /\ \A k \in 1 .. Len(AA) + Len(B) : Three[k] = IF k <= Len(AA) THEN AA[k] ELSE B[k - Len(AA)]
  BY <1>1, <1>6, Concatenated
<1> HIDE DEF Three
<1>8. /\ Eleven \in Seq(Nibble) /\ Len(Eleven) = Len(Three) + Len(Four)
      /\ \A k \in 1 .. Len(Three) + Len(Four) :
            Eleven[k] = IF k <= Len(Three) THEN Three[k] ELSE Four[k - Len(Three)]
  BY <1>3, <1>7, Concatenated
<1> HIDE DEF Eleven
<1>9. /\ Chars \in Seq(Nibble) /\ Len(Chars) = Len(Font) + Len(Rows)
      /\ \A k \in 1 .. Len(Font) + Len(Rows) :
            Chars[k] = IF k <= Len(Font) THEN Font[k] ELSE Rows[k - Len(Font)]
  BY <1>4, <1>5, Concatenated
<1> HIDE DEF Chars
<1>10. /\ All \in Seq(Nibble) /\ Len(All) = Len(Eleven) + Len(Chars)
       /\ \A k \in 1 .. Len(Eleven) + Len(Chars) :
            All[k] = IF k <= Len(Eleven) THEN Eleven[k] ELSE Chars[k - Len(Eleven)]
  BY <1>8, <1>9, Concatenated
<1> HIDE DEF All
<1>11. Len(AA) = 2 /\ AA[1] = A[1] /\ AA[2] = A[1]
  BY <1>1, <1>6
<1>12. Len(Three) = 3 /\ Three[1] = A[1] /\ Three[2] = A[1] /\ Three[3] = B[1]
  BY <1>1, <1>7, <1>11
<1>13. /\ Len(Eleven) = 11 /\ \A k \in 1 .. 3 : Eleven[k] = Three[k]
       /\ \A k \in 4 .. 11 : Eleven[k] = Four[k - 3]
  BY <1>3, <1>8, <1>12
<1>14. /\ Len(Chars) = 18 /\ Chars[1] = Font[1] /\ Chars[2] = Font[2]
       /\ \A k \in 3 .. 18 : Chars[k] = Rows[k - 2]
  BY <1>4, <1>5, <1>9
<1>15. /\ Len(All) = 29 /\ \A k \in 1 .. 11 : All[k] = Eleven[k]
       /\ \A k \in 12 .. 29 : All[k] = Chars[k - 11]
  BY <1>10, <1>13, <1>14
<1>16. ASSUME NEW m \in 1 .. 29 PROVE All[m] = Program(m)
  <2>0. A[1] = [rs |-> FALSE, n |-> 3] /\ B[1] = [rs |-> FALSE, n |-> 2]
    <3>1. 3 % 16 = 3 /\ 2 % 16 = 2
      OBVIOUS
    <3> QED
      BY <1>1, <3>1, Zenon
  <2>1. CASE m \in 1 .. 3
    <3>1. All[1] = A[1] /\ All[2] = A[1] /\ All[3] = B[1]
      BY <1>12, <1>13, <1>15
    <3> QED
      BY <2>0, <2>1, <3>1 DEF Program
  <2>2. CASE m \in 4 .. 11
    <3>1. All[m] = Four[m - 3] /\ m - 3 \in 1 .. 8
      BY <2>2, <1>13, <1>15
    <3>2. \A k \in 1 .. 8 : <<2, 8, 0, 6, 0, 12, 0, 1>>[k] = <<2, 8, 0, 6, 0, 12, 0, 1, 4, 8>>[k]
      OBVIOUS
    <3>3. All[m] = [rs |-> FALSE, n |-> <<2, 8, 0, 6, 0, 12, 0, 1, 4, 8>>[m - 3]]
      BY <3>1, <3>2, <1>3, Zenon
    <3> QED
      BY <2>2, <3>3 DEF Program
  <2>3. CASE m \in 12 .. 13
    <3>1. All[12] = [rs |-> FALSE, n |-> 4] /\ All[13] = [rs |-> FALSE, n |-> 8]
      <4>1. All[12] = Font[1] /\ All[13] = Font[2]
        BY <1>14, <1>15
      <4> QED
        BY <4>1, <1>4, Zenon
    <3>2. /\ Program(12) = [rs |-> FALSE, n |-> 4]
          /\ Program(13) = [rs |-> FALSE, n |-> 8]
      BY DEF Program
    <3>3. m = 12 \/ m = 13
      BY <2>3
    <3> QED
      BY <3>1, <3>2, <3>3, Zenon
  <2>4. CASE m \in 14 .. 29
    <3>1. All[m] = Rows[m - 13] /\ m - 13 \in 1 .. 16
      BY <2>4, <1>14, <1>15
    <3>2. All[m] \in Nibble /\ All[m].rs = TRUE
      BY <3>1, <1>5, ElementOfSeq
    <3>3. All[m] = [rs |-> TRUE, n |-> All[m].n]
      BY <3>2 DEF Nibble
    <3>4. Program(m) = [rs |-> TRUE, n |-> LcdInit[m].n]
      BY <2>4 DEF Program
    <3> QED
      BY <3>3, <3>4, <1>0, Zenon
  <2> QED
    BY <2>1, <2>2, <2>3, <2>4
<1>17. \A m \in 1 .. 29 : All[m] \in Nibble
  <2>1. All \in Seq(Nibble) /\ 1 .. Len(All) = 1 .. 29
    BY <1>10, <1>15
  <2> QED
    BY <2>1, ElementOfSeq
<1> QED
  BY <1>0, <1>10, <1>15, <1>16, <1>17

LEMMA Widths == /\ LcdWidth \in 1 .. 64 /\ RowSize \in 1 .. 64 /\ LcdWidth <= RowSize
                /\ \A r \in 0 .. 1, i \in 1 .. LcdWidth : 64 * r + i - 1 \in Cells
BY LcdAssumption DEF Cells

\* A text, cut or filled up.
LEMMA RowIs ==
  ASSUME NEW str \in Seq(Byte)
  PROVE  Row(str) \in [1 .. LcdWidth -> Byte] /\ Row(str) \in Seq(Byte) /\ Len(Row(str)) = LcdWidth
<1>1. \A i \in 1 .. LcdWidth : i <= Len(str) => str[i] \in Byte
  BY Widths
<1>2. Row(str) \in [1 .. LcdWidth -> Byte]
  BY <1>1 DEF Row, Space, Byte
<1>3. LcdWidth \in Nat
  BY Widths
<1> QED
  BY <1>2, <1>3

LEMMA LcdPrintIs ==
  ASSUME NEW row \in 0 .. 1, NEW str \in Seq(Byte)
  PROVE  /\ LcdPrint(row, str) \in Seq(Nibble)
         /\ Len(LcdPrint(row, str)) = 2 * LcdWidth + 2
         /\ \A m \in 1 .. 2 * LcdWidth + 2 : LcdPrint(row, str)[m] = Text(row, Row(str), m)
<1> DEFINE place == <<128 + 64 * row>>
           P == WriteBytes(TRUE, place)
           C == WriteBytes(FALSE, Row(str))
           All == P \o C
<1>0. LcdPrint(row, str) = All
  <2>1. ~(row > 1)
    OBVIOUS
  <2> QED
    BY <2>1, Zenon DEF LcdPrint
<1>1. place \in Seq(Byte) /\ Len(place) = 1
  BY DEF Byte
<1>2. \A m : Text(row, Row(str), m) = IF m <= 2 THEN HalfOf(FALSE, place, m) ELSE HalfOf(TRUE, Row(str), m - 2)
  BY DEF Text
<1> HIDE DEF place
<1>3. /\ P \in Seq(Nibble) /\ Len(P) = 2 * Len(place)
      /\ \A k \in 1 .. 2 * Len(place) : P[k] = HalfOf(FALSE, place, k)
  BY <1>1, WriteBytesIs
<1>4. /\ C \in Seq(Nibble) /\ Len(C) = 2 * Len(Row(str))
      /\ \A k \in 1 .. 2 * Len(Row(str)) : C[k] = HalfOf(TRUE, Row(str), k)
  BY RowIs, WriteBytesIs
<1> HIDE DEF P, C
<1>5. /\ All \in Seq(Nibble) /\ Len(All) = Len(P) + Len(C)
      /\ \A k \in 1 .. Len(P) + Len(C) : All[k] = IF k <= Len(P) THEN P[k] ELSE C[k - Len(P)]
  BY <1>3, <1>4, Concatenated
<1> HIDE DEF All
<1>6. Len(P) = 2 /\ 1 .. 2 * Len(place) = 1 .. 2
  BY <1>1, <1>3
<1>7. Len(C) = 2 * LcdWidth /\ 1 .. 2 * Len(Row(str)) = 1 .. 2 * LcdWidth /\ LcdWidth \in Nat
  BY <1>4, RowIs, Widths
<1>8. Len(All) = 2 * LcdWidth + 2
  BY <1>5, <1>6, <1>7
<1>9. ASSUME NEW m \in 1 .. 2 * LcdWidth + 2 PROVE All[m] = Text(row, Row(str), m)
  <2>1. All[m] = IF m <= 2 THEN P[m] ELSE C[m - 2]
    BY <1>5, <1>6, <1>7
  <2>2. CASE m <= 2
    <3>1. m \in 1 .. 2
      BY <1>7, <2>2
    <3> QED
      BY <2>1, <2>2, <3>1, <1>2, <1>3, <1>6, Zenon
  <2>3. CASE ~(m <= 2)
    <3>1. m - 2 \in 1 .. 2 * LcdWidth
      BY <1>7, <2>3
    <3> QED
      BY <2>1, <2>3, <3>1, <1>2, <1>4, <1>7, Zenon
  <2> QED
    BY <2>2, <2>3
<1> QED
  BY <1>0, <1>5, <1>8, <1>9

-----------------------------------------------------------------------------
(* What the display takes. *)

LEMMA ClearType ==
  ASSUME NEW d \in LcdType, NEW a \in 0 .. 127, NEW t \in BOOLEAN, NEW cells \in [Cells -> Byte]
  PROVE  /\ [d EXCEPT !.addr = a, !.font = t, !.cells = cells] \in LcdType
         /\ [d EXCEPT !.addr = a, !.font = t, !.cells = cells].high = d.high
BY DEF LcdType

LEMMA AddrType ==
  ASSUME NEW d \in LcdType, NEW a \in 0 .. 127, NEW t \in BOOLEAN
  PROVE  [d EXCEPT !.addr = a, !.font = t] \in LcdType /\ [d EXCEPT !.addr = a, !.font = t].high = d.high
BY DEF LcdType

LEMMA FontType ==
  ASSUME NEW d \in LcdType, NEW t \in BOOLEAN
  PROVE  [d EXCEPT !.font = t] \in LcdType /\ [d EXCEPT !.font = t].high = d.high
BY DEF LcdType

LEMMA FourType ==
  ASSUME NEW d \in LcdType, NEW t \in BOOLEAN
  PROVE  [d EXCEPT !.four = t] \in LcdType /\ [d EXCEPT !.four = t].high = d.high
BY DEF LcdType

LEMMA OnType ==
  ASSUME NEW d \in LcdType, NEW t \in BOOLEAN
  PROVE  [d EXCEPT !.on = t] \in LcdType /\ [d EXCEPT !.on = t].high = d.high
BY DEF LcdType

LEMMA ExecuteType ==
  ASSUME NEW d \in LcdType, NEW rs \in BOOLEAN, NEW b \in Byte
  PROVE  Execute(d, rs, b) \in LcdType /\ Execute(d, rs, b).high = d.high
<1>1. CASE rs
  <2>1. d.addr \in Cells => NextAddr(d.addr) \in 0 .. 127
    BY Widths DEF NextAddr, LcdType
  <2> QED
    BY <1>1, <2>1 DEF Execute, Data, LcdType
<1>2. CASE ~rs
  <2>1. [a \in Cells |-> Space] \in [Cells -> Byte]
    BY DEF Space, Byte
  <2>2. b >= 128 => b - 128 \in 0 .. 127
    BY DEF Byte
  <2>0. Execute(d, rs, b) = Instruction(d, b)
    BY <1>2 DEF Execute
  <2>3. CASE b >= 128
    <3>1. Instruction(d, b) = [d EXCEPT !.addr = b - 128, !.font = FALSE]
      BY <2>3 DEF Instruction
    <3>2. /\ [d EXCEPT !.addr = b - 128, !.font = FALSE] \in LcdType
          /\ [d EXCEPT !.addr = b - 128, !.font = FALSE].high = d.high
      BY <2>2, <2>3, AddrType
    <3> QED
      BY <2>0, <3>1, <3>2, Zenon
  <2>4. CASE b \in 64 .. 127
    <3>1. Instruction(d, b) = [d EXCEPT !.font = TRUE]
      BY <2>4 DEF Instruction
    <3>2. [d EXCEPT !.font = TRUE] \in LcdType /\ [d EXCEPT !.font = TRUE].high = d.high
      BY FontType
    <3> QED
      BY <2>0, <3>1, <3>2, Zenon
  <2>5. CASE b \in 32 .. 63
    <3> DEFINE t == b < 48
    <3>1. Instruction(d, b) = [d EXCEPT !.four = t] /\ t \in BOOLEAN
      BY <2>5 DEF Instruction
    <3> HIDE DEF t
    <3>2. [d EXCEPT !.four = t] \in LcdType /\ [d EXCEPT !.four = t].high = d.high
      BY <3>1, FourType
    <3> QED
      BY <2>0, <3>1, <3>2, Zenon
  <2>6. CASE b \in 8 .. 15
    <3> DEFINE t == b >= 12
    <3>1. Instruction(d, b) = [d EXCEPT !.on = t] /\ t \in BOOLEAN
      BY <2>6 DEF Instruction
    <3> HIDE DEF t
    <3>2. [d EXCEPT !.on = t] \in LcdType /\ [d EXCEPT !.on = t].high = d.high
      BY <3>1, OnType
    <3> QED
      BY <2>0, <3>1, <3>2, Zenon
  <2>7. CASE b \in 2 .. 3
    <3>1. Instruction(d, b) = [d EXCEPT !.addr = 0, !.font = FALSE]
      BY <2>7 DEF Instruction
    <3>2. /\ [d EXCEPT !.addr = 0, !.font = FALSE] \in LcdType
          /\ [d EXCEPT !.addr = 0, !.font = FALSE].high = d.high
      <4>1. 0 \in 0 .. 127 /\ FALSE \in BOOLEAN
        OBVIOUS
      <4> QED
        BY <4>1, AddrType, Zenon
    <3> QED
      BY <2>0, <3>1, <3>2, Zenon
  <2>8. CASE b = 1
    <3>1. Instruction(d, b) = [d EXCEPT !.addr = 0, !.font = FALSE, !.cells = [a \in Cells |-> Space]]
      BY <2>8 DEF Instruction
    <3> DEFINE blank == [a \in Cells |-> Space]
    <3> HIDE DEF blank
    <3>a. blank \in [Cells -> Byte]
      BY <2>1 DEF blank
    <3>2. /\ [d EXCEPT !.addr = 0, !.font = FALSE, !.cells = blank] \in LcdType
          /\ [d EXCEPT !.addr = 0, !.font = FALSE, !.cells = blank].high = d.high
      <4>1. 0 \in 0 .. 127 /\ FALSE \in BOOLEAN
        OBVIOUS
      <4> QED
        BY <4>1, <3>a, ClearType, Zenon
    <3> QED
      BY <2>0, <3>1, <3>2, Zenon DEF blank
  <2>9. CASE b \in {0} \cup 4 .. 7 \cup 16 .. 31
    BY <2>0, <2>9 DEF Instruction
  <2> QED
    BY <1>2, <2>3, <2>4, <2>5, <2>6, <2>7, <2>8, <2>9 DEF Byte
<1> QED
  BY <1>1, <1>2

LEMMA UpperHalf ==
  ASSUME NEW d \in LcdType, NEW x \in Nibble, d.four, d.high = None
  PROVE  TakeNibble(d, x) = [d EXCEPT !.high = x.n]
BY DEF TakeNibble

LEMMA LowerHalf ==
  ASSUME NEW d \in LcdType, NEW x \in Nibble, d.four, d.high \in 0 .. 15
  PROVE  /\ TakeNibble(d, x) = Execute([d EXCEPT !.high = None], x.rs, 16 * d.high + x.n)
         /\ 16 * d.high + x.n \in Byte /\ [d EXCEPT !.high = None] \in LcdType
<1>1. d.high # None
  BY DEF None
<1> QED
  BY <1>1, Joined DEF TakeNibble, Nibble, LcdType

LEMMA TakeType ==
  ASSUME NEW d \in LcdType, NEW x \in Nibble, ~d.four => d.high = None
  PROVE  TakeNibble(d, x) \in LcdType /\ (~TakeNibble(d, x).four => TakeNibble(d, x).high = None)
<1>1. CASE ~d.four
  <2>1. 16 * x.n \in Byte /\ x.rs \in BOOLEAN
    BY DEF Nibble, Byte
  <2>2. TakeNibble(d, x) = Execute(d, x.rs, 16 * x.n)
    BY <1>1, Zenon DEF TakeNibble
  <2> QED
    BY <1>1, <2>1, <2>2, ExecuteType
<1>2. CASE d.four /\ d.high = None
  BY <1>2, UpperHalf DEF LcdType, Nibble
<1>3. CASE d.four /\ d.high # None
  <2>1. d.high \in 0 .. 15 /\ x.rs \in BOOLEAN
    BY <1>3 DEF LcdType, Nibble
  <2>2. [d EXCEPT !.high = None].high = None
    BY DEF LcdType
  <2>3. /\ TakeNibble(d, x) = Execute([d EXCEPT !.high = None], x.rs, 16 * d.high + x.n)
        /\ 16 * d.high + x.n \in Byte /\ [d EXCEPT !.high = None] \in LcdType
    BY <1>3, <2>1, LowerHalf
  <2> DEFINE e == [d EXCEPT !.high = None]
             b == 16 * d.high + x.n
  <2> HIDE DEF e, b
  <2>4. Execute(e, x.rs, b) \in LcdType /\ Execute(e, x.rs, b).high = e.high
    BY <2>1, <2>3, ExecuteType DEF e, b
  <2> QED
    BY <2>2, <2>3, <2>4 DEF e, b
<1> QED
  BY <1>1, <1>2, <1>3

-----------------------------------------------------------------------------
(* The display, nibble by nibble. *)

LEMMA InterfaceIs ==
  ASSUME NEW d, NEW b \in 32 .. 63
  PROVE  Instruction(d, b) = [d EXCEPT !.four = (b < 48)]
BY DEF Instruction

LEMMA OnOffIs ==
  ASSUME NEW d, NEW b \in 8 .. 15
  PROVE  Instruction(d, b) = [d EXCEPT !.on = (b >= 12)]
BY DEF Instruction

\* Those of the initialisation.
LEMMA InstructionsAre ==
  ASSUME NEW d \in LcdType
  PROVE  /\ \A b \in {48, 51} : Instruction(d, b) = [d EXCEPT !.four = FALSE]
         /\ \A b \in {32, 40} : Instruction(d, b) = [d EXCEPT !.four = TRUE]
         /\ Instruction(d, 6) = d
         /\ Instruction(d, 12) = [d EXCEPT !.on = TRUE]
         /\ Instruction(d, 1) = [d EXCEPT !.addr = 0, !.font = FALSE, !.cells = [a \in Cells |-> Space]]
         /\ Instruction(d, 72) = [d EXCEPT !.font = TRUE]
<1>1. ASSUME NEW b \in {48, 51} PROVE Instruction(d, b) = [d EXCEPT !.four = FALSE]
  <2>1. b \in Byte /\ b \in 32 .. 63
    BY DEF Byte
  <2>2. Instruction(d, b) = [d EXCEPT !.four = (b < 48)]
    BY <2>1, InterfaceIs
  <2>3. (b < 48) = FALSE
    OBVIOUS
  <2> QED
    BY <2>2, <2>3, Zenon
<1>2. ASSUME NEW b \in {32, 40} PROVE Instruction(d, b) = [d EXCEPT !.four = TRUE]
  <2>1. b \in Byte /\ b \in 32 .. 63
    BY DEF Byte
  <2>2. Instruction(d, b) = [d EXCEPT !.four = (b < 48)]
    BY <2>1, InterfaceIs
  <2>3. (b < 48) = TRUE
    OBVIOUS
  <2> QED
    BY <2>2, <2>3, Zenon
<1>3. Instruction(d, 6) = d
  BY DEF Instruction
<1>4. Instruction(d, 12) = [d EXCEPT !.on = TRUE]
  <2>1. 12 \in 8 .. 15 /\ 12 \in Byte /\ (12 >= 12) = TRUE
    BY DEF Byte
  <2>2. Instruction(d, 12) = [d EXCEPT !.on = (12 >= 12)]
    BY <2>1, OnOffIs
  <2> QED
    BY <2>1, <2>2, Zenon
<1>5. Instruction(d, 1) = [d EXCEPT !.addr = 0, !.font = FALSE, !.cells = [a \in Cells |-> Space]]
  BY DEF Instruction
<1>6. Instruction(d, 72) = [d EXCEPT !.font = TRUE]
  BY DEF Instruction
<1> QED
  BY <1>1, <1>2, <1>3, <1>4, <1>5, <1>6

\* A nibble of the initialisation.
LEMMA ReachedNext ==
  ASSUME lcd \in LcdType, ~lcd.four => lcd.high = None, NEW k \in 0 .. 28, Reached(k),
         lcd' = TakeNibble(lcd, Program(k + 1))
  PROVE  Reached(k + 1)'
<1> DEFINE x == Program(k + 1)
<1>0. k + 1 \in 1 .. 29 /\ x \in Nibble
  <2>1. k + 1 \in 1 .. 29
    OBVIOUS
  <2> QED
    BY <2>1, LcdInitIs, Zenon
<1>1. CASE k = 0
  <2>1. x = [rs |-> FALSE, n |-> 3]
    BY <1>1 DEF Program
  <2>2. CASE lcd.four
    <3>1. lcd' = [lcd EXCEPT !.high = 3]
      BY <1>0, <1>1, <2>1, <2>2, UpperHalf DEF Reached
    <3> QED
      BY <1>1, <2>2, <3>1 DEF Reached, LcdType
  <2>3. CASE ~lcd.four
    <3>1. lcd' = Instruction(lcd, 48)
      BY <2>1, <2>3 DEF TakeNibble, Execute
    <3>2. lcd' = [lcd EXCEPT !.four = FALSE]
      BY <3>1, InstructionsAre
    <3> QED
      BY <1>1, <2>3, <3>2 DEF Reached, LcdType
  <2> QED
    BY <2>2, <2>3
<1>2. CASE k = 1
  <2>1. x = [rs |-> FALSE, n |-> 3]
    BY <1>2 DEF Program
  <2>2. CASE lcd.four
    <3>1. lcd.high = 3
      BY <1>2, <2>2 DEF Reached
    <3> DEFINE e == [lcd EXCEPT !.high = None]
    <3>2. lcd.high \in 0 .. 15
      BY <3>1
    <3>3. lcd' = Execute(e, x.rs, 16 * lcd.high + x.n)
      BY <1>0, <2>2, <3>2, LowerHalf
    <3>4. e \in LcdType /\ e.high = None
      BY DEF LcdType
    <3> HIDE DEF e
    <3>5. x.rs = FALSE /\ 16 * lcd.high + x.n = 51
      BY <2>1, <3>1
    <3>6. lcd' = Instruction(e, 51)
      BY <3>3, <3>5 DEF Execute
    <3>7. lcd' = [e EXCEPT !.four = FALSE]
      BY <3>4, <3>6, InstructionsAre
    <3> QED
      BY <1>2, <3>4, <3>7 DEF Reached, LcdType
  <2>3. CASE ~lcd.four
    <3>1. lcd' = Instruction(lcd, 48)
      BY <2>1, <2>3 DEF TakeNibble, Execute
    <3>2. lcd' = [lcd EXCEPT !.four = FALSE]
      BY <3>1, InstructionsAre
    <3> QED
      BY <1>2, <2>3, <3>2 DEF Reached, LcdType
  <2> QED
    BY <2>2, <2>3
<1>3. CASE k = 2
  <2>1. x = [rs |-> FALSE, n |-> 2] /\ ~lcd.four /\ lcd.high = None
    BY <1>3 DEF Program, Reached
  <2>2. lcd' = Instruction(lcd, 32)
    BY <2>1 DEF TakeNibble, Execute
  <2>3. lcd' = [lcd EXCEPT !.four = TRUE]
    BY <2>2, InstructionsAre
  <2> QED
    BY <1>3, <2>1, <2>3 DEF Reached, LcdType
<1>4. CASE k >= 3 /\ k % 2 = 1
  <2>1. lcd.four /\ lcd.high = None
    BY <1>4 DEF Reached
  <2>2. lcd' = [lcd EXCEPT !.high = x.n]
    BY <1>0, <2>1, UpperHalf
  <2>3. /\ lcd'.four = lcd.four /\ lcd'.on = lcd.on /\ lcd'.font = lcd.font /\ lcd'.cells = lcd.cells
        /\ lcd'.high = x.n
    BY <2>2 DEF LcdType
  <2>4. (k + 1) % 2 = 0 /\ (k + 1 >= 9 => k >= 9) /\ (k + 1 >= 11 => k >= 11) /\ (k + 1 >= 13 => k >= 13)
    BY <1>4
  <2>5. /\ k + 1 >= 9 => lcd'.on
        /\ k + 1 >= 11 => \A a \in Cells : lcd'.cells[a] = Space
        /\ k + 1 >= 13 => lcd'.font
    BY <2>3, <2>4 DEF Reached
  <2>6. k + 1 # 1 /\ k + 1 # 2 /\ ~(k + 1 \in {0, 2} \/ (k + 1 > 1 /\ (k + 1) % 2 = 1))
    BY <1>4, <2>4
  <2>7. lcd'.four
    BY <2>1, <2>3
  <2> HIDE DEF x
  <2> QED
    BY <2>3, <2>5, <2>6, <2>7, Zenon DEF Reached, x
<1>5. CASE k >= 4 /\ k % 2 = 0
  <2> DEFINE e == [lcd EXCEPT !.high = None]
  <2>1. lcd.four /\ lcd.high = Program(k).n /\ k \in 1 .. 29
    BY <1>5 DEF Reached
  <2>2. lcd.high \in 0 .. 15
    BY <2>1, LcdInitIs DEF Nibble
  <2>3. lcd' = Execute(e, x.rs, 16 * lcd.high + x.n)
    BY <1>0, <2>1, <2>2, LowerHalf
  <2>4. /\ e.four /\ e.high = None /\ e.on = lcd.on /\ e.font = lcd.font /\ e.cells = lcd.cells
        /\ e \in LcdType
    BY <2>1 DEF LcdType
  <2> HIDE DEF e
  <2>5. ASSUME lcd'.four, lcd'.high = None, k >= 8 => lcd'.on,
               k >= 10 => \A a \in Cells : lcd'.cells[a] = Space, k >= 12 => lcd'.font
        PROVE  Reached(k + 1)'
    <3>1. (k + 1) % 2 = 1
      BY <1>5
    <3> QED
      BY <1>5, <2>5, <3>1 DEF Reached
  <2>6. CASE k = 4
    <3>1. lcd' = Instruction(e, 40)
      BY <2>1, <2>3, <2>6 DEF Program, Execute
    <3>2. lcd' = [e EXCEPT !.four = TRUE]
      BY <3>1, <2>4, InstructionsAre
    <3> QED
      BY <2>4, <2>5, <2>6, <3>2 DEF LcdType
  <2>7. CASE k = 6
    <3>1. lcd' = Instruction(e, 6)
      BY <2>1, <2>3, <2>7 DEF Program, Execute
    <3>2. lcd' = e
      BY <3>1, <2>4, InstructionsAre
    <3> QED
      BY <2>4, <2>5, <2>7, <3>2
  <2>8. CASE k = 8
    <3>1. lcd' = Instruction(e, 12)
      BY <2>1, <2>3, <2>8 DEF Program, Execute
    <3>2. lcd' = [e EXCEPT !.on = TRUE]
      BY <3>1, <2>4, InstructionsAre
    <3> QED
      BY <2>4, <2>5, <2>8, <3>2 DEF LcdType
  <2>9. CASE k = 10
    <3>1. lcd' = Instruction(e, 1)
      BY <2>1, <2>3, <2>9 DEF Program, Execute
    <3> DEFINE blank == [a \in Cells |-> Space]
    <3>2. lcd' = [e EXCEPT !.addr = 0, !.font = FALSE, !.cells = blank]
      BY <3>1, <2>4, InstructionsAre
    <3>3. e.on /\ \A a \in Cells : blank[a] = Space
      BY <2>4, <2>9 DEF Reached
    <3> HIDE DEF blank
    <3>4. lcd'.cells = blank /\ lcd'.four = e.four /\ lcd'.on = e.on /\ lcd'.high = e.high
      BY <2>4, <3>2 DEF LcdType
    <3>5. lcd'.four /\ lcd'.high = None /\ lcd'.on /\ \A a \in Cells : lcd'.cells[a] = Space
      BY <2>4, <3>3, <3>4, Zenon
    <3>6. ~(k >= 12)
      BY <2>9
    <3> QED
      BY <2>5, <3>5, <3>6, Zenon
  <2>10. CASE k = 12
    <3>1. lcd' = Instruction(e, 72)
      BY <2>1, <2>3, <2>10 DEF Program, Execute
    <3>2. lcd' = [e EXCEPT !.font = TRUE]
      BY <3>1, <2>4, InstructionsAre
    <3>3. e.on /\ \A a \in Cells : e.cells[a] = Space
      BY <2>4, <2>10 DEF Reached
    <3> QED
      BY <2>4, <2>5, <2>10, <3>2, <3>3 DEF LcdType
  <2>11. CASE k >= 14
    <3>1. x.rs = TRUE
      BY <2>11 DEF Program
    <3>2. e.font /\ e.on /\ \A a \in Cells : e.cells[a] = Space
      BY <2>4, <2>11 DEF Reached
    <3>3. lcd' = e
      BY <2>3, <3>1, <3>2 DEF Execute, Data
    <3> QED
      BY <2>4, <2>5, <2>11, <3>2, <3>3
  <2>12. k \in {4, 6, 8, 10, 12} \/ k >= 14
    BY <1>5
  <2> QED
    BY <2>6, <2>7, <2>8, <2>9, <2>10, <2>11, <2>12
<1>6. k \in 0 .. 2 \/ (k >= 3 /\ k % 2 = 1) \/ (k >= 4 /\ k % 2 = 0)
  OBVIOUS
<1> QED
  BY <1>1, <1>2, <1>3, <1>4, <1>5, <1>6

LEMMA TailIs ==
  ASSUME bus \in Seq(Nibble), bus # <<>>
  PROVE  /\ Head(bus) = bus[1] /\ Head(bus) \in Nibble /\ Tail(bus) \in Seq(Nibble)
         /\ Len(bus) \in Nat \ {0} /\ Len(Tail(bus)) = Len(bus) - 1
         /\ \A i \in 1 .. Len(bus) - 1 : Tail(bus)[i] = bus[i + 1]
BY HeadTailProperties, EmptySeq

\* The initialisation goes on, and at its end the display is clear.
LEMMA BootStep ==
  ASSUME Types, ~lcd.four => lcd.high = None, NEW k \in 0 .. 28, Booting(k), Write
  PROVE  Ready' \/ (k < 28 /\ Booting(k + 1)')
<1>1. bus \in Seq(Nibble) /\ bus # <<>> /\ lcd \in LcdType /\ seen' = seen
  BY DEF Types, Write
<1>2. Len(bus) = 29 - k /\ \A i \in 1 .. 29 - k : bus[i] = Program(k + i)
  BY DEF Booting
<1>3. Head(bus) = Program(k + 1)
  BY <1>1, <1>2, TailIs
<1>4. Reached(k + 1)'
  BY <1>1, <1>3, ReachedNext DEF Write, Booting
<1>5. /\ bus' \in Seq(Nibble) /\ Len(bus') = 28 - k
      /\ \A i \in 1 .. 28 - k : bus'[i] = Program(k + 1 + i)
  <2>1. bus' \in Seq(Nibble) /\ Len(bus') = 28 - k /\ \A i \in 1 .. 28 - k : bus'[i] = bus[i + 1]
    BY <1>1, <1>2, TailIs DEF Write
  <2>2. \A i \in 1 .. 28 - k : i + 1 \in 1 .. 29 - k /\ k + (i + 1) = k + 1 + i
    OBVIOUS
  <2> QED
    BY <2>1, <2>2, <1>2
<1>6. \A r \in 0 .. 1 : \A i \in 1 .. LcdWidth : seen'.row[r][i] = Space
  BY <1>1 DEF Booting
<1>7. CASE k < 28
  <2>1. 29 - (k + 1) = 28 - k
    OBVIOUS
  <2>2. Booting(k + 1)'
    BY <1>4, <1>5, <1>6, <2>1, Zenon DEF Booting
  <2> QED
    BY <1>7, <2>2
<1>8. CASE k = 28
  <2>1. bus' = <<>>
    BY <1>5, <1>8, EmptySeq
  <2>2. lcd'.four /\ lcd'.high = None /\ lcd'.on /\ \A a \in Cells : lcd'.cells[a] = Space
    BY <1>4, <1>8 DEF Reached
  <2>3. \A r \in 0 .. 1, i \in 1 .. LcdWidth : lcd'.cells[64 * r + i - 1] = seen'.row[r][i]
    BY <1>6, <2>2, Widths
  <2> QED
    BY <2>1, <2>2, <2>3 DEF Ready, ShownUpTo
<1> QED
  BY <1>7, <1>8

\* A character goes to the cell at the address.
LEMMA DataIs ==
  ASSUME NEW d \in LcdType, ~d.font, d.addr \in Cells, NEW b \in Byte
  PROVE  /\ Data(d, b).four = d.four /\ Data(d, b).on = d.on /\ Data(d, b).high = d.high
         /\ Data(d, b).font = d.font
         /\ Data(d, b).cells = [d.cells EXCEPT ![d.addr] = b] /\ Data(d, b).addr = NextAddr(d.addr)
<1>1. Data(d, b) = [d EXCEPT !.cells[d.addr] = b, !.addr = NextAddr(d.addr)]
  BY DEF Data
<1> QED
  BY <1>1 DEF LcdType

\* The seen cells differ, and those of a row follow each other.
LEMMA AddrIs ==
  ASSUME NEW row \in 0 .. 1, NEW j \in 1 .. LcdWidth
  PROVE  /\ 64 * row + j - 1 \in Cells
         /\ \A r \in 0 .. 1, i \in 1 .. LcdWidth :
                /\ 64 * r + i - 1 \in Cells
                /\ r # row \/ i # j => 64 * r + i - 1 # 64 * row + j - 1
         /\ j < LcdWidth => NextAddr(64 * row + j - 1) = 64 * row + j
<1> DEFINE a == 64 * row + j - 1
<1>1. a \in Cells
  BY Widths
<1>2. \A r \in 0 .. 1, i \in 1 .. LcdWidth :
          64 * r + i - 1 \in Cells /\ (r # row \/ i # j => 64 * r + i - 1 # a)
  <2> TAKE r \in 0 .. 1, i \in 1 .. LcdWidth
  <2>1. 64 * r + i - 1 \in Cells
    BY Widths
  <2>2. LcdWidth \in 1 .. 64
    BY Widths
  <2>3. (r = 0 \/ r = 1) /\ (row = 0 \/ row = 1) /\ i \in 1 .. 64 /\ j \in 1 .. 64
    BY <2>2
  <2>4. r # row \/ i # j => 64 * r + i - 1 # a
    BY <2>3
  <2> QED
    BY <2>1, <2>4
<1>3. j < LcdWidth => NextAddr(a) = 64 * row + j
  <2>1. j < LcdWidth => a # RowSize - 1 /\ a # 63 + RowSize
    BY Widths
  <2>2. ASSUME j < LcdWidth PROVE (a + 1) % 128 = 64 * row + j
    <3>1. LcdWidth \in 1 .. 64
      BY Widths
    <3>2. 64 * row + j \in 0 .. 127
      BY <2>2, <3>1
    <3>3. (row = 0 \/ row = 1) /\ a + 1 = 64 * row + j
      OBVIOUS
    <3> QED
      BY <3>2, <3>3
  <2> QED
    BY <2>1, <2>2 DEF NextAddr
<1> QED
  BY <1>1, <1>2, <1>3

LEMMA NibbleIs == \A t \in BOOLEAN, v \in 0 .. 15 : [rs |-> t, n |-> v] \in Nibble
BY DEF Nibble

\* The k-th and the next nibble of a text, when they are the halves of a byte.
LEMMA TextIs ==
  ASSUME NEW row \in 0 .. 1, NEW chars \in [1 .. LcdWidth -> Byte]
  PROVE  /\ \A m \in 1 .. 2 * LcdWidth + 2 : Text(row, chars, m) \in Nibble
         /\ Text(row, chars, 2).rs = FALSE
         /\ 16 * Text(row, chars, 1).n + Text(row, chars, 2).n = 128 + 64 * row
         /\ \A j \in 1 .. LcdWidth :
              /\ Text(row, chars, 2 * j + 2).rs = TRUE
              /\ 16 * Text(row, chars, 2 * j + 1).n + Text(row, chars, 2 * j + 2).n = chars[j]
<1>0. LcdWidth \in Nat /\ 128 + 64 * row \in Byte
  BY Widths DEF Byte
<1>1. ASSUME NEW m \in 1 .. 2 PROVE Text(row, chars, m) = HalfOf(FALSE, <<128 + 64 * row>>, m)
  <2>1. m <= 2
    OBVIOUS
  <2> QED
    BY <2>1, Zenon DEF Text
<1>2. /\ Text(row, chars, 1) = [rs |-> FALSE, n |-> (128 + 64 * row) \div 16]
      /\ Text(row, chars, 2) = [rs |-> FALSE, n |-> (128 + 64 * row) % 16]
  BY <1>1 DEF HalfOf
<1>2a. ASSUME NEW m \in Nat, ~(m <= 2) PROVE Text(row, chars, m) = HalfOf(TRUE, chars, m - 2)
  BY <1>2a, Zenon DEF Text
<1>3. ASSUME NEW j \in 1 .. LcdWidth
      PROVE  /\ Text(row, chars, 2 * j + 1) = [rs |-> TRUE, n |-> chars[j] \div 16]
             /\ Text(row, chars, 2 * j + 2) = [rs |-> TRUE, n |-> chars[j] % 16]
  <2>1. /\ 2 * j + 1 \in Nat /\ 2 * j + 2 \in Nat /\ ~(2 * j + 1 <= 2) /\ ~(2 * j + 2 <= 2)
        /\ (2 * j + 1) - 2 = 2 * j - 1 /\ (2 * j + 2) - 2 = 2 * j
    BY <1>0
  <2>2. /\ (2 * j - 1) % 2 = 1 /\ (2 * j) % 2 # 1
        /\ (2 * j - 1 + 1) \div 2 = j /\ (2 * j + 1) \div 2 = j
    BY <1>0
  <2>3. /\ Text(row, chars, 2 * j + 1) = HalfOf(TRUE, chars, (2 * j + 1) - 2)
        /\ Text(row, chars, 2 * j + 2) = HalfOf(TRUE, chars, (2 * j + 2) - 2)
    BY <2>1, <1>2a
  <2>4. /\ HalfOf(TRUE, chars, 2 * j - 1) = [rs |-> TRUE, n |-> chars[(2 * j - 1 + 1) \div 2] \div 16]
        /\ HalfOf(TRUE, chars, 2 * j) = [rs |-> TRUE, n |-> chars[(2 * j + 1) \div 2] % 16]
    BY <2>2, Zenon DEF HalfOf
  <2> QED
    BY <2>1, <2>2, <2>3, <2>4, Zenon
<1>4. ASSUME NEW m \in 1 .. 2 * LcdWidth + 2 PROVE Text(row, chars, m) \in Nibble
  <2>1. m \in 1 .. 2 \/ \E j \in 1 .. LcdWidth : m = 2 * j + 1 \/ m = 2 * j + 2
    <3>1. ASSUME m > 2
          PROVE  /\ (m - 1) \div 2 \in 1 .. LcdWidth
                 /\ m = 2 * ((m - 1) \div 2) + 1 \/ m = 2 * ((m - 1) \div 2) + 2
      BY <1>0, <3>1
    <3> QED
      BY <3>1, <1>0
  <2>2. CASE m \in 1 .. 2
    <3>1. (128 + 64 * row) \div 16 \in 0 .. 15 /\ (128 + 64 * row) % 16 \in 0 .. 15 /\ FALSE \in BOOLEAN
      BY <1>0, Halves
    <3>2. m = 1 \/ m = 2
      BY <2>2
    <3> QED
      BY <1>2, <3>1, <3>2, NibbleIs, Zenon
  <2>3. ASSUME NEW j \in 1 .. LcdWidth, m = 2 * j + 1 \/ m = 2 * j + 2 PROVE Text(row, chars, m) \in Nibble
    <3>1. chars[j] \div 16 \in 0 .. 15 /\ chars[j] % 16 \in 0 .. 15 /\ TRUE \in BOOLEAN
      BY Halves
    <3> QED
      BY <2>3, <3>1, <1>3, NibbleIs, Zenon
  <2> QED
    BY <2>1, <2>2, <2>3
<1>5. 16 * ((128 + 64 * row) \div 16) + ((128 + 64 * row) % 16) = 128 + 64 * row
  BY <1>0, Halves
<1>6. \A j \in 1 .. LcdWidth : 16 * (chars[j] \div 16) + (chars[j] % 16) = chars[j]
  BY Halves
<1>7. Text(row, chars, 2).rs = FALSE /\ 16 * Text(row, chars, 1).n + Text(row, chars, 2).n = 128 + 64 * row
  BY <1>2, <1>5
<1>8. ASSUME NEW j \in 1 .. LcdWidth
      PROVE  /\ Text(row, chars, 2 * j + 2).rs = TRUE
             /\ 16 * Text(row, chars, 2 * j + 1).n + Text(row, chars, 2 * j + 2).n = chars[j]
  <2>0. /\ Text(row, chars, 2 * j + 1) = [rs |-> TRUE, n |-> chars[j] \div 16]
        /\ Text(row, chars, 2 * j + 2) = [rs |-> TRUE, n |-> chars[j] % 16]
    BY <1>3
  <2>1. Text(row, chars, 2 * j + 2).rs = TRUE
    BY <2>0
  <2>2. Text(row, chars, 2 * j + 1).n = chars[j] \div 16 /\ Text(row, chars, 2 * j + 2).n = chars[j] % 16
    BY <2>0
  <2>3. 16 * (chars[j] \div 16) + (chars[j] % 16) = chars[j]
    BY <1>6
  <2> QED
    BY <2>1, <2>2, <2>3, Zenon
<1> QED
  BY <1>4, <1>7, <1>8

\* A text goes on, and at its end the row shows it.
LEMMA PrintStep ==
  ASSUME Types, NEW row \in 0 .. 1, NEW k \in 0 .. 2 * LcdWidth + 1, Printing(row, k), Write
  PROVE  Ready' \/ (k < 2 * LcdWidth + 1 /\ Printing(row, k + 1)')
<1> DEFINE chars == seen.row[row]
           last == 2 * LcdWidth + 2
<1>0. LcdWidth \in 1 .. 64
  BY Widths
<1>1. /\ bus \in Seq(Nibble) /\ bus # <<>> /\ lcd \in LcdType /\ seen' = seen
      /\ chars \in [1 .. LcdWidth -> Byte]
  BY DEF Types, SeenType, Write
<1>2. Len(bus) = last - k /\ \A i \in 1 .. last - k : bus[i] = Text(row, chars, k + i)
  <2>1. 2 * LcdWidth + 2 - k = last - k
    BY <1>0
  <2> QED
    BY <2>1, Zenon DEF Printing
<1> DEFINE x == Text(row, chars, k + 1)
<1>3. Head(bus) = x /\ x \in Nibble
  BY <1>0, <1>1, <1>2, TailIs
<1>4. lcd' = TakeNibble(lcd, x)
  BY <1>3 DEF Write
<1>5. /\ bus' \in Seq(Nibble) /\ Len(bus') = last - (k + 1)
      /\ \A i \in 1 .. last - (k + 1) : bus'[i] = Text(row, chars, k + 1 + i)
  <2>1. bus' \in Seq(Nibble) /\ Len(bus') = last - k - 1 /\ \A i \in 1 .. last - k - 1 : bus'[i] = bus[i + 1]
    BY <1>1, <1>2, TailIs DEF Write
  <2>2. \A i \in 1 .. last - (k + 1) : i + 1 \in 1 .. last - k /\ k + (i + 1) = k + 1 + i
    BY <1>0
  <2>3. last - (k + 1) = last - k - 1
    BY <1>0
  <2> QED
    BY <2>1, <2>2, <2>3, <1>2
<1>6. ASSUME k < 2 * LcdWidth + 1, lcd'.four, lcd'.on,
             lcd'.high = (IF (k + 1) % 2 = 0 THEN None ELSE x.n),
             k + 1 >= 2 => ~lcd'.font /\ lcd'.addr = 64 * row + ((k + 1) \div 2) - 1,
             ShownUpTo(row, (k + 1) \div 2)', ShownUpTo(1 - row, LcdWidth + 1)'
      PROVE  Printing(row, k + 1)'
  <2>0. 2 * LcdWidth + 2 - (k + 1) = last - (k + 1)
    BY <1>0
  <2>1. seen'.row[row] = chars
    BY <1>1
  <2>2. \A i \in 1 .. last - (k + 1) : bus'[i] = Text(row, seen'.row[row], k + 1 + i)
    BY <1>5, <2>1
  <2>3. lcd'.high = (IF (k + 1) % 2 = 0 THEN None ELSE Text(row, seen'.row[row], k + 1).n)
    BY <1>6, <2>1
  <2> QED
    BY <1>5, <1>6, <2>0, <2>2, <2>3, Zenon DEF Printing
<1>6a. ASSUME lcd'.cells = lcd.cells
       PROVE  \A r, n : ShownUpTo(r, n) => ShownUpTo(r, n)'
  BY <1>1, <1>6a DEF ShownUpTo
<1>6b. ShownUpTo(row, k \div 2) /\ ShownUpTo(1 - row, LcdWidth + 1)
  BY DEF Printing
<1>7. CASE k % 2 = 0
  <2>1. k < 2 * LcdWidth + 1 /\ (k + 1) \div 2 = k \div 2 /\ (k + 1) % 2 = 1 /\ (k + 1 >= 2 => k >= 2)
    BY <1>0, <1>7
  <2>2. lcd.four /\ lcd.high = None
    BY <1>7 DEF Printing
  <2>3. lcd' = [lcd EXCEPT !.high = x.n]
    BY <1>1, <1>3, <1>4, <2>2, UpperHalf
  <2>4. /\ lcd'.four = lcd.four /\ lcd'.on = lcd.on /\ lcd'.font = lcd.font /\ lcd'.addr = lcd.addr
        /\ lcd'.cells = lcd.cells /\ lcd'.high = x.n
    BY <1>1, <2>3 DEF LcdType
  <2>5. ShownUpTo(row, (k + 1) \div 2)' /\ ShownUpTo(1 - row, LcdWidth + 1)'
    BY <1>6a, <1>6b, <2>1, <2>4, Zenon
  <2>6. k + 1 >= 2 => ~lcd'.font /\ lcd'.addr = 64 * row + ((k + 1) \div 2) - 1
    BY <2>1, <2>4 DEF Printing
  <2> HIDE DEF x
  <2> QED
    BY <1>6, <2>1, <2>4, <2>5, <2>6 DEF Printing
<1>8. CASE k % 2 = 1
  <2> DEFINE e == [lcd EXCEPT !.high = None]
             b == 16 * lcd.high + x.n
  <2>1. lcd.four /\ lcd.on /\ lcd.high = Text(row, chars, k).n /\ k \in 1 .. last
    <3>1. ~(k % 2 = 0) /\ k \in 1 .. last
      BY <1>0, <1>8
    <3> QED
      BY <3>1, Zenon DEF Printing
  <2>2. lcd.high \in 0 .. 15
    BY <1>1, <2>1, TextIs DEF Nibble
  <2>3. lcd' = Execute(e, x.rs, b) /\ b \in Byte /\ e \in LcdType
    BY <1>1, <1>3, <1>4, <2>1, <2>2, LowerHalf
  <2>4. /\ e.four /\ e.high = None /\ e.on = lcd.on /\ e.font = lcd.font /\ e.cells = lcd.cells
        /\ e.addr = lcd.addr
    BY <1>1, <2>1 DEF LcdType
  <2>5. b = 16 * Text(row, chars, k).n + x.n
    BY <2>1
  <2> HIDE DEF e, b
  <2>6. CASE k = 1
    <3>1. b = 128 + 64 * row /\ x.rs = FALSE
      <4>1. k + 1 = 2
        BY <2>6
      <4>2. x = Text(row, chars, 2) /\ Text(row, chars, k) = Text(row, chars, 1)
        BY <2>6, <4>1
      <4>3. Text(row, chars, 2).rs = FALSE /\ 16 * Text(row, chars, 1).n + Text(row, chars, 2).n = 128 + 64 * row
        BY <1>1, TextIs
      <4> QED
        BY <2>5, <4>2, <4>3
    <3>1a. b >= 128 /\ b - 128 = 64 * row
      BY <3>1
    <3>2. lcd' = [e EXCEPT !.addr = b - 128, !.font = FALSE]
      BY <2>3, <3>1, <3>1a DEF Execute, Instruction
    <3>3. /\ lcd'.four /\ lcd'.on /\ lcd'.high = None /\ ~lcd'.font /\ lcd'.addr = 64 * row
          /\ lcd'.cells = lcd.cells
      <4>1. lcd' = [e EXCEPT !.addr = 64 * row, !.font = FALSE]
        BY <3>1a, <3>2
      <4> QED
        BY <2>1, <2>3, <2>4, <4>1 DEF LcdType
    <3>4. (k + 1) \div 2 = 1 /\ (k + 1) % 2 = 0 /\ 64 * row + 1 - 1 = 64 * row /\ k < 2 * LcdWidth + 1
      BY <1>0, <2>6
    <3>5. ShownUpTo(row, (k + 1) \div 2)' /\ ShownUpTo(1 - row, LcdWidth + 1)'
      <4>1. ShownUpTo(row, 1)'
        BY <1>0 DEF ShownUpTo
      <4> QED
        BY <1>6a, <1>6b, <3>3, <3>4, <4>1
    <3> HIDE DEF x
    <3> QED
      BY <1>6, <3>3, <3>4, <3>5
  <2>7. CASE k # 1
    <3> DEFINE j == k \div 2
    <3>1. /\ j \in 1 .. LcdWidth /\ k = 2 * j + 1 /\ k + 1 = 2 * j + 2 /\ (k + 1) \div 2 = j + 1
          /\ (k + 1) % 2 = 0 /\ k >= 2
      BY <1>0, <1>8, <2>7
    <3> HIDE DEF j
    <3>2. b = chars[j] /\ x.rs = TRUE
      <4>1. x = Text(row, chars, 2 * j + 2) /\ Text(row, chars, k) = Text(row, chars, 2 * j + 1)
        BY <3>1
      <4>2. /\ Text(row, chars, 2 * j + 2).rs = TRUE
            /\ 16 * Text(row, chars, 2 * j + 1).n + Text(row, chars, 2 * j + 2).n = chars[j]
        <5>1. \A i \in 1 .. LcdWidth :
                /\ Text(row, chars, 2 * i + 2).rs = TRUE
                /\ 16 * Text(row, chars, 2 * i + 1).n + Text(row, chars, 2 * i + 2).n = chars[i]
          BY <1>1, TextIs, Zenon
        <5> QED
          BY <3>1, <5>1, Zenon
      <4> QED
        BY <2>5, <4>1, <4>2
    <3>3. ~e.font /\ e.addr = 64 * row + j - 1
      BY <2>4, <3>1 DEF Printing, j
    <3>4. lcd' = Data(e, b)
      BY <2>3, <3>2 DEF Execute
    <3> DEFINE a == 64 * row + j - 1
    <3>5. /\ lcd'.four = e.four /\ lcd'.on = e.on /\ lcd'.high = e.high /\ lcd'.font = e.font
          /\ lcd'.cells[a] = b
          /\ \A r \in 0 .. 1, i \in 1 .. LcdWidth :
                 r # row \/ i # j => lcd'.cells[64 * r + i - 1] = lcd.cells[64 * r + i - 1]
          /\ j < LcdWidth => lcd'.addr = 64 * row + j
      <4>1. /\ a \in Cells
            /\ \A r \in 0 .. 1, i \in 1 .. LcdWidth :
                 64 * r + i - 1 \in Cells /\ (r # row \/ i # j => 64 * r + i - 1 # a)
            /\ j < LcdWidth => NextAddr(a) = 64 * row + j
        BY <3>1, AddrIs
      <4>2. e.addr = a
        BY <3>3
      <4> HIDE DEF a
      <4>3. /\ lcd'.four = e.four /\ lcd'.on = e.on /\ lcd'.high = e.high /\ lcd'.font = e.font
            /\ lcd'.cells = [lcd.cells EXCEPT ![a] = b] /\ lcd'.addr = NextAddr(a)
        <5>1. e.addr \in Cells
          BY <4>1, <4>2
        <5>2. /\ lcd'.four = e.four /\ lcd'.on = e.on /\ lcd'.high = e.high /\ lcd'.font = e.font
              /\ lcd'.cells = [e.cells EXCEPT ![e.addr] = b] /\ lcd'.addr = NextAddr(e.addr)
          BY <2>3, <3>3, <3>4, <5>1, DataIs
        <5> QED
          BY <2>4, <4>2, <5>2, Zenon
      <4>4. lcd.cells \in [Cells -> Byte]
        BY <1>1 DEF LcdType
      <4>5. lcd'.cells[a] = b /\ \A c \in Cells : c # a => lcd'.cells[c] = lcd.cells[c]
        BY <4>1, <4>3, <4>4
      <4> QED
        BY <4>1, <4>3, <4>5
    <3>6. ShownUpTo(row, j + 1)'
      <4>1. ASSUME NEW i \in 1 .. LcdWidth, i < j + 1
            PROVE  lcd'.cells[64 * row + i - 1] = chars[i]
        <5>1. CASE i = j
          BY <3>2, <3>5, <5>1
        <5>2. CASE i # j
          <6>1. i < j
            BY <1>0, <3>1, <4>1, <5>2
          <6>2. lcd.cells[64 * row + i - 1] = chars[i]
            BY <6>1 DEF Printing, ShownUpTo, j
          <6> QED
            BY <3>5, <5>2, <6>2
        <5> QED
          BY <5>1, <5>2
      <4> QED
        BY <4>1, <1>1 DEF ShownUpTo
    <3>7. ShownUpTo(1 - row, LcdWidth + 1)'
      <4>1. 1 - row \in 0 .. 1 /\ 1 - row # row
        OBVIOUS
      <4>2. ASSUME NEW i \in 1 .. LcdWidth
            PROVE  lcd'.cells[64 * (1 - row) + i - 1] = seen.row[1 - row][i]
        <5>1. i < LcdWidth + 1
          BY <1>0
        <5>2. lcd.cells[64 * (1 - row) + i - 1] = seen.row[1 - row][i]
          BY <5>1 DEF Printing, ShownUpTo
        <5> QED
          BY <3>5, <4>1, <5>2
      <4> QED
        BY <4>2, <1>1 DEF ShownUpTo
    <3>8. lcd'.four /\ lcd'.on /\ lcd'.high = None /\ ~lcd'.font
      BY <2>1, <2>4, <3>3, <3>5
    <3>9. CASE j < LcdWidth
      <4>1. k < 2 * LcdWidth + 1 /\ 64 * row + (j + 1) - 1 = 64 * row + j
        BY <1>0, <3>1, <3>9
      <4> HIDE DEF x
      <4> QED
        BY <1>6, <3>1, <3>5, <3>6, <3>7, <3>8, <3>9, <4>1
    <3>10. CASE ~(j < LcdWidth)
      <4>1. j = LcdWidth /\ last - (k + 1) = 0
        BY <1>0, <3>1, <3>10
      <4>2. bus' = <<>>
        BY <1>5, <4>1, EmptySeq
      <4>3. {row, 1 - row} = 0 .. 1
        OBVIOUS
      <4>4. \A r \in 0 .. 1 : ShownUpTo(r, LcdWidth + 1)'
        BY <3>6, <3>7, <4>1, <4>3
      <4> QED
        BY <3>8, <4>2, <4>4 DEF Ready
    <3> QED
      BY <3>9, <3>10
  <2> QED
    BY <2>6, <2>7
<1> QED
  BY <1>0, <1>7, <1>8

-----------------------------------------------------------------------------
(* What a command is made of. *)

LEMMA BaudIs == /\ \A bd : IsValidBaud(bd) <=> bd \in ValidBauds
                /\ \A bd : SetBaud(bd) \in ValidBauds
                /\ \A bd \in ValidBauds : SetBaud(bd) = bd
                /\ SERIAL_BAUDRATE \in ValidBauds /\ SERIAL_BAUDRATE \in Rates
                /\ ValidBauds \subseteq Word
<1>0. ValidBauds \subseteq Word
  BY DEF ValidBauds, Word
<1>1. \A bd : IsValidBaud(bd) <=> bd \in ValidBauds
  BY DEF IsValidBaud
<1> QED
  BY <1>0, <1>1, RatesAssumption, Zenon DEF SetBaud

\* The upper bytes of two rates differ, and half of a word is of one or the other.
LEMMA UppersDiffer == \A b, c \in ValidBauds : Upper(b) = Upper(c) => b = c
BY DEF ValidBauds, Upper

LEMMA BytesOfWord ==
  /\ \A w \in Word : Upper(w) \in Byte /\ Lower(w) \in Byte
  /\ \A h, l \in Byte : 256 * h + l \in Word /\ Upper(256 * h + l) = h
<1>1. \A n : n \in Byte <=> n \in Int /\ 0 <= n /\ n < 256
  BY DEF Byte
<1>2. ASSUME NEW w \in Word PROVE Upper(w) \in Byte /\ Lower(w) \in Byte
  BY <1>1 DEF Word, Upper, Lower
<1>3. ASSUME NEW h \in Byte, NEW l \in Byte PROVE 256 * h + l \in Word /\ Upper(256 * h + l) = h
  BY <1>1 DEF Word, Upper
<1> QED
  BY <1>2, <1>3

LEMMA HalfwayIs ==
  ASSUME NEW old \in Word, NEW new \in Word, NEW word \in Halfway(old, new)
  PROVE  word \in Word /\ (Upper(word) = Upper(old) \/ Upper(word) = Upper(new))
<1>1. PICK u \in {old, new}, l \in {old, new} : word = 256 * Upper(u) + Lower(l)
  BY DEF Halfway
<1>2. Upper(u) \in Byte /\ Lower(l) \in Byte
  BY BytesOfWord
<1>3. word \in Word /\ Upper(word) = Upper(u)
  BY <1>1, <1>2, BytesOfWord, Zenon
<1> QED
  BY <1>3

LEMMA CharAtIs ==
  ASSUME NEW line \in Seq(Byte), NEW i \in Nat
  PROVE  CharAt(line, i) \in Byte
<1>1. i < Len(line) => i + 1 \in 1 .. Len(line)
  OBVIOUS
<1>2. i < Len(line) => line[i + 1] \in Byte
  BY <1>1, ElementOfSeq
<1>3. NUL \in Byte
  BY DEF NUL, Byte
<1> QED
  BY <1>2, <1>3, Zenon DEF CharAt

LEMMA StoredIs ==
  ASSUME NEW str \in Seq(Byte)
  PROVE  Stored(str) \in [1 .. NameSize -> Byte] /\ Stored(str)[NameSize] = NUL
<1>1. NameSize \in Nat \ {0} /\ NameSize \in 1 .. NameSize
  BY NameAssumption
<1>2. ASSUME NEW i \in 1 .. NameSize
      PROVE  (IF i < NameSize THEN CharAt(str, i - 1) ELSE NUL) \in Byte
  <2>1. i - 1 \in Nat
    BY <1>1
  <2>2. CharAt(str, i - 1) \in Byte /\ NUL \in Byte
    <3>1. NUL \in Byte
      BY DEF NUL, Byte
    <3> QED
      BY <2>1, <3>1, CharAtIs, Zenon
  <2> QED
    BY <2>2
<1>3. ~(NameSize < NameSize)
  BY <1>1
<1> QED
  BY <1>1, <1>2, <1>3 DEF Stored

LEMMA RestIs ==
  ASSUME NEW line \in Seq(Byte), NEW i \in Nat, i <= Len(line)
  PROVE  Rest(line, i) \in Seq(Byte)
<1>1. i + 1 \in 1 .. Len(line) + 1 /\ Len(line) \in 0 .. Len(line)
  OBVIOUS
<1>2. \A k \in i + 1 .. Len(line) : line[k] \in Byte
  OBVIOUS
<1> QED
  BY <1>1, <1>2, SubSeqProperties DEF Rest

LEMMA WiderSeq ==
  ASSUME NEW S, NEW T, S \subseteq T, NEW s \in Seq(S)
  PROVE  s \in Seq(T)
<1>1. Len(s) \in Nat /\ s \in [1 .. Len(s) -> S]
  BY LenProperties
<1>2. s \in [1 .. Len(s) -> T]
  BY <1>1
<1> QED
  BY <1>1, <1>2

\* A command that is understood came at the rate of the terminal.
LEMMA HeardIs ==
  ASSUME NEW line \in Lines
  PROVE  Heard(line) \in Seq(Byte) /\ (KeyOf(Heard(line)) # 255 => host = baud)
<1>1. line \in Seq(Byte)
  <2> DEFINE S == 1 .. 255
  <2>1. line \in Seq(S)
    BY LinesAssumption
  <2>2. S \subseteq Byte
    BY DEF Byte
  <2> HIDE DEF S
  <2> QED
    BY <2>1, <2>2, WiderSeq
<1>2. Noise \in Seq(Byte) /\ KeyOf(Noise) = 255
  BY DEF Noise, KeyOf, Byte
<1> QED
  BY <1>1, <1>2 DEF Heard

LEMMA CountIs == Types => NextCount \in 0 .. CountSize - 1 /\ NextCount \in Byte
BY CountAssumption DEF Types, NextCount, Byte

LEMMA CountedIs ==
  ASSUME Types
  PROVE  /\ Counted \in SeenType
         /\ Counted.row = seen.row /\ Counted.torn = seen.torn /\ Counted.named = seen.named
         /\ Counted.talked = seen.talked /\ Counted.came = seen.came /\ Counted.new = seen.new
         /\ Counted.since = (IF seen.named THEN Least(seen.since + 1, CountSize) ELSE 0)
<1>1. seen \in SeenType
  BY DEF Types, SeenType
<1> DEFINE n == IF seen.named THEN Least(seen.since + 1, CountSize) ELSE 0
<1>2. n \in 0 .. CountSize
  BY <1>1, CountAssumption DEF Least, SeenType
<1>3. Counted = [seen EXCEPT !.since = n]
  BY Zenon DEF Counted
<1> HIDE DEF n
<1>4. /\ Counted \in SeenType
      /\ Counted.row = seen.row /\ Counted.torn = seen.torn /\ Counted.named = seen.named
      /\ Counted.talked = seen.talked /\ Counted.came = seen.came /\ Counted.new = seen.new
      /\ Counted.since = n
  BY <1>1, <1>2, <1>3 DEF SeenType
<1> QED
  BY <1>4 DEF n

LEMMA Modulo == \A n \in Nat \ {0} : n % n = 0 /\ \A m \in 0 .. n - 1 : m % n = m
<1>1. ASSUME NEW n \in Nat \ {0} PROVE n % n = 0
  OBVIOUS
<1>2. ASSUME NEW n \in Nat \ {0}, NEW m \in 0 .. n - 1 PROVE m % n = m
  OBVIOUS
<1> QED
  BY <1>1, <1>2

\* A command that brings no name leaves it behind by one more.
LEMMA NamedNext ==
  ASSUME Types, Named, count' = NextCount, first' = first, seen'.named = seen.named,
         seen'.since = Counted.since
  PROVE  Named'
<1>1. /\ count \in 0 .. CountSize - 1 /\ seen.since \in 0 .. CountSize /\ CountSize \in 1 .. 256
      /\ first \in Byte
  BY CountAssumption DEF Types, SeenType
<1>2. seen'.since = (IF seen.named THEN Least(seen.since + 1, CountSize) ELSE 0)
  BY CountedIs
<1>3. ~seen'.named => first' = NeverCounted
  BY DEF Named
<1>4. seen'.named => first' \in 0 .. CountSize - 1
  BY DEF Named
<1>5. ASSUME seen'.named, seen'.since < CountSize
      PROVE  first' = count' - seen'.since \/ first' = count' - seen'.since + CountSize
  <2>1. seen'.since = seen.since + 1 /\ seen.since < CountSize
    BY <1>1, <1>2, <1>5 DEF Least
  <2>2. first = count - seen.since \/ first = count - seen.since + CountSize
    BY <1>5, <2>1 DEF Named
  <2>3. first \in 0 .. CountSize - 1
    BY <1>4, <1>5
  <2>4. CASE count + 1 < CountSize
    <3>1. count' = count + 1
      <4>1. count + 1 \in 0 .. CountSize - 1 /\ CountSize \in Nat \ {0}
        BY <1>1, <2>4
      <4>2. (count + 1) % CountSize = count + 1
        BY <4>1, Modulo
      <4> QED
        BY <4>2 DEF NextCount
    <3> QED
      BY <1>1, <2>1, <2>2, <3>1
  <2>5. CASE ~(count + 1 < CountSize)
    <3>1. count + 1 = CountSize
      BY <1>1, <2>5
    <3>2. count' = 0
      BY <1>1, <3>1, Modulo DEF NextCount
    <3> QED
      BY <1>1, <2>1, <2>2, <2>3, <3>1, <3>2
  <2> QED
    BY <2>4, <2>5
<1> QED
  BY <1>3, <1>4, <1>5 DEF Named

\* Between two lines the display is ready.
LEMMA Idle ==
  ASSUME Types, Display, bus = <<>>, "LCD" \in features, ~seen.torn
  PROVE  Ready
<1>1. Len(bus) = 0
  OBVIOUS
<1>2. ASSUME NEW k \in 0 .. 28, Booting(k) PROVE FALSE
  <2>1. Len(bus) = 29 - k
    BY <1>2, Zenon DEF Booting
  <2> QED
    BY <1>1, <2>1
<1>3. ASSUME NEW row \in 0 .. 1, NEW k \in 0 .. 2 * LcdWidth + 1, Printing(row, k) PROVE FALSE
  <2>1. Len(bus) = 2 * LcdWidth + 2 - k
    BY <1>3, Zenon DEF Printing
  <2> QED
    BY <1>1, <2>1, Widths
<1> QED
  BY <1>2, <1>3 DEF Display, InStep

\* A command that writes nothing to the display changes nothing there.
LEMMA NothingShown ==
  ASSUME Types, Display, bus = <<>>, bus' = <<>>, lcd' = lcd, features' = features,
         seen'.row = seen.row, seen'.torn = seen.torn
  PROVE  Display'
<1>1. ~lcd'.four => lcd'.high = None
  BY DEF Display
<1>2. ASSUME "LCD" \in features, ~seen.torn PROVE Ready'
  <2>1. Ready
    BY <1>2, Idle
  <2> QED
    BY <2>1 DEF Ready, ShownUpTo
<1> QED
  BY <1>1, <1>2 DEF Display, InStep

-----------------------------------------------------------------------------
(* Every step keeps the invariant. *)

\* What every command does.
Counting == bus = <<>> /\ count' = NextCount /\ UNCHANGED <<features, host, lcd>>

\* What is kept of a rate and a name by a step that stores no other rate.
LEMMA KeptStays ==
  ASSUME Kept, ee'.baud = ee.baud, ee'.name[NameSize] \in {NUL, ee.name[NameSize]},
         seen'.new = seen.new, seen.talked \subseteq seen'.talked,
         seen'.named => seen.named /\ seen'.came = seen.came /\ name_checksum' = name_checksum
  PROVE  Kept'
<1>1. HalfOfNew' = HalfOfNew
  BY DEF HalfOfNew
<1>2. Worked \subseteq Worked'
  BY <1>1 DEF Worked
<1>3. UpperWorked'
  BY <1>2 DEF Kept, UpperWorked
<1>4. NameEnds'
  BY DEF Kept, NameEnds
<1>5. Summed'
  BY DEF Kept, Summed
<1> QED
  BY <1>3, <1>4, <1>5 DEF Kept

LEMMA CommandKeeps ==
  ASSUME IInv, Counting, first' \in Byte, name_checksum' \in SUBSET (0 .. 7),
         ee' \in EepromType, baud' \in ValidBauds, bus' = <<>>,
         leds' \in SUBSET Colours, seen' \in SeenType,
         seen'.row = seen.row, seen'.torn = seen.torn, Kept', Named'
  PROVE  IInv'
<1>1. Types'
  BY CountIs DEF IInv, Types, Counting, EepromType, SeenType, Colours
<1>2. Display'
  BY NothingShown DEF IInv, Counting
<1> QED
  BY <1>1, <1>2 DEF IInv

\* A command that is counted and stores no name and no rate.
LEMMA CountedKeeps ==
  ASSUME IInv, Counting, seen' = Counted, first' = first, name_checksum' = name_checksum,
         baud' = baud, bus' = <<>>, ee' \in EepromType, ee'.baud = ee.baud,
         ee'.name[NameSize] \in {NUL, ee.name[NameSize]}, leds' \in SUBSET Colours
  PROVE  IInv'
<1>1. /\ seen' \in SeenType /\ seen'.row = seen.row /\ seen'.torn = seen.torn
      /\ seen'.named = seen.named /\ seen'.talked = seen.talked /\ seen'.since = Counted.since
      /\ seen'.came = seen.came /\ seen'.new = seen.new
  BY CountedIs DEF IInv
<1>2. Named'
  BY <1>1, NamedNext DEF IInv, Counting
<1>3. Kept'
  BY <1>1, KeptStays DEF IInv
<1>4. first \in Byte /\ name_checksum \in SUBSET (0 .. 7) /\ baud \in ValidBauds
  BY DEF IInv, Types
<1> QED
  BY <1>1, <1>2, <1>3, <1>4, CommandKeeps

LEMMA Now == IInv => /\ ee \in EepromType /\ leds \in SUBSET Colours
                     /\ first \in Byte /\ name_checksum \in SUBSET (0 .. 7) /\ baud \in ValidBauds
                     /\ seen \in SeenType /\ lcd \in LcdType /\ host \in Rates
BY DEF IInv, Types, Colours

LEMMA ShowKeeps == ASSUME IInv, Counting, NEW line, Show(line) PROVE IInv'
BY CountedKeeps, Now DEF Show, naming, Counting

LEMMA UnknownKeeps == ASSUME IInv, Counting, NEW line, Unknown(line) PROVE IInv'
BY CountedKeeps, Now DEF Unknown, naming, Counting

LEMMA SetLEDKeeps == ASSUME IInv, Counting, NEW line, SetLED(line) PROVE IInv'
<1>1. \A c : Led(c) \in SUBSET Colours
  BY DEF Led, Colours
<1>2. leds' \in SUBSET Colours
  BY <1>1 DEF SetLED
<1> QED
  BY <1>2, CountedKeeps, Now DEF SetLED, naming, Counting

LEMMA SetFlagKeeps == ASSUME IInv, Counting, NEW line, SetFlagCommand(line) PROVE IInv'
<1> DEFINE on == CharAt(line, 2) = 49
<1>1. on \in BOOLEAN
  OBVIOUS
<1>2. ee' = ee \/ ee' = [ee EXCEPT !.flag = on]
  BY Zenon DEF SetFlagCommand
<1> HIDE DEF on
<1>3. ee' \in EepromType /\ ee'.baud = ee.baud /\ ee'.name = ee.name
  BY <1>1, <1>2, Now DEF EepromType
<1> QED
  BY <1>3, CountedKeeps, Now DEF SetFlagCommand, naming, Counting

LEMMA ReceiveNameKeeps ==
  ASSUME IInv, Counting, NEW line \in Seq(Byte), ReceiveName(line)
  PROVE  IInv'
<1>1. /\ ee' \in EepromType /\ ee'.baud = ee.baud
      /\ ee'.name[NameSize] \in {NUL, ee.name[NameSize]}
  <2>1. CASE Len(line) >= 4 /\ Confirms /\ Checksum(line) = name_checksum
    <3> DEFINE new == Stored(Rest(line, 1))
    <3>1. new \in [1 .. NameSize -> Byte] /\ new[NameSize] = NUL
      BY <2>1, RestIs, StoredIs
    <3>2. ee' = [ee EXCEPT !.name = new]
      BY <2>1 DEF ReceiveName
    <3> HIDE DEF new
    <3> QED
      BY <3>1, <3>2, Now DEF EepromType, Byte
  <2>2. CASE ~(Len(line) >= 4 /\ Confirms /\ Checksum(line) = name_checksum)
    <3>1. ee' = ee
      BY <2>2, Zenon DEF ReceiveName
    <3> QED
      BY <3>1, Now
  <2> QED
    BY <2>1, <2>2
<1>2. CASE Len(line) >= 4 /\ ~Confirms
  <2>1. /\ first' = NextCount /\ name_checksum' = Checksum(line)
        /\ seen' = [seen EXCEPT !.since = 0, !.named = TRUE, !.came = line]
    BY <1>2, Zenon DEF ReceiveName
  <2>2. seen \in SeenType /\ 0 \in 0 .. CountSize
    BY Now, CountAssumption
  <2>3. /\ seen' \in SeenType /\ seen'.row = seen.row /\ seen'.torn = seen.torn
        /\ seen'.named = TRUE /\ seen'.since = 0 /\ seen'.talked = seen.talked
        /\ seen'.came = line /\ seen'.new = seen.new
    <3>1. PICK t \in BOOLEAN : t = TRUE
      OBVIOUS
    <3>2. seen' = [seen EXCEPT !.since = 0, !.named = t, !.came = line]
      BY <2>1, <3>1
    <3>3. /\ seen' \in SeenType /\ seen'.row = seen.row /\ seen'.torn = seen.torn
          /\ seen'.named = t /\ seen'.since = 0 /\ seen'.talked = seen.talked
          /\ seen'.came = line /\ seen'.new = seen.new
      BY <2>2, <3>2 DEF SeenType
    <3> QED
      BY <3>1, <3>3, Zenon
  <2>4. Named'
    <3>1. first' = count' /\ count' \in 0 .. CountSize - 1
      BY <2>1, CountIs DEF Counting, IInv
    <3>2. seen'.since = 0
      BY <2>3, Zenon
    <3>3. first' = count' - seen'.since
      <4>1. \A n \in 0 .. CountSize - 1 : n - 0 = n
        BY CountAssumption
      <4> QED
        BY <3>1, <3>2, <4>1, Zenon
    <3> QED
      BY <2>3, <3>1, <3>3 DEF Named
  <2>5. Kept'
    <3>1. UpperWorked' /\ NameEnds'
      <4>1. Worked' = Worked
        BY <2>3 DEF Worked, HalfOfNew
      <4>2. UpperWorked'
        BY <1>1, <4>1 DEF IInv, Kept, UpperWorked
      <4>3. NameEnds'
        BY <1>1, <2>3 DEF IInv, Kept, NameEnds
      <4> QED
        BY <4>2, <4>3
    <3>2. Summed'
      BY <2>1, <2>3, Zenon DEF Summed
    <3> QED
      BY <3>1, <3>2 DEF Kept
  <2>6. Checksum(line) \in SUBSET (0 .. 7)
    BY DEF Checksum
  <2>7. first' \in Byte /\ baud' \in ValidBauds /\ leds' \in SUBSET Colours /\ bus' = <<>>
    BY <2>1, CountIs, Now DEF ReceiveName, Counting, IInv
  <2> QED
    BY <1>1, <2>1, <2>3, <2>4, <2>5, <2>6, <2>7, CommandKeeps
<1>3. CASE ~(Len(line) >= 4 /\ ~Confirms)
  <2>1. first' = first /\ name_checksum' = name_checksum /\ seen' = Counted
    BY <1>3, Zenon DEF ReceiveName, naming
  <2>2. baud' = baud /\ leds' = leds /\ bus' = <<>>
    BY DEF ReceiveName, Counting
  <2> QED
    BY <1>1, <2>1, <2>2, CountedKeeps, Now
<1> QED
  BY <1>2, <1>3

\* A rate is stored when the host asks for the one that it is heard at.
LEMMA SetNewBaudRateKeeps ==
  ASSUME IInv, Counting, NEW line, SetNewBaudRate(line), host = baud
  PROVE  IInv'
<1> DEFINE bd == parseDec(Rest(line, 1))
           talked == seen.talked \cup {host}
<1>1. seen' = [Counted EXCEPT !.talked = talked]
  BY CountedIs DEF SetNewBaudRate, IInv
<1>2. Counted \in SeenType /\ talked \in SUBSET Rates /\ seen.talked \subseteq talked /\ host \in talked
  BY Now, CountedIs DEF SeenType, IInv
<1> HIDE DEF talked
<1>3. /\ seen' \in SeenType /\ seen'.row = Counted.row /\ seen'.torn = Counted.torn
      /\ seen'.named = Counted.named /\ seen'.since = Counted.since /\ seen'.talked = talked
      /\ seen'.came = Counted.came /\ seen'.new = Counted.new
  BY <1>1, <1>2 DEF SeenType
<1>4. Named'
  BY <1>3, CountedIs, NamedNext DEF IInv, Counting, SetNewBaudRate, naming
<1>5. /\ first' = first /\ name_checksum' = name_checksum /\ leds' = leds /\ bus' = <<>>
  BY DEF SetNewBaudRate, naming, Counting
<1>6. seen'.row = seen.row /\ seen'.torn = seen.torn
  BY <1>3, CountedIs DEF IInv
<1> HIDE DEF bd
<1>7. \/ ee' = ee /\ baud' = baud
      \/ bd = baud /\ ee' = [ee EXCEPT !.baud = bd] /\ baud' = baud
      \/ baud' = SetBaud(bd) /\ ee' = ee
  BY DEF SetNewBaudRate, bd
<1>8. baud' \in ValidBauds
  BY <1>7, BaudIs, Now
<1>9. /\ ee' \in EepromType /\ ee'.name = ee.name
      /\ ee'.baud = ee.baud \/ ee'.baud = baud
  <2>1. baud \in Word
    BY BaudIs, Now
  <2> QED
    BY <1>7, <2>1, Now DEF EepromType
<1>10. Kept'
  <2>1. /\ seen'.talked = talked /\ seen'.new = seen.new /\ seen'.came = seen.came
        /\ seen'.named = seen.named
    BY <1>3, CountedIs DEF IInv
  <2>2. Worked \subseteq Worked' /\ baud \in Worked'
    BY <1>2, <2>1 DEF Worked, HalfOfNew
  <2>3. UpperWorked'
    BY <1>9, <2>2, UppersDiffer, Now DEF IInv, Kept, UpperWorked
  <2>4. NameEnds'
    BY <1>9, <2>1 DEF IInv, Kept, NameEnds
  <2>5. Summed'
    BY <1>5, <2>1 DEF IInv, Kept, Summed
  <2> QED
    BY <2>3, <2>4, <2>5 DEF Kept
<1> QED
  BY <1>3, <1>4, <1>5, <1>6, <1>8, <1>9, <1>10, CommandKeeps, Now

LEMMA WriteLcdKeeps ==
  ASSUME IInv, Counting, NEW line \in Seq(Byte), WriteLcd(line)
  PROVE  IInv'
<1> DEFINE row == RowNumber(line) % 256
           text == Rest(line, 2)
<1>1. /\ "LCD" \in features /\ first' = first /\ name_checksum' = name_checksum /\ ee' = ee
      /\ baud' = baud /\ leds' = leds
  BY Zenon DEF WriteLcd, naming
<1>2. CASE Len(line) >= 2 /\ RowNumber(line) < 2 /\ row \in 0 .. 1
  <2>1. text \in Seq(Byte)
    BY <1>2, RestIs
  <2>2. bus' = LcdPrint(row, text) /\ seen' = [Counted EXCEPT !.row[row] = Row(text)]
    BY <1>2 DEF WriteLcd
  <2> HIDE DEF row, text
  <2>3. Row(text) \in [1 .. LcdWidth -> Byte] /\ Counted \in SeenType
    BY <2>1, RowIs, CountedIs DEF IInv
  <2>4. /\ seen' \in SeenType /\ seen'.torn = seen.torn /\ seen'.named = seen.named
        /\ seen'.since = Counted.since /\ seen'.talked = seen.talked
        /\ seen'.came = seen.came /\ seen'.new = seen.new
        /\ seen'.row[row] = Row(text)
        /\ \A r \in 0 .. 1 : r # row => seen'.row[r] = seen.row[r]
    <3>1. /\ seen' \in SeenType /\ seen'.torn = Counted.torn /\ seen'.named = Counted.named
          /\ seen'.since = Counted.since /\ seen'.talked = Counted.talked
          /\ seen'.came = Counted.came /\ seen'.new = Counted.new
          /\ seen'.row = [Counted.row EXCEPT ![row] = Row(text)]
      BY <1>2, <2>2, <2>3 DEF SeenType
    <3>2. Counted.row \in [0 .. 1 -> [1 .. LcdWidth -> Byte]]
      BY <2>3 DEF SeenType
    <3>3. seen'.row[row] = Row(text) /\ \A r \in 0 .. 1 : r # row => seen'.row[r] = Counted.row[r]
      BY <1>2, <3>1, <3>2
    <3> QED
      BY <3>1, <3>3, CountedIs DEF IInv
  <2>5. Named'
    BY <1>1, <2>4, NamedNext DEF IInv, Counting
  <2>6. Kept'
    BY <1>1, <2>4, KeptStays DEF IInv
  <2>7. /\ bus' \in Seq(Nibble) /\ Len(bus') = 2 * LcdWidth + 2
        /\ \A m \in 1 .. 2 * LcdWidth + 2 : bus'[m] = Text(row, Row(text), m)
    BY <1>2, <2>1, <2>2, LcdPrintIs
  <2>8. Types'
    BY <1>1, <2>4, <2>7, CountIs DEF IInv, Types, Counting, SeenType
  <2>9. lcd' = lcd /\ features' = features /\ (~lcd.four => lcd.high = None)
    BY DEF Counting, IInv, Display
  <2>10. ASSUME ~seen.torn PROVE Printing(row, 0)'
    <3>1. Ready
      BY <1>1, <2>10, Idle DEF IInv, Counting
    <3>2. lcd'.four /\ lcd'.on /\ lcd'.high = None
      BY <2>9, <3>1 DEF Ready
    <3>3. ShownUpTo(row, 0)'
      BY DEF ShownUpTo
    <3>4. ShownUpTo(1 - row, LcdWidth + 1)'
      <4>1. 1 - row \in 0 .. 1 /\ 1 - row # row
        BY <1>2
      <4>2. ShownUpTo(1 - row, LcdWidth + 1) /\ seen'.row[1 - row] = seen.row[1 - row]
        BY <2>4, <3>1, <4>1 DEF Ready
      <4> QED
        BY <2>9, <4>2 DEF ShownUpTo
    <3>5. /\ Len(bus') = 2 * LcdWidth + 2 - 0
          /\ \A i \in 1 .. 2 * LcdWidth + 2 - 0 : bus'[i] = Text(row, seen'.row[row], 0 + i)
      BY <2>4, <2>7, Widths
    <3>6. 0 % 2 = 0 /\ 0 \div 2 = 0 /\ ~(0 >= 2)
      OBVIOUS
    <3> QED
      BY <3>2, <3>3, <3>4, <3>5, <3>6, Zenon DEF Printing
  <2>11. Display'
    <3>1. 0 \in 0 .. 2 * LcdWidth + 1
      BY Widths
    <3> QED
      BY <1>1, <1>2, <2>4, <2>9, <2>10, <3>1, Zenon DEF Display, InStep
  <2> QED
    BY <2>5, <2>6, <2>8, <2>11 DEF IInv
<1>3. CASE ~(Len(line) >= 2 /\ RowNumber(line) < 2 /\ row \in 0 .. 1)
  <2>1. bus' = <<>> /\ seen' = Counted
    <3>1. CASE ~(Len(line) >= 2 /\ RowNumber(line) < 2)
      BY <3>1, Zenon DEF WriteLcd, Counting
    <3>2. CASE Len(line) >= 2 /\ RowNumber(line) < 2 /\ row \notin 0 .. 1
      <4>1. CharAt(line, 1) \in 0 .. 255
        BY CharAtIs DEF Byte
      <4>2. RowNumber(line) \in Int
        <5>1. \A c \in 0 .. 255 : Signed(c) - 48 \in Int
          BY DEF Signed
        <5> QED
          BY <4>1, <5>1, Zenon DEF RowNumber
      <4>3. row > 1
        <5>1. \A n \in Int : n % 256 \notin 0 .. 1 => n % 256 > 1
          OBVIOUS
        <5> QED
          BY <3>2, <4>2, <5>1, Zenon
      <4>4. bus' = LcdPrint(row, text) /\ seen' = Counted
        BY <3>2, Zenon DEF WriteLcd
      <4> QED
        BY <4>3, <4>4 DEF LcdPrint
    <3> QED
      BY <1>3, <3>1, <3>2
  <2> QED
    BY <1>1, <2>1, CountedKeeps, Now
<1> QED
  BY <1>2, <1>3

\* A nibble goes to the display.
LEMMA WriteKeeps == ASSUME IInv, Write PROVE IInv'
<1>1. /\ features' = features /\ count' = count /\ first' = first /\ name_checksum' = name_checksum
      /\ ee' = ee /\ baud' = baud /\ host' = host /\ leds' = leds /\ seen' = seen
  BY DEF Write, naming
<1>2. bus \in Seq(Nibble) /\ bus # <<>> /\ lcd \in LcdType /\ (~lcd.four => lcd.high = None)
  BY DEF IInv, Types, Display, Write
<1>3. Head(bus) \in Nibble /\ bus' \in Seq(Nibble)
  BY <1>2, TailIs DEF Write
<1>4. lcd' \in LcdType /\ (~lcd'.four => lcd'.high = None)
  BY <1>2, <1>3, TakeType DEF Write
<1>5. Types'
  BY <1>1, <1>3, <1>4 DEF IInv, Types
<1>6. Kept' /\ Named'
  BY <1>1, KeptStays DEF IInv, Named
<1>7. "LCD" \in features
  BY <1>2 DEF IInv, Display
<1>8. ASSUME ~seen.torn PROVE InStep'
  <2>1. CASE Ready
    BY <1>2, <2>1 DEF Ready
  <2>2. ASSUME NEW k \in 0 .. 28, Booting(k)
        PROVE  Ready' \/ \E m \in 0 .. 28 : Booting(m)'
    <3>1. Ready' \/ (k < 28 /\ Booting(k + 1)')
      BY <1>2, <2>2, BootStep DEF IInv
    <3>2. k < 28 => k + 1 \in 0 .. 28
      OBVIOUS
    <3> QED
      BY <3>1, <3>2, Zenon
  <2>3. ASSUME NEW row \in 0 .. 1, NEW k \in 0 .. 2 * LcdWidth + 1, Printing(row, k)
        PROVE  Ready' \/ \E m \in 0 .. 2 * LcdWidth + 1 : Printing(row, m)'
    <3>1. Ready' \/ (k < 2 * LcdWidth + 1 /\ Printing(row, k + 1)')
      BY <2>3, PrintStep DEF IInv
    <3>2. k < 2 * LcdWidth + 1 => k + 1 \in 0 .. 2 * LcdWidth + 1
      BY Widths
    <3> QED
      BY <3>1, <3>2, Zenon
  <2>4. \/ Ready \/ \E k \in 0 .. 28 : Booting(k)
        \/ \E row \in 0 .. 1, k \in 0 .. 2 * LcdWidth + 1 : Printing(row, k)
    BY <1>7, <1>8 DEF IInv, Display, InStep
  <2> QED
    BY <2>1, <2>2, <2>3, <2>4, Zenon DEF InStep
<1>9. Display'
  <2>1. "LCD" \in features' /\ (~seen'.torn => ~seen.torn)
    BY <1>1, <1>7
  <2> QED
    BY <1>4, <1>8, <2>1 DEF Display
<1> QED
  BY <1>5, <1>6, <1>9 DEF IInv

LEMMA StaysInStep ==
  ASSUME InStep, lcd' = lcd, bus' = bus, seen' = seen
  PROVE  InStep'
<1>1. Ready => Ready'
  BY DEF Ready, ShownUpTo
<1>2. ASSUME NEW k \in 0 .. 28, Booting(k) PROVE Booting(k)'
  BY <1>2 DEF Booting, Reached
<1>3. ASSUME NEW row \in 0 .. 1, NEW k \in 0 .. 2 * LcdWidth + 1, Printing(row, k)
      PROVE  Printing(row, k)'
  BY <1>3 DEF Printing, ShownUpTo
<1>4. CASE Ready
  BY <1>1, <1>4 DEF InStep
<1>5. CASE \E k \in 0 .. 28 : Booting(k)
  <2>1. PICK k \in 0 .. 28 : Booting(k)
    BY <1>5
  <2> QED
    BY <1>2, <2>1, Zenon DEF InStep
<1>6. CASE \E row \in 0 .. 1, k \in 0 .. 2 * LcdWidth + 1 : Printing(row, k)
  <2>1. PICK row \in 0 .. 1, k \in 0 .. 2 * LcdWidth + 1 : Printing(row, k)
    BY <1>6
  <2> QED
    BY <1>3, <2>1, Zenon DEF InStep
<1> QED
  BY <1>4, <1>5, <1>6 DEF InStep

LEMMA HostKeeps == ASSUME IInv, NEW r \in Rates, HostSetsBaud(r) PROVE IInv'
<1>1. /\ features' = features /\ count' = count /\ first' = first /\ name_checksum' = name_checksum
      /\ ee' = ee /\ baud' = baud /\ lcd' = lcd /\ bus' = bus /\ leds' = leds /\ seen' = seen
      /\ host' = r
  BY DEF HostSetsBaud, naming
<1>2. Types' /\ Kept' /\ Named'
  BY <1>1, KeptStays DEF IInv, Types, Named
<1>3. InStep => InStep'
  BY <1>1, StaysInStep
<1>4. Display'
  BY <1>1, <1>3 DEF IInv, Display
<1> QED
  BY <1>2, <1>4 DEF IInv

\* After a glitch the initialisation begins, wherever the display was.
LEMMA RestartKeeps ==
  ASSUME IInv, NEW eeprom \in EepromType, NEW talked \in SUBSET Rates, Restart(eeprom, talked),
         seen.talked \subseteq talked,
         \A bd \in ValidBauds : Upper(bd) = Upper(eeprom.baud) => bd \in talked \cup HalfOfNew,
         eeprom.name[NameSize] \in {NUL, ee.name[NameSize]}
  PROVE  IInv'
<1> DEFINE rows == [r \in 0 .. 1 |-> Row(<<>>)]
           torn == lcd.four /\ lcd.high # None
<1>1. /\ features' = features /\ count' = 0 /\ first' = NeverCounted /\ name_checksum' = {}
      /\ ee' = eeprom /\ baud' = SetBaud(eeprom.baud) /\ leds' = {} /\ host' = host /\ lcd' = lcd
      /\ bus' = IF "LCD" \in features THEN LcdInit ELSE <<>>
      /\ seen' = [seen EXCEPT !.row = rows, !.named = FALSE, !.came = <<>>, !.since = 0,
                             !.talked = talked, !.torn = torn]
  BY DEF Restart
<1>2. rows \in [0 .. 1 -> [1 .. LcdWidth -> Byte]] /\ torn \in BOOLEAN
      /\ \A r \in 0 .. 1 : \A i \in 1 .. LcdWidth : rows[r][i] = Space
  <2>1. <<>> \in Seq(Byte) /\ \A i \in 1 .. LcdWidth : Row(<<>>)[i] = Space
    BY Widths DEF Row
  <2>2. Row(<<>>) \in [1 .. LcdWidth -> Byte]
    BY <2>1, RowIs
  <2> QED
    BY <2>1, <2>2
<1>3. seen' \in SeenType /\ seen'.row = rows /\ seen'.torn = torn /\ seen'.named = FALSE
       /\ seen'.since = 0 /\ seen'.talked = talked /\ seen'.new = seen.new
  <2>1. FALSE \in BOOLEAN /\ <<>> \in Seq(Byte)
    OBVIOUS
  <2> HIDE DEF rows, torn
  <2>2. rows \in [0 .. 1 -> [1 .. LcdWidth -> Byte]] /\ torn \in BOOLEAN
    BY <1>2
  <2>3. seen' = [seen EXCEPT !.row = rows, !.named = FALSE, !.came = <<>>, !.since = 0,
                             !.talked = talked, !.torn = torn]
    BY <1>1
  <2>4. PICK R \in [0 .. 1 -> [1 .. LcdWidth -> Byte]], t \in BOOLEAN, f \in BOOLEAN,
             c \in Seq(Byte) : R = rows /\ t = torn /\ f = FALSE /\ c = <<>>
    BY <2>1, <2>2, Zenon
  <2>5. seen' = [seen EXCEPT !.row = R, !.named = f, !.came = c, !.since = 0,
                             !.talked = talked, !.torn = t]
    BY <2>3, <2>4, Zenon
  <2>6. seen' \in SeenType /\ seen'.row = R /\ seen'.torn = t /\ seen'.named = f
        /\ seen'.since = 0 /\ seen'.talked = talked /\ seen'.new = seen.new
    <3>1. seen \in SeenType /\ 0 \in 0 .. CountSize
      BY Now, CountAssumption
    <3> QED
      BY <2>5, <3>1 DEF SeenType
  <2> QED
    BY <2>4, <2>6, Zenon
<1>4. bus' \in Seq(Nibble)
  <2>1. CASE "LCD" \in features
    BY <1>1, <2>1, LcdInitIs, Zenon
  <2>2. CASE "LCD" \notin features
    <3>1. <<>> \in Seq(Nibble)
      OBVIOUS
    <3> QED
      BY <1>1, <2>2, <3>1, Zenon
  <2> QED
    BY <2>1, <2>2
<1>5. Types'
  <2>1. 0 \in 0 .. CountSize - 1 /\ NeverCounted \in Byte
    BY CountAssumption DEF Byte
  <2>2. SetBaud(eeprom.baud) \in ValidBauds
    BY BaudIs
  <2> HIDE DEF rows, torn
  <2> QED
    BY <1>1, <1>3, <1>4, <2>1, <2>2 DEF IInv, Types
<1>6. Kept'
  <2>1. HalfOfNew' = HalfOfNew
    BY <1>3 DEF HalfOfNew
  <2>2. Worked' = talked \cup HalfOfNew
    BY <1>3, <2>1 DEF Worked
  <2>3. UpperWorked'
    BY <1>1, <2>2 DEF IInv, Kept, UpperWorked, Worked
  <2>4. NameEnds'
    BY <1>1, <1>3 DEF IInv, Kept, NameEnds
  <2>5. Summed'
    BY <1>3 DEF Summed
  <2> QED
    BY <2>3, <2>4, <2>5 DEF Kept
<1>7. Named'
  BY <1>1, <1>3 DEF Named
<1>8. ASSUME "LCD" \in features, ~seen'.torn PROVE Booting(0)'
  <2>1. lcd'.high = None
    BY <1>1, <1>3, <1>8 DEF IInv, Display
  <2>2. Reached(0)'
    BY <2>1 DEF Reached
  <2>3. bus' = LcdInit
    BY <1>1, <1>8
  <2>4. Len(bus') = 29 - 0 /\ \A i \in 1 .. 29 - 0 : bus'[i] = Program(0 + i)
    <3>1. Len(LcdInit) = 29 /\ \A m \in 1 .. 29 : LcdInit[m] = Program(m)
      BY LcdInitIs
    <3>2. 29 - 0 = 29 /\ \A i \in 1 .. 29 : 0 + i = i
      OBVIOUS
    <3> QED
      BY <2>3, <3>1, <3>2, Zenon
  <2>5. \A r \in 0 .. 1 : \A i \in 1 .. LcdWidth : seen'.row[r][i] = Space
    BY <1>2, <1>3
  <2> QED
    BY <2>2, <2>4, <2>5, Zenon DEF Booting
<1>9. Display'
  <2>1. 0 \in 0 .. 28
    OBVIOUS
  <2>2. (~lcd'.four => lcd'.high = None) /\ ("LCD" \notin features' => bus' = <<>>)
    BY <1>1 DEF IInv, Display
  <2> QED
    BY <1>1, <1>8, <2>1, <2>2, Zenon DEF Display, InStep
<1> QED
  BY <1>5, <1>6, <1>7, <1>9 DEF IInv

-----------------------------------------------------------------------------
(* The theorems. *)

LEMMA InitIs == Init => IInv
<1> SUFFICES ASSUME Init PROVE IInv
  OBVIOUS
<1> DEFINE rows == [r \in 0 .. 1 |-> Row(<<>>)]
           cells == [a \in Cells |-> Space]
<1>1. /\ features \in {{"LCD"}, {"LED"}} /\ count = 0 /\ first = NeverCounted /\ name_checksum = {}
      /\ ee \in Eeproms /\ baud = SetBaud(ee.baud) /\ host \in Rates /\ lcd = PowerOn
      /\ bus = (IF "LCD" \in features THEN LcdInit ELSE <<>>) /\ leds = {}
      /\ seen = [row |-> rows, torn |-> FALSE, named |-> FALSE, came |-> <<>>, since |-> 0,
                 new |-> ee, talked |-> {SERIAL_BAUDRATE}]
  BY DEF Init
<1>2. rows \in [0 .. 1 -> [1 .. LcdWidth -> Byte]]
      /\ \A r \in 0 .. 1 : \A i \in 1 .. LcdWidth : rows[r][i] = Space
  <2>1. <<>> \in Seq(Byte) /\ \A i \in 1 .. LcdWidth : Row(<<>>)[i] = Space
    BY Widths DEF Row
  <2>2. Row(<<>>) \in [1 .. LcdWidth -> Byte]
    BY <2>1, RowIs
  <2> QED
    BY <2>1, <2>2
<1>3. ee \in EepromType /\ baud \in ValidBauds /\ SERIAL_BAUDRATE \in Rates
  BY <1>1, EepromAssumption, BaudIs
<1>4. cells \in [Cells -> Byte]
  BY DEF Space, Byte
<1>5. lcd \in LcdType /\ ~lcd.four /\ lcd.high = None
  <2>1. lcd = [four |-> FALSE, high |-> None, font |-> FALSE, addr |-> 0, on |-> FALSE, cells |-> cells]
    BY <1>1 DEF PowerOn
  <2> HIDE DEF cells
  <2> QED
    BY <1>4, <2>1 DEF LcdType
<1> HIDE DEF rows
<1>6. bus \in Seq(Nibble)
  <2>1. <<>> \in Seq(Nibble)
    OBVIOUS
  <2> QED
    BY <1>1, <2>1, LcdInitIs, Zenon
<1>8. /\ seen \in SeenType /\ seen.row = rows /\ ~seen.named /\ seen.new = ee
      /\ seen.talked = {SERIAL_BAUDRATE}
  <2>1. <<>> \in Seq(Byte) /\ 0 \in 0 .. CountSize /\ {SERIAL_BAUDRATE} \in SUBSET Rates
    BY <1>3, CountAssumption
  <2> QED
    BY <1>1, <1>2, <1>3, <2>1 DEF SeenType
<1>9. Types
  <2>1. 0 \in 0 .. CountSize - 1 /\ NeverCounted \in Byte
    BY CountAssumption DEF Byte
  <2> QED
    BY <1>1, <1>3, <1>5, <1>6, <1>8, <2>1 DEF Types
<1>10. Kept
  <2>1. UpperWorked
    BY <1>8 DEF UpperWorked, Worked, HalfOfNew
  <2> QED
    BY <1>8, <2>1 DEF Kept, NameEnds, Summed
<1>11. Named
  BY <1>1, <1>8 DEF Named
<1>12. ASSUME "LCD" \in features PROVE Booting(0)
  <2>1. Reached(0)
    BY <1>5 DEF Reached
  <2>2. bus = LcdInit
    BY <1>1, <1>12
  <2>3. Len(bus) = 29 - 0 /\ \A i \in 1 .. 29 - 0 : bus[i] = Program(0 + i)
    <3>1. Len(LcdInit) = 29 /\ \A m \in 1 .. 29 : LcdInit[m] = Program(m)
      BY LcdInitIs
    <3>2. 29 - 0 = 29 /\ \A i \in 1 .. 29 : 0 + i = i
      OBVIOUS
    <3> QED
      BY <2>2, <3>1, <3>2, Zenon
  <2>4. \A r \in 0 .. 1 : \A i \in 1 .. LcdWidth : seen.row[r][i] = Space
    BY <1>2, <1>8
  <2> QED
    BY <2>1, <2>3, <2>4, Zenon DEF Booting
<1>13. Display
  <2>1. 0 \in 0 .. 28
    OBVIOUS
  <2> QED
    BY <1>1, <1>5, <1>12, <2>1, Zenon DEF Display, InStep
<1> QED
  BY <1>9, <1>10, <1>11, <1>13 DEF IInv

LEMMA GlitchKeeps == ASSUME IInv, Glitch PROVE IInv'
<1>0. /\ seen.talked \in SUBSET Rates /\ host \in Rates
      /\ \A bd \in ValidBauds : Upper(bd) = Upper(ee.baud) => bd \in seen.talked \cup HalfOfNew
  BY Now DEF SeenType, IInv, Kept, UpperWorked, Worked
<1>1. CASE PowerGlitch
  BY <1>0, <1>1, Now, RestartKeeps DEF PowerGlitch
<1>2. ASSUME NEW l \in Lines, NEW n \in 0 .. NameSize, GlitchInStore(Heard(l), n) PROVE IInv'
  <2> DEFINE line == Heard(l)
             new == Stored(Rest(line, 1))
             name == [i \in 1 .. NameSize |-> IF i <= n THEN new[i] ELSE ee.name[i]]
  <2>1. line \in Seq(Byte) /\ Len(line) >= 4
    BY <1>2, HeardIs DEF GlitchInStore
  <2>2. new \in [1 .. NameSize -> Byte] /\ new[NameSize] = NUL
    BY <2>1, RestIs, StoredIs
  <2>3. Restart([ee EXCEPT !.name = name], seen.talked)
    BY <1>2 DEF GlitchInStore
  <2> HIDE DEF new
  <2>4. ee.name \in [1 .. NameSize -> Byte]
    BY Now DEF EepromType, Byte
  <2>5. name \in [1 .. NameSize -> Byte]
    BY <2>2, <2>4
  <2>6. name[NameSize] \in {NUL, ee.name[NameSize]}
    BY <2>2, <2>4, NameAssumption
  <2> HIDE DEF name
  <2>7. /\ [ee EXCEPT !.name = name] \in EepromType /\ [ee EXCEPT !.name = name].baud = ee.baud
        /\ [ee EXCEPT !.name = name].name[NameSize] \in {NUL, ee.name[NameSize]}
    BY <2>5, <2>6, Now DEF EepromType, Byte
  <2>8. PICK e \in EepromType : e = [ee EXCEPT !.name = name]
    BY <2>7
  <2> QED
    BY <1>0, <2>3, <2>7, <2>8, RestartKeeps
<1>3. ASSUME NEW l \in Lines, GlitchInBaud(Heard(l)) PROVE IInv'
  <2> DEFINE line == Heard(l)
             bd == parseDec(Rest(line, 1))
             talked == seen.talked \cup {host}
  <2>1. PICK word \in Halfway(ee.baud, bd) : Restart([ee EXCEPT !.baud = word], talked)
    BY <1>3 DEF GlitchInBaud
  <2>2. KeyOf(line) = 66 /\ bd = baud
    BY <1>3 DEF GlitchInBaud
  <2>3. host = baud
    BY <2>2, HeardIs
  <2> HIDE DEF line, bd, talked
  <2>4. ee.baud \in Word /\ bd \in Word /\ bd \in ValidBauds
    BY <2>2, BaudIs, Now DEF EepromType
  <2>5. word \in Word /\ (Upper(word) = Upper(ee.baud) \/ Upper(word) = Upper(bd))
    BY <2>4, HalfwayIs
  <2>6. talked \in SUBSET Rates /\ seen.talked \subseteq talked /\ bd \in talked
    BY <1>0, <2>2, <2>3 DEF talked
  <2>7. PICK e \in EepromType : /\ e = [ee EXCEPT !.baud = word] /\ e.baud = word
                                /\ e.name = ee.name
    <3> DEFINE e == [ee EXCEPT !.baud = word]
    <3>1. e \in EepromType /\ e.baud = word /\ e.name = ee.name
      BY <2>5, Now DEF EepromType
    <3> QED
      BY <3>1
  <2>8. ASSUME NEW v \in ValidBauds, Upper(v) = Upper(e.baud) PROVE v \in talked \cup HalfOfNew
    <3>1. CASE Upper(word) = Upper(ee.baud)
      BY <1>0, <2>6, <2>7, <2>8, <3>1
    <3>2. CASE Upper(word) = Upper(bd)
      BY <2>4, <2>6, <2>7, <2>8, <3>2, UppersDiffer
    <3> QED
      BY <2>5, <3>1, <3>2
  <2> QED
    BY <2>1, <2>6, <2>7, <2>8, RestartKeeps
<1> QED
  BY <1>1, <1>2, <1>3 DEF Glitch

LEMMA StepIs == IInv /\ [Next]_vars => IInv'
<1> SUFFICES ASSUME IInv, [Next]_vars PROVE IInv'
  OBVIOUS
<1>1. ASSUME NEW l \in Lines, Command(Heard(l)) PROVE IInv'
  <2> DEFINE line == Heard(l)
  <2>1. line \in Seq(Byte) /\ (KeyOf(line) # 255 => host = baud)
    BY HeardIs
  <2>2. Counting
    BY <1>1 DEF Command, Counting
  <2>3. \/ Show(line) \/ WriteLcd(line) \/ SetLED(line) \/ ReceiveName(line)
        \/ SetNewBaudRate(line) \/ SetFlagCommand(line) \/ Unknown(line)
    BY <1>1 DEF Command
  <2> HIDE DEF line
  <2>4. ASSUME SetNewBaudRate(line) PROVE host = baud
    <3>1. KeyOf(line) = 66
      BY <2>4 DEF SetNewBaudRate
    <3> QED
      BY <2>1, <3>1
  <2> QED
    BY <2>1, <2>2, <2>3, <2>4, ShowKeeps, WriteLcdKeeps, SetLEDKeeps, ReceiveNameKeeps,
       SetNewBaudRateKeeps, SetFlagKeeps, UnknownKeeps
<1>2. CASE Write
  BY <1>2, WriteKeeps
<1>3. ASSUME NEW r \in Rates, HostSetsBaud(r) PROVE IInv'
  BY <1>3, HostKeeps
<1>4. CASE Glitch
  BY <1>4, GlitchKeeps
<1>5. CASE UNCHANGED vars
  <2>1. /\ features' = features /\ count' = count /\ first' = first /\ name_checksum' = name_checksum
        /\ ee' = ee /\ baud' = baud /\ host' = host /\ lcd' = lcd /\ bus' = bus /\ leds' = leds
        /\ seen' = seen
    BY <1>5 DEF vars
  <2>2. Types' /\ Kept' /\ Named'
    BY <2>1, KeptStays DEF IInv, Types, Named
  <2>3. InStep => InStep'
    BY <2>1, StaysInStep
  <2>4. Display'
    BY <2>1, <2>3 DEF IInv, Display
  <2> QED
    BY <2>2, <2>4 DEF IInv
<1> QED
  BY <1>1, <1>2, <1>3, <1>4, <1>5 DEF Next

\* The display is ready, or the next nibble of the initialisation or of a text is
\* the one it waits for; and what is kept of names and rates is right.
THEOREM Invariant == Spec => []IInv
BY InitIs, StepIs, PTL DEF Spec

\* The state is well-formed, storing a name does not take away the end of the one
\* in the EEPROM, and the rate the terminal begins with is the one of the build,
\* one that a command was understood at (SetNewBaudRate), or one that has the
\* upper byte the EEPROM had when it was new: whatever it held then, whatever
\* lines come and whenever the power fails, also between the two bytes of a rate.
THEOREM StoredRight == Spec => []StoredInv
<1>1. IInv => StoredInv
  <2> SUFFICES ASSUME IInv PROVE StoredInv
    OBVIOUS
  <2>1. TypeOK
    <3>1. /\ count \in 0 .. CountSize - 1 /\ first \in 0 .. 255 /\ name_checksum \subseteq 0 .. 7
          /\ baud \in ValidBauds /\ host \in Rates
          /\ leds \subseteq {"red", "green", "blue"}
      BY DEF IInv, Types, Colours, Byte
    <3>2. ee \in EepromType
      BY Now
    <3>3. /\ lcd.high \in {None} \cup 0 .. 15 /\ lcd.addr \in 0 .. 127
          /\ \A a \in Cells : lcd.cells[a] \in 0 .. 255
      BY Now DEF LcdType, Byte
    <3> QED
      BY <3>1, <3>2, <3>3, BaudIs, Zenon DEF TypeOK
  <2>2. StoredBaudWorked
    <3>1. ee.baud \in ValidBauds => SetBaud(ee.baud) = ee.baud
      BY BaudIs
    <3>2. ee.baud \notin ValidBauds => SetBaud(ee.baud) = SERIAL_BAUDRATE
      BY BaudIs DEF SetBaud
    <3> QED
      BY <3>1, <3>2 DEF IInv, Kept, UpperWorked, Worked, HalfOfNew, StoredBaudWorked
  <2> QED
    BY <2>1, <2>2 DEF StoredInv, IInv, Kept
<1> QED
  BY <1>1, Invariant, PTL

\* When nothing is on its way to it the display is on and shows what was last
\* written to its rows and nothing else (LcdDisplay, WriteLcd), also after any
\* number of glitches, unless one came between two nibbles of a byte.
THEOREM DisplayRight == Spec => []DisplayShows
<1>1. IInv => DisplayShows
  <2> SUFFICES ASSUME IInv, "LCD" \in features, bus = <<>>, ~seen.torn
               PROVE  lcd.on /\ \A r \in 0 .. 1 : Shown(lcd, r) = seen.row[r]
    BY DEF DisplayShows
  <2>1. Ready
    BY Idle DEF IInv
  <2>2. ASSUME NEW r \in 0 .. 1 PROVE Shown(lcd, r) = seen.row[r]
    <3>1. \A i \in 1 .. LcdWidth : lcd.cells[64 * r + i - 1] = seen.row[r][i]
      <4>1. \A i \in 1 .. LcdWidth : i < LcdWidth + 1
        BY Widths
      <4> QED
        BY <2>1, <4>1 DEF Ready, ShownUpTo
    <3>2. seen.row[r] \in [1 .. LcdWidth -> Byte]
      BY Now DEF SeenType
    <3> QED
      BY <3>1, <3>2 DEF Shown
  <2> QED
    BY <2>1, <2>2 DEF Ready
<1> QED
  BY <1>1, Invariant, PTL

\* A byte is the sum of its bits.
LEMMA Bits ==
  \A c \in 0 .. 255 :
      c = (c % 2) + 2 * ((c \div 2) % 2) + 4 * ((c \div 4) % 2) + 8 * ((c \div 8) % 2)
          + 16 * ((c \div 16) % 2) + 32 * ((c \div 32) % 2) + 64 * ((c \div 64) % 2)
          + 128 * ((c \div 128) % 2)
<1> TAKE c \in 0 .. 255
<1> DEFINE c1 == c \div 2
           c2 == c \div 4
           c3 == c \div 8
           c4 == c \div 16
           c5 == c \div 32
           c6 == c \div 64
           c7 == c \div 128
<1>1. /\ c1 \in Nat /\ c2 \in Nat /\ c3 \in Nat /\ c4 \in Nat /\ c5 \in Nat /\ c6 \in Nat
      /\ c7 \in 0 .. 1
  OBVIOUS
<1>2. /\ c1 \div 2 = c2 /\ c2 \div 2 = c3 /\ c3 \div 2 = c4 /\ c4 \div 2 = c5 /\ c5 \div 2 = c6
      /\ c6 \div 2 = c7
  OBVIOUS
<1>3. c = (c % 2) + 2 * c1
  OBVIOUS
<1> HIDE DEF c1, c2, c3, c4, c5, c6, c7
<1>4. \A n \in Nat : n = (n % 2) + 2 * (n \div 2)
  OBVIOUS
<1>5. /\ c1 = (c1 % 2) + 2 * c2 /\ c2 = (c2 % 2) + 2 * c3 /\ c3 = (c3 % 2) + 2 * c4
      /\ c4 = (c4 % 2) + 2 * c5 /\ c5 = (c5 % 2) + 2 * c6 /\ c6 = (c6 % 2) + 2 * c7
  BY <1>1, <1>2, <1>4
<1>6. c7 % 2 = c7
  BY <1>1
<1>7. c = (c % 2) + 2 * (c1 % 2) + 4 * (c2 % 2) + 8 * (c3 % 2) + 16 * (c4 % 2) + 32 * (c5 % 2)
          + 64 * (c6 % 2) + 128 * (c7 % 2)
  BY <1>1, <1>3, <1>5, <1>6
<1> QED
  BY <1>7 DEF c1, c2, c3, c4, c5, c6, c7

\* Two characters at the same place differ in a bit of what is added.
LEMMA BitDiffers ==
  ASSUME NEW c \in Byte, NEW d \in Byte, c # d, NEW i \in Nat
  PROVE  \E b \in 0 .. 7 : IsSet(b, c + i) # IsSet(b, d + i)
<1> DEFINE u == (c + i) % 256
           v == (d + i) % 256
<1>1. u \in 0 .. 255 /\ v \in 0 .. 255 /\ u # v
  <2>1. c \in Nat /\ d \in Nat /\ c <= 255 /\ d <= 255
    BY DEF Byte
  <2>2. \A n \in Nat : /\ n = 256 * (n \div 256) + (n % 256) /\ n \div 256 \in Nat
                      /\ n % 256 \in 0 .. 255
    OBVIOUS
  <2> DEFINE p == (c + i) \div 256
             q == (d + i) \div 256
  <2>3. /\ c + i = 256 * p + u /\ p \in Nat /\ u \in 0 .. 255
        /\ d + i = 256 * q + v /\ q \in Nat /\ v \in 0 .. 255
    BY <2>1, <2>2
  <2> HIDE DEF p, q, u, v
  <2>4. ASSUME u = v PROVE FALSE
    <3>1. c - d = 256 * (p - q)
      BY <2>1, <2>3, <2>4
    <3>2. p = q
      BY <2>1, <2>3, <3>1
    <3> QED
      BY <2>1, <2>3, <3>1, <3>2
  <2> QED
    BY <2>3, <2>4
<1>2. /\ IsSet(0, c + i) <=> (u \div 1) % 2 = 1
      /\ IsSet(1, c + i) <=> (u \div 2) % 2 = 1
      /\ IsSet(2, c + i) <=> (u \div 4) % 2 = 1
      /\ IsSet(3, c + i) <=> (u \div 8) % 2 = 1
      /\ IsSet(4, c + i) <=> (u \div 16) % 2 = 1
      /\ IsSet(5, c + i) <=> (u \div 32) % 2 = 1
      /\ IsSet(6, c + i) <=> (u \div 64) % 2 = 1
      /\ IsSet(7, c + i) <=> (u \div 128) % 2 = 1
  BY DEF IsSet
<1>3. /\ IsSet(0, d + i) <=> (v \div 1) % 2 = 1
      /\ IsSet(1, d + i) <=> (v \div 2) % 2 = 1
      /\ IsSet(2, d + i) <=> (v \div 4) % 2 = 1
      /\ IsSet(3, d + i) <=> (v \div 8) % 2 = 1
      /\ IsSet(4, d + i) <=> (v \div 16) % 2 = 1
      /\ IsSet(5, d + i) <=> (v \div 32) % 2 = 1
      /\ IsSet(6, d + i) <=> (v \div 64) % 2 = 1
      /\ IsSet(7, d + i) <=> (v \div 128) % 2 = 1
  BY DEF IsSet
<1> HIDE DEF u, v
<1>4. SUFFICES ASSUME \A b \in 0 .. 7 : IsSet(b, c + i) <=> IsSet(b, d + i)
               PROVE  FALSE
  <2>1. ASSUME NEW b \in 0 .. 7 PROVE IsSet(b, c + i) \in BOOLEAN /\ IsSet(b, d + i) \in BOOLEAN
    BY Zenon DEF IsSet
  <2> QED
    BY <2>1, <1>4, Zenon
<1>5. \A n \in 0 .. 255 : n % 2 \in 0 .. 1 /\ n \div 1 = n
  OBVIOUS
<1>6. /\ u % 2 = v % 2 /\ (u \div 2) % 2 = (v \div 2) % 2 /\ (u \div 4) % 2 = (v \div 4) % 2
      /\ (u \div 8) % 2 = (v \div 8) % 2 /\ (u \div 16) % 2 = (v \div 16) % 2
      /\ (u \div 32) % 2 = (v \div 32) % 2 /\ (u \div 64) % 2 = (v \div 64) % 2
      /\ (u \div 128) % 2 = (v \div 128) % 2
  <2>1. /\ IsSet(0, c + i) <=> IsSet(0, d + i)
        /\ IsSet(1, c + i) <=> IsSet(1, d + i)
        /\ IsSet(2, c + i) <=> IsSet(2, d + i)
        /\ IsSet(3, c + i) <=> IsSet(3, d + i)
        /\ IsSet(4, c + i) <=> IsSet(4, d + i)
        /\ IsSet(5, c + i) <=> IsSet(5, d + i)
        /\ IsSet(6, c + i) <=> IsSet(6, d + i)
        /\ IsSet(7, c + i) <=> IsSet(7, d + i)
    BY <1>4
  <2>2. \A m, n \in Nat : (m % 2 = 1 <=> n % 2 = 1) => m % 2 = n % 2
    OBVIOUS
  <2>3. \A n \in 0 .. 255 : /\ n \div 2 \in Nat /\ n \div 4 \in Nat /\ n \div 8 \in Nat
                           /\ n \div 16 \in Nat /\ n \div 32 \in Nat /\ n \div 64 \in Nat
                           /\ n \div 128 \in Nat /\ n \in Nat /\ n \div 1 = n
    OBVIOUS
  <2> QED
    BY <1>1, <1>2, <1>3, <2>1, <2>2, <2>3
<1>7. u = v
  <2>1. u = (u % 2) + 2 * ((u \div 2) % 2) + 4 * ((u \div 4) % 2) + 8 * ((u \div 8) % 2)
          + 16 * ((u \div 16) % 2) + 32 * ((u \div 32) % 2) + 64 * ((u \div 64) % 2)
          + 128 * ((u \div 128) % 2)
    BY <1>1, Bits
  <2>2. v = (v % 2) + 2 * ((v \div 2) % 2) + 4 * ((v \div 4) % 2) + 8 * ((v \div 8) % 2)
          + 16 * ((v \div 16) % 2) + 32 * ((v \div 32) % 2) + 64 * ((v \div 64) % 2)
          + 128 * ((v \div 128) % 2)
    BY <1>1, Bits
  <2> QED
    BY <2>1, <2>2, <1>6, Zenon
<1> QED
  BY <1>1, <1>7

\* One more element makes an even number odd and an odd one even.
LEMMA OddOrEven ==
  ASSUME NEW S, IsFiniteSet(S), NEW x, x \notin S
  PROVE  Cardinality(S \cup {x}) % 2 = 1 <=> ~(Cardinality(S) % 2 = 1)
<1>1. Cardinality(S \cup {x}) = Cardinality(S) + 1 /\ Cardinality(S) \in Nat
  BY FS_AddElement, FS_CardinalityType
<1>2. \A n \in Nat : (n + 1) % 2 = 1 <=> ~(n % 2 = 1)
  OBVIOUS
<1> QED
  BY <1>1, <1>2

\* Two lines that differ in one character have different sums.
LEMMA TypoHasOtherSum ==
  ASSUME NEW line \in Seq(Byte), NEW other \in Seq(Byte), IsTypo(line, other)
  PROVE  Checksum(line) # Checksum(other)
<1>1. /\ DOMAIN line = 1 .. Len(line) /\ DOMAIN other = 1 .. Len(line) /\ Len(line) \in Nat
      /\ Len(line) = Len(other)
  BY DEF IsTypo
<1>2. PICK i \in 1 .. Len(line) : /\ line[i] # other[i]
                                 /\ \A j \in (1 .. Len(line)) \ {i} : line[j] = other[j]
  BY <1>1 DEF IsTypo
<1>3. line[i] \in Byte /\ other[i] \in Byte /\ i - 1 \in Nat
  BY <1>1
<1>4. \A c \in Byte : c + (i - 1) = c + i - 1
  BY <1>3 DEF Byte
<1>5. PICK b \in 0 .. 7 : IsSet(b, line[i] + i - 1) # IsSet(b, other[i] + i - 1)
  <2>1. \E b \in 0 .. 7 : IsSet(b, line[i] + (i - 1)) # IsSet(b, other[i] + (i - 1))
    BY <1>2, <1>3, BitDiffers
  <2> QED
    BY <1>3, <1>4, <2>1
<1> DEFINE A == {j \in DOMAIN line : IsSet(b, line[j] + j - 1)}
           B == {j \in DOMAIN other : IsSet(b, other[j] + j - 1)}
<1>6. IsSet(b, line[i] + i - 1) \in BOOLEAN /\ IsSet(b, other[i] + i - 1) \in BOOLEAN
  BY Zenon DEF IsSet
<1>7. A \ {i} = B \ {i} /\ (i \in A <=> ~(i \in B))
  BY <1>1, <1>2, <1>5, <1>6
<1>8. IsFiniteSet(A) /\ IsFiniteSet(B)
  <2>1. IsFiniteSet(1 .. Len(line))
    BY <1>1, FS_Interval
  <2>2. A \in SUBSET (1 .. Len(line)) /\ B \in SUBSET (1 .. Len(line))
    BY <1>1
  <2> HIDE DEF A, B
  <2> QED
    BY <2>1, <2>2, FS_Subset
<1>9. /\ b \in Checksum(line) <=> Cardinality(A) % 2 = 1
      /\ b \in Checksum(other) <=> Cardinality(B) % 2 = 1
  BY Zenon DEF Checksum
<1> HIDE DEF A, B
<1>10. CASE i \in A
  <2>1. i \notin B /\ A = B \cup {i}
    BY <1>7, <1>10
  <2> QED
    BY <1>8, <1>9, <2>1, OddOrEven
<1>11. CASE i \notin A
  <2>1. i \notin A /\ B = A \cup {i}
    BY <1>7, <1>11
  <2> QED
    BY <1>8, <1>9, <2>1, OddOrEven
<1> QED
  BY <1>10, <1>11

\* ReceiveName stores a name only with the command behind the one that brought
\* it, or a whole turn of its count later, and then not with one character of
\* it changed; and without one, only when its count is at what the variable
\* holds at first.
THEOREM NamesComeTwice == Spec => NameCameTwice
<1>1. IInv /\ [Next]_vars =>
        [ee'.name # ee.name =>
            \/ /\ seen.named /\ seen.since \in {0, CountSize}
               /\ \A line \in Lines :
                      StoresName(Heard(line)) => ~IsTypo(Heard(line), seen.came)
            \/ ~seen.named /\ NextCount = NeverCounted + 1]_vars
  <2> SUFFICES ASSUME IInv, [Next]_vars, ee'.name # ee.name
               PROVE  \/ /\ seen.named /\ seen.since \in {0, CountSize}
                         /\ \A line \in Lines :
                                StoresName(Heard(line)) => ~IsTypo(Heard(line), seen.came)
                      \/ ~seen.named /\ NextCount = NeverCounted + 1
    OBVIOUS
  <2>0. ASSUME NEW line, Command(line)
        PROVE  Confirms /\ Checksum(line) = name_checksum
    <3>1. ReceiveName(line)
      <4>1. ReceiveName(line) \/ ee'.name = ee.name
        <5>1. /\ Show(line) => ee' = ee
              /\ WriteLcd(line) => ee' = ee
              /\ SetLED(line) => ee' = ee
              /\ Unknown(line) => ee' = ee
          BY Zenon DEF Show, WriteLcd, SetLED, Unknown
        <5>2. ASSUME SetFlagCommand(line) PROVE ee'.name = ee.name
          <6> DEFINE on == CharAt(line, 2) = 49
          <6>1. ee' = ee \/ ee' = [ee EXCEPT !.flag = on]
            BY <5>2, Zenon DEF SetFlagCommand
          <6> HIDE DEF on
          <6> QED
            BY <6>1, Now DEF EepromType
        <5>3. ASSUME SetNewBaudRate(line) PROVE ee'.name = ee.name
          <6> DEFINE bd == parseDec(Rest(line, 1))
          <6>1. ee' = ee \/ ee' = [ee EXCEPT !.baud = bd]
            BY <5>3 DEF SetNewBaudRate
          <6> HIDE DEF bd
          <6> QED
            BY <6>1, Now DEF EepromType
        <5> QED
          BY <2>0, <5>1, <5>2, <5>3 DEF Command
      <4> QED
        BY <4>1
    <3> QED
      BY <3>1, Zenon DEF ReceiveName
  <2>1. Confirms
    <3>1. ASSUME NEW line, Command(line) PROVE Confirms
      BY <2>0, <3>1
    <3>2. CASE Write \/ \E r \in Rates : HostSetsBaud(r)
      BY <3>2 DEF Write, HostSetsBaud
    <3>3. CASE PowerGlitch
      BY <3>3 DEF PowerGlitch, Restart
    <3>4. ASSUME NEW line, NEW n, GlitchInStore(line, n) PROVE Confirms
      BY <3>4 DEF GlitchInStore
    <3>4a. ASSUME NEW line, GlitchInBaud(line) PROVE FALSE
      <4>1. PICK word : Restart([ee EXCEPT !.baud = word], seen.talked \cup {host})
        BY <3>4a, Zenon DEF GlitchInBaud
      <4>2. ee' = [ee EXCEPT !.baud = word]
        BY <4>1 DEF Restart
      <4> QED
        BY <4>2, Now DEF EepromType
    <3>5. CASE UNCHANGED vars
      BY <3>5 DEF vars
    <3> QED
      BY <3>1, <3>2, <3>3, <3>4, <3>4a, <3>5, Zenon DEF Next, Glitch
  <2>2. CASE ~seen.named
    BY <2>1, <2>2 DEF IInv, Named, Confirms
  <2>3. CASE seen.named
    <3>1. /\ count \in 0 .. CountSize - 1 /\ seen.since \in 0 .. CountSize /\ first \in 0 .. 255
          /\ CountSize \in 1 .. 256
      BY CountAssumption DEF IInv, Types, SeenType, Byte
    <3>2. ASSUME seen.since < CountSize PROVE seen.since = 0
      <4>1. first = count - seen.since \/ first = count - seen.since + CountSize
        BY <2>3, <3>2 DEF IInv, Named
      <4>2. first + 1 = NextCount
        BY <2>1 DEF Confirms
      <4>3. CASE count + 1 < CountSize
        <5>1. NextCount = count + 1
          <6>1. count + 1 \in 0 .. CountSize - 1 /\ CountSize \in Nat \ {0}
            BY <3>1, <4>3
          <6>2. (count + 1) % CountSize = count + 1
            BY <6>1, Modulo
          <6> QED
            BY <6>2 DEF NextCount
        <5> QED
          BY <3>1, <3>2, <4>1, <4>2, <5>1
      <4>4. CASE ~(count + 1 < CountSize)
        <5>1. count + 1 = CountSize
          BY <3>1, <4>4
        <5>2. NextCount = 0
          BY <3>1, <5>1, Modulo DEF NextCount
        <5> QED
          BY <3>1, <4>2, <5>2
      <4> QED
        BY <4>3, <4>4
    <3>3. seen.since \in {0, CountSize}
      BY <3>1, <3>2
    <3>4. ASSUME NEW line \in Lines, StoresName(Heard(line)), IsTypo(Heard(line), seen.came)
          PROVE  FALSE
      <4>1. Checksum(Heard(line)) = name_checksum
        BY <2>0, <3>4, Zenon DEF StoresName, GlitchInStore
      <4>2. name_checksum = Checksum(seen.came) /\ seen.came \in Seq(Byte)
        BY <2>3, Now DEF IInv, Kept, Summed, SeenType
      <4>3. Heard(line) \in Seq(Byte)
        BY HeardIs
      <4> QED
        BY <3>4, <4>1, <4>2, <4>3, TypoHasOtherSum
    <3> QED
      BY <2>3, <3>3, <3>4
  <2> QED
    BY <2>2, <2>3
<1> QED
  BY <1>1, Invariant, PTL DEF Spec, NameCameTwice

=============================================================================
