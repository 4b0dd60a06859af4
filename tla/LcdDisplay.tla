------------------------------ MODULE LcdDisplay ------------------------------
(***************************************************************************)
(* firmware/lcd.cc, and of the display (a HD44780, which is not part of    *)
(* this repository) as much as the driver relies on. Four data lines: a    *)
(* byte goes in two nibbles, so both sides must agree which is the first.  *)
(***************************************************************************)
EXTENDS Integers, Sequences

CONSTANTS
    LcdWidth,      \* characters of a row that are seen, 24
    RowSize        \* characters the display keeps of a row, 40

ASSUME LcdAssumption == LcdWidth \in 1 .. RowSize /\ RowSize \in 1 .. 64

Space == 32
None == -1
Cells == (0 .. RowSize - 1) \cup (64 .. 64 + RowSize - 1)

\* The display: interface width, the nibble it waits to complete, whether data
\* goes to the characters or to the font, and where.
PowerOn == [four |-> FALSE, high |-> None, font |-> FALSE, addr |-> 0, on |-> FALSE,
            cells |-> [a \in Cells |-> Space]]

NextAddr(a) == IF a = RowSize - 1 THEN 64 ELSE IF a = 63 + RowSize THEN 0 ELSE (a + 1) % 128

Instruction(d, b) ==
    CASE b >= 128 -> [d EXCEPT !.addr = b - 128, !.font = FALSE]
      [] b \in 64 .. 127 -> [d EXCEPT !.font = TRUE]
      [] b \in 32 .. 63 -> [d EXCEPT !.four = (b < 48)]
      [] b \in 8 .. 15 -> [d EXCEPT !.on = (b >= 12)]
      [] b \in 2 .. 3 -> [d EXCEPT !.addr = 0, !.font = FALSE]
      [] b = 1 -> [d EXCEPT !.addr = 0, !.font = FALSE, !.cells = [a \in Cells |-> Space]]
      [] OTHER -> d

Data(d, b) ==
    IF d.font \/ d.addr \notin Cells THEN d
    ELSE [d EXCEPT !.cells[d.addr] = b, !.addr = NextAddr(@)]

Execute(d, rs, b) == IF rs THEN Data(d, b) ELSE Instruction(d, b)

TakeNibble(d, nibble) ==
    IF ~d.four THEN Execute(d, nibble.rs, 16 * nibble.n)
    ELSE IF d.high = None THEN [d EXCEPT !.high = nibble.n]
    ELSE Execute([d EXCEPT !.high = None], nibble.rs, 16 * d.high + nibble.n)

-----------------------------------------------------------------------------
\* The driver, as the nibbles it writes.
WriteNibble(is_command, b) == <<[rs |-> ~is_command, n |-> b % 16]>>

\* The upper half of a byte goes first.
WriteByte(is_command, b) ==
    WriteNibble(is_command, b \div 16) \o WriteNibble(is_command, b)

WriteBytes(is_command, bytes) ==
    [k \in 1 .. 2 * Len(bytes) |-> WriteByte(is_command, bytes[(k + 1) \div 2])[2 - (k % 2)]]

\* The last of its eight rows is read behind the end of the array.
RegisterFont == WriteBytes(TRUE, <<64 + 8>>) \o
                WriteBytes(FALSE, <<0, 4, 14, 14, 14, 31, 4, 0>>)

LcdInit ==
    WriteNibble(TRUE, 3) \o WriteNibble(TRUE, 3) \o WriteNibble(TRUE, 2)
    \o WriteBytes(TRUE, <<40, 6, 12, 1>>) \o RegisterFont

\* Clipped, or filled up with spaces.
Row(str) == [i \in 1 .. LcdWidth |-> IF i <= Len(str) THEN str[i] ELSE Space]

LcdPrint_NoFill(row, str) ==
    IF row > 1 THEN <<>>
    ELSE WriteBytes(TRUE, <<128 + 64 * row>>)
         \o WriteBytes(FALSE, SubSeq(str, 1, IF Len(str) < LcdWidth THEN Len(str) ELSE LcdWidth))

LcdPrint(row, str) ==
    IF row > 1 THEN <<>>
    ELSE WriteBytes(TRUE, <<128 + 64 * row>>) \o WriteBytes(FALSE, Row(str))

Shown(d, row) == [i \in 1 .. LcdWidth |-> d.cells[64 * row + i - 1]]
=============================================================================
