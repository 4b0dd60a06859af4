------------------------------ MODULE SerialCom ------------------------------
(***************************************************************************)
(* firmware/serial-com.h, serial-com.cc: the receiving half of the serial  *)
(* line. The interrupt handler of the UART writes into a ring buffer, the  *)
(* main loop reads from it. An interrupt runs between any two machine      *)
(* instructions of the main loop and is not itself interrupted: the        *)
(* handler is one step, a call of the main loop one step per access to     *)
(* what they share.                                                        *)
(***************************************************************************)
EXTENDS Integers, Sequences

CONSTANTS
    Bytes,         \* values of a byte, only told apart
    BUFFER_BITS,   \* template parameter of RingBuffer, 6 in SerialCom
    LowSize,       \* values of one byte of the 16 bit counter, 256
    HighSize       \* values of its other byte, 256

\* The power, which the second conjunct follows from the first by, is nothing
\* the provers know of.
ASSUME SerialAssumption ==
    /\ BUFFER_BITS \in Nat \ {0}
    /\ 2 ^ BUFFER_BITS \in Nat \ {0, 1}
    /\ LowSize \in Nat \ {0}
    /\ HighSize \in Nat \ {0}

Size == 2 ^ BUFFER_BITS
Slots == 0 .. Size - 1
CountSize == LowSize * HighSize

VARIABLES
    write_pos,       \* moved by the interrupt only
    read_pos,        \* moved by the main loop only
    buffer,
    dropped_reads,   \* uint16_t, counted by the interrupt
    pc,              \* where the main loop is
    c,               \* its local of read()
    returned,        \* what read() returned last, <<>> before the first
    low, high,       \* halves of dropped_reads loaded so far, -1 for none
    before           \* history: dropped_reads when the main loop began loading

ring == <<write_pos, read_pos, buffer>>
counting == <<low, high, before>>
vars == <<ring, dropped_reads, pc, c, returned, counting>>

\* & MODULO_MASK
Masked(n) == n % Size

\* The slip.
write_available_AllSlots == Size - Masked(write_pos - read_pos)

write_available == Masked(read_pos - (write_pos + 1))

\* The slip.
read_available_Unmasked == IF write_pos > read_pos THEN write_pos - read_pos ELSE 0

read_available == Masked(write_pos - read_pos)

Init ==
    /\ write_pos = 0 /\ read_pos = 0
    /\ buffer \in [Slots -> Bytes]
    /\ dropped_reads = 0
    /\ pc = "elsewhere"
    /\ c \in Bytes
    /\ returned = <<>>
    /\ low = -1 /\ high = -1 /\ before = 0

-----------------------------------------------------------------------------
\* The interrupt: a byte came. write() would wait for room, but there is some.
Stored(b) ==
    /\ write_available # 0
    /\ buffer' = [buffer EXCEPT ![write_pos] = b]
    /\ write_pos' = Masked(write_pos + 1)
    /\ UNCHANGED <<read_pos, dropped_reads>>

\* A byte takes ten bit times on the line: no two of them come between two
\* loads of the main loop.
Dropped ==
    /\ write_available = 0
    /\ pc = "count" => dropped_reads = before
    /\ dropped_reads' = (dropped_reads + 1) % CountSize
    /\ UNCHANGED ring

StuffByte(b) ==
    /\ Stored(b) \/ Dropped
    /\ UNCHANGED <<pc, c, returned, counting>>

-----------------------------------------------------------------------------
\* The main loop calls read(), which spins while there is nothing ...
CallRead ==
    /\ pc = "elsewhere"
    /\ pc' = "wait"
    /\ UNCHANGED <<ring, dropped_reads, c, returned, counting>>

EndWait ==
    /\ pc = "wait"
    /\ read_available # 0
    /\ pc' = "take"
    /\ UNCHANGED <<ring, dropped_reads, c, returned, counting>>

\* ... copies the byte ...
Take ==
    /\ pc = "take"
    /\ c' = buffer[read_pos]
    /\ pc' = "advance"
    /\ UNCHANGED <<ring, dropped_reads, returned, counting>>

\* ... and only then gives the slot back.
Advance ==
    /\ pc = "advance"
    /\ read_pos' = Masked(read_pos + 1)
    /\ returned' = <<c>>
    /\ pc' = "elsewhere"
    /\ UNCHANGED <<write_pos, buffer, dropped_reads, c, counting>>

\* The compiler keeps the counter, which is not volatile, in registers.
CallDropped_Cached ==
    /\ pc = "elsewhere"
    /\ pc' = "count"
    /\ before' = dropped_reads
    /\ UNCHANGED <<ring, dropped_reads, c, returned, low, high>>

\* dropped_rx(): two loads of a byte, in the order the compiler likes.
CallDropped ==
    /\ pc = "elsewhere"
    /\ pc' = "count"
    /\ before' = dropped_reads /\ low' = -1 /\ high' = -1
    /\ UNCHANGED <<ring, dropped_reads, c, returned>>

LoadLow ==
    /\ pc = "count" /\ low = -1
    /\ low' = dropped_reads % LowSize
    /\ UNCHANGED <<ring, dropped_reads, pc, c, returned, high, before>>

LoadHigh ==
    /\ pc = "count" /\ high = -1
    /\ high' = dropped_reads \div LowSize
    /\ UNCHANGED <<ring, dropped_reads, pc, c, returned, low, before>>

EndDropped ==
    /\ pc = "count" /\ low # -1 /\ high # -1
    /\ pc' = "elsewhere"
    /\ UNCHANGED <<ring, dropped_reads, c, returned, counting>>

Main == CallRead \/ EndWait \/ Take \/ Advance
        \/ CallDropped \/ LoadLow \/ LoadHigh \/ EndDropped

Next == (\E b \in Bytes : StuffByte(b)) \/ Main

\* The main loop runs on whenever it can; nobody has to send anything.
Spec == Init /\ [][Next]_vars /\ WF_vars(Main)

-----------------------------------------------------------------------------
\* The bytes in the buffer, oldest first.
Unread == [i \in 1 .. read_available |-> buffer[Masked(read_pos + i - 1)]]

Fifo == INSTANCE LossyFifo WITH
    Capacity <- Size - 1, queue <- Unread, lost <- dropped_reads, got <- returned

TypeOK ==
    /\ write_pos \in Slots /\ read_pos \in Slots
    /\ buffer \in [Slots -> Bytes]
    /\ dropped_reads \in 0 .. CountSize - 1
    /\ pc \in {"elsewhere", "wait", "take", "advance", "count"}
    /\ c \in Bytes
    /\ returned \in {<<>>} \cup {<<b>> : b \in Bytes}
    /\ low \in -1 .. LowSize - 1 /\ high \in -1 .. HighSize - 1
    /\ before \in 0 .. CountSize - 1

\* However the interrupt cuts into read(), the ring buffer is a queue: bytes
\* come out in the order they came in, none twice, none overwritten before it
\* was read, and one is refused only when Size - 1 of them wait.
ImplementsFifo == Fifo!Spec

\* What dropped_rx() returns for the stats command is the counter as it was or
\* as it is, except when the interrupt carried from one byte of the counter
\* into the other between the two loads.
StatsRightUnlessCarry ==
    pc = "count" /\ low # -1 /\ high # -1 =>
        \/ low + LowSize * high \in {before, dropped_reads}
        \/ dropped_reads # before /\ dropped_reads % LowSize = 0

\* The state is well-formed, and the stats command shows a count there was.
StatsInv == TypeOK /\ StatsRightUnlessCarry

\* A read() with something in the buffer comes back: the interrupt cannot
\* keep it waiting, nor make the buffer look empty by filling it.
ReadReturns == pc = "wait" /\ read_available # 0 ~> pc = "elsewhere"
=============================================================================
