---------------------------- MODULE SerialLineProofs ----------------------------
(***************************************************************************)
(* From the bytes on the line to commands. First SerialCom: the receive    *)
(* buffer is a queue that loses bytes only when it is full, for every size *)
(* of it and of its counter. Then LineBuffer, which takes that it is such  *)
(* a queue: the commands are the lines of the bytes the terminal accepted, *)
(* for lines of every length and every alphabet without NUL.               *)
(***************************************************************************)
EXTENDS SerialCom, SequenceTheorems, TLAPS

-----------------------------------------------------------------------------
(* The inductive invariant: what the main loop knows of what it shares. *)

\* Once read() has seen a byte there is one until read() gives its slot back,
\* and the slot is not written to.
Reading ==
    /\ pc \in {"take", "advance"} => read_available # 0
    /\ pc = "advance" => c = buffer[read_pos]

\* Since dropped_rx() began, at most one byte was dropped; each half is from
\* before or from after that.
Counting ==
    pc = "count" =>
        /\ dropped_reads \in {before, (before + 1) % CountSize}
        /\ low # -1 => low \in {before % LowSize, dropped_reads % LowSize}
        /\ high # -1 => high \in {before \div LowSize, dropped_reads \div LowSize}

IInv == TypeOK /\ Reading /\ Counting

-----------------------------------------------------------------------------
(* Arithmetic of the indexes and of the counter. *)

\* Positions are those of a ring.
LEMMA SizeType == Size \in Nat \ {0, 1} /\ Slots = 0 .. Size - 1
BY SerialAssumption DEF Size, Slots

LEMMA MaskedIs ==
  ASSUME NEW n \in -Size .. 2 * Size - 1
  PROVE  /\ n \in 0 .. Size - 1 => Masked(n) = n
         /\ n >= Size => Masked(n) = n - Size
         /\ n < 0 => Masked(n) = n + Size
BY SizeType DEF Masked

LEMMA MaskedRange ==
  ASSUME NEW p \in 0 .. Size - 1, NEW i \in 1 .. Size - 1
  PROVE  p + i - 1 \in -Size .. 2 * Size - 1 /\ p + i \in -Size .. 2 * Size - 1
BY SizeType

\* What there is to read, and to write.
LEMMA Available ==
  ASSUME write_pos \in Slots, read_pos \in Slots
  PROVE  /\ read_available =
              IF read_pos <= write_pos THEN write_pos - read_pos
              ELSE write_pos - read_pos + Size
         /\ read_available \in 0 .. Size - 1
         /\ write_available = Size - 1 - read_available
<1>1. /\ write_pos - read_pos \in -Size .. 2 * Size - 1
      /\ read_pos - (write_pos + 1) \in -Size .. 2 * Size - 1
  BY SizeType
<1> QED
  BY <1>1, SizeType, MaskedIs DEF read_available, write_available

\* Halves of the counter.
LEMMA CountType == CountSize \in Nat \ {0}
BY SerialAssumption DEF CountSize

LEMMA Halves ==
  ASSUME NEW n \in 0 .. CountSize - 1
  PROVE  /\ n % LowSize \in 0 .. LowSize - 1
         /\ n \div LowSize \in 0 .. HighSize - 1
         /\ n = (n % LowSize) + LowSize * (n \div LowSize)
BY SerialAssumption DEF CountSize

\* Without a carry the high half stays.
LEMMA NoCarry ==
  ASSUME NEW n \in 0 .. CountSize - 1, NEW m, m = (n + 1) % CountSize, m % LowSize # 0
  PROVE  m \div LowSize = n \div LowSize
<1>1. n + 1 = CountSize \/ n + 1 \in 0 .. CountSize - 1
  BY CountType
<1>2. CASE n + 1 = CountSize
  BY <1>2, CountType, SerialAssumption
<1>3. CASE n + 1 \in 0 .. CountSize - 1
  <2>1. m = n + 1
    BY <1>3, CountType
  <2> QED
    BY <2>1, Halves, SerialAssumption
<1> QED
  BY <1>1, <1>2, <1>3

-----------------------------------------------------------------------------
(* Every step keeps the invariant. *)

LEMMA InitIInv == Init => IInv
BY SizeType, CountType, SerialAssumption DEF Init, IInv, TypeOK, Reading, Counting

\* A byte that comes is put where nothing is read, or counted once.
LEMMA StoredKeeps ==
  ASSUME IInv, NEW b \in Bytes, Stored(b), UNCHANGED <<pc, c, returned, counting>>
  PROVE  IInv'
<1> USE DEF IInv
<1>1. write_pos \in Slots /\ read_pos \in Slots /\ read_pos' = read_pos
  BY DEF TypeOK, Stored
<1>2. write_available # 0 /\ write_pos' = Masked(write_pos + 1)
      /\ buffer' = [buffer EXCEPT ![write_pos] = b] /\ dropped_reads' = dropped_reads
  BY DEF Stored
<1>3. write_pos' = (IF write_pos = Size - 1 THEN 0 ELSE write_pos + 1)
  BY <1>1, <1>2, SizeType, MaskedIs
<1>4. write_pos' \in Slots
  BY <1>1, <1>3, SizeType
<1>5. /\ read_available' = (IF read_pos' <= write_pos' THEN write_pos' - read_pos'
                             ELSE write_pos' - read_pos' + Size)
  BY <1>1, <1>4, SizeType, MaskedIs DEF read_available
<1>6. read_available' = read_available + 1
  BY <1>1, <1>2, <1>3, <1>5, Available, SizeType
<1>7. TypeOK'
  BY <1>1, <1>2, <1>4 DEF TypeOK, counting
<1>8. Reading'
  <2>1. read_available' # 0
    BY <1>1, <1>6, Available, SizeType
  <2>2. pc = "advance" => write_pos # read_pos
    BY <1>1, Available, SizeType DEF Reading
  <2> QED
    BY <1>1, <1>2, <2>1, <2>2 DEF Reading, TypeOK
<1>9. Counting'
  BY <1>2 DEF Counting, counting
<1> QED
  BY <1>7, <1>8, <1>9

LEMMA DroppedKeeps ==
  ASSUME IInv, Dropped, UNCHANGED <<pc, c, returned, counting>>
  PROVE  IInv'
<1> USE DEF IInv
<1>1. dropped_reads' = (dropped_reads + 1) % CountSize /\ UNCHANGED ring
      /\ (pc = "count" => dropped_reads = before)
  BY DEF Dropped
<1>2. dropped_reads' \in 0 .. CountSize - 1
  BY <1>1, CountType DEF TypeOK
<1>3. TypeOK'
  BY <1>1, <1>2 DEF TypeOK, ring, counting
<1>4. Reading'
  BY <1>1 DEF Reading, ring, read_available
<1>5. Counting'
  BY <1>1 DEF Counting, counting
<1> QED
  BY <1>3, <1>4, <1>5

\* The main loop.
LEMMA MainKeeps == IInv /\ Main => IInv'
<1> SUFFICES ASSUME IInv, Main PROVE IInv'
  OBVIOUS
<1> USE DEF IInv
<1>1. CASE CallRead
  BY <1>1 DEF CallRead, TypeOK, Reading, Counting, ring, counting, read_available
<1>2. CASE EndWait
  BY <1>2 DEF EndWait, TypeOK, Reading, Counting, ring, counting, read_available
<1>3. CASE Take
  BY <1>3 DEF Take, TypeOK, Reading, Counting, ring, counting, read_available
<1>4. CASE Advance
  <2>1. read_pos' \in Slots
    BY <1>4, SizeType, MaskedIs DEF Advance, TypeOK
  <2>2. TypeOK'
    BY <1>4, <2>1 DEF Advance, TypeOK, counting
  <2> QED
    BY <1>4, <2>2 DEF Advance, Reading, Counting
<1>5. CASE CallDropped
  BY <1>5, SerialAssumption DEF CallDropped, TypeOK, Reading, Counting, ring
<1>6. CASE LoadLow
  <2>1. low' = dropped_reads % LowSize /\ low' \in 0 .. LowSize - 1
    BY <1>6, Halves DEF LoadLow, TypeOK
  <2>2. UNCHANGED <<ring, dropped_reads, pc, c, returned, high, before>> /\ pc = "count"
    BY <1>6 DEF LoadLow
  <2>3. TypeOK'
    BY <2>1, <2>2 DEF TypeOK, ring
  <2> QED
    BY <2>1, <2>2, <2>3 DEF Reading, Counting, ring
<1>7. CASE LoadHigh
  <2>1. high' = dropped_reads \div LowSize /\ high' \in 0 .. HighSize - 1
    BY <1>7, Halves DEF LoadHigh, TypeOK
  <2>2. UNCHANGED <<ring, dropped_reads, pc, c, returned, low, before>> /\ pc = "count"
    BY <1>7 DEF LoadHigh
  <2>3. TypeOK'
    BY <2>1, <2>2 DEF TypeOK, ring
  <2> QED
    BY <2>1, <2>2, <2>3 DEF Reading, Counting, ring
<1>8. CASE EndDropped
  BY <1>8 DEF EndDropped, TypeOK, Reading, Counting, ring, counting
<1> QED
  BY <1>1, <1>2, <1>3, <1>4, <1>5, <1>6, <1>7, <1>8 DEF Main

\* The invariant holds in every reachable state.
THEOREM BufferInvariant == Spec => []IInv
<1>1. IInv /\ [Next]_vars => IInv'
  <2> SUFFICES ASSUME IInv, [Next]_vars PROVE IInv'
    OBVIOUS
  <2>1. ASSUME NEW b \in Bytes, StuffByte(b) PROVE IInv'
    BY <2>1, StoredKeeps, DroppedKeeps DEF StuffByte
  <2>2. CASE UNCHANGED vars
    BY <2>2 DEF vars, ring, counting, IInv, TypeOK, Reading, Counting, read_available
  <2> QED
    BY <2>1, <2>2, MainKeeps DEF Next
<1> QED
  BY <1>1, InitIInv, PTL DEF Spec

\* The types are as declared, and what dropped_rx() returns for the stats
\* command is a count there was, except over a carry: whatever the compiler's
\* order of the two loads and whatever the widths of the halves.
THEOREM StatsRight == Spec => []StatsInv
<1>1. IInv => StatsRightUnlessCarry
  <2> SUFFICES ASSUME IInv, pc = "count", low # -1, high # -1,
                      ~ (dropped_reads # before /\ dropped_reads % LowSize = 0)
               PROVE  low + LowSize * high \in {before, dropped_reads}
    BY DEF StatsRightUnlessCarry
  <2>1. /\ before \in 0 .. CountSize - 1 /\ dropped_reads \in 0 .. CountSize - 1
        /\ dropped_reads \in {before, (before + 1) % CountSize}
        /\ low \in {before % LowSize, dropped_reads % LowSize}
        /\ high \in {before \div LowSize, dropped_reads \div LowSize}
    BY DEF IInv, TypeOK, Counting
  <2>2. dropped_reads \div LowSize = before \div LowSize
    BY <2>1, NoCarry
  <2>3. high = before \div LowSize /\ high = dropped_reads \div LowSize
    BY <2>1, <2>2
  <2>4. /\ before = (before % LowSize) + LowSize * (before \div LowSize)
        /\ dropped_reads = (dropped_reads % LowSize) + LowSize * (dropped_reads \div LowSize)
    BY <2>1, Halves
  <2> QED
    BY <2>1, <2>3, <2>4
<1> QED
  BY <1>1, BufferInvariant, PTL DEF StatsInv, IInv

-----------------------------------------------------------------------------
(* The refinement. *)

\* The queue as a sequence.
LEMMA UnreadIs ==
  ASSUME TypeOK
  PROVE  /\ Unread \in Seq(Bytes)
         /\ Len(Unread) = read_available
         /\ \A i \in 1 .. read_available : Unread[i] = buffer[Masked(read_pos + i - 1)]
<1>1. read_available \in 0 .. Size - 1 /\ read_pos \in Slots
  BY Available DEF TypeOK
<1>2. \A i \in 1 .. read_available : Masked(read_pos + i - 1) \in Slots
  BY <1>1, SizeType, MaskedIs
<1>3. \A i \in 1 .. read_available : buffer[Masked(read_pos + i - 1)] \in Bytes
  BY <1>2 DEF TypeOK
<1>4. Unread \in [1 .. read_available -> Bytes]
  BY <1>3 DEF Unread
<1>5. read_available \in Nat
  BY <1>1, SizeType
<1>6. Unread \in Seq(Bytes) /\ Len(Unread) = read_available
  BY <1>4, <1>5
<1> QED
  BY <1>6 DEF Unread

\* The same after a step.
LEMMA UnreadIsNext ==
  TypeOK' => /\ Unread' \in Seq(Bytes)
             /\ Len(Unread') = read_available'
             /\ \A i \in 1 .. read_available' :
                    Unread'[i] = buffer'[Masked(read_pos' + i - 1)]
<1> DEFINE Holds == /\ Unread \in Seq(Bytes)
                    /\ Len(Unread) = read_available
                    /\ \A i \in 1 .. read_available :
                           Unread[i] = buffer[Masked(read_pos + i - 1)]
<1>1. TypeOK => Holds
  BY UnreadIs
<1> HIDE DEF Holds
<1>2. TypeOK' => Holds'
  BY <1>1, PTL
<1> QED
  BY <1>2 DEF Holds

\* A byte that is stored is appended.
LEMMA StoredAccepts ==
  ASSUME IInv, IInv', NEW b \in Bytes, Stored(b), UNCHANGED <<pc, c, returned, counting>>
  PROVE  Fifo!Accept(b)
<1> USE DEF IInv
<1>1. write_pos \in Slots /\ read_pos \in Slots /\ read_pos' = read_pos
      /\ write_pos' \in Slots /\ read_pos' \in Slots
  BY DEF TypeOK, Stored
<1>2. write_available # 0 /\ write_pos' = Masked(write_pos + 1)
      /\ buffer' = [buffer EXCEPT ![write_pos] = b] /\ dropped_reads' = dropped_reads
  BY DEF Stored
<1>3. write_pos' = (IF write_pos = Size - 1 THEN 0 ELSE write_pos + 1)
  BY <1>1, <1>2, SizeType, MaskedIs
<1>4. read_available' = (IF read_pos' <= write_pos' THEN write_pos' - read_pos'
                         ELSE write_pos' - read_pos' + Size)
  BY <1>1, SizeType, MaskedIs DEF read_available
<1>5. read_available \in 0 .. Size - 2 /\ read_available' = read_available + 1
  BY <1>1, <1>2, <1>3, <1>4, Available, SizeType
<1>6. /\ Masked(read_pos + read_available) = write_pos
      /\ \A i \in 1 .. read_available : Masked(read_pos + i - 1) \in Slots \ {write_pos}
  <2>1. read_pos + read_available \in -Size .. 2 * Size - 1
        /\ \A i \in 1 .. read_available : read_pos + i - 1 \in -Size .. 2 * Size - 1
    BY <1>1, <1>5, SizeType
  <2> QED
    BY <2>1, <1>1, <1>5, Available, SizeType, MaskedIs
<1>7. Unread' = Append(Unread, b)
  <2>1. /\ Unread \in Seq(Bytes) /\ Len(Unread) = read_available
        /\ \A i \in 1 .. read_available : Unread[i] = buffer[Masked(read_pos + i - 1)]
    BY UnreadIs
  <2>2. /\ Unread' \in Seq(Bytes) /\ Len(Unread') = read_available'
        /\ \A i \in 1 .. read_available' : Unread'[i] = buffer'[Masked(read_pos + i - 1)]
    BY UnreadIsNext, <1>1
  <2>3. /\ Append(Unread, b) \in Seq(Bytes) /\ Len(Append(Unread, b)) = read_available + 1
        /\ \A i \in 1 .. read_available : Append(Unread, b)[i] = Unread[i]
        /\ Append(Unread, b)[read_available + 1] = b
    BY <2>1, AppendProperties
  <2>4. ASSUME NEW i \in 1 .. read_available + 1 PROVE Unread'[i] = Append(Unread, b)[i]
    <3>1. CASE i = read_available + 1
      <4>1. Unread'[i] = buffer'[Masked(read_pos + read_available)]
        BY <2>2, <3>1, <1>5, <1>1, SizeType
      <4> QED
        BY <4>1, <1>2, <1>6, <2>3, <3>1 DEF TypeOK
    <3>2. CASE i \in 1 .. read_available
      <4>1. Unread'[i] = buffer'[Masked(read_pos + i - 1)]
        BY <2>2, <3>2, <1>5
      <4> QED
        BY <4>1, <1>2, <1>6, <2>1, <2>3, <3>2 DEF TypeOK
    <3>3. i = read_available + 1 \/ i \in 1 .. read_available
      BY <1>5, SizeType
    <3> QED
      BY <3>1, <3>2, <3>3
  <2> QED
    BY <2>2, <2>3, <2>4, <1>5, SeqEqual
<1> QED
  BY <1>2, <1>5, <1>7, UnreadIs, SizeType DEF Fifo!Accept

\* One is dropped when the queue is full.
LEMMA DroppedRefuses ==
  ASSUME IInv, Dropped, UNCHANGED <<pc, c, returned, counting>>
  PROVE  Fifo!Refuse
<1>1. TypeOK /\ write_pos \in Slots /\ read_pos \in Slots /\ write_available = 0
  BY DEF IInv, TypeOK, Dropped
<1>2. read_available = Size - 1
  BY <1>1, Available, SizeType
<1>3. Len(Unread) = Size - 1
  BY <1>1, <1>2, UnreadIs
<1> QED
  BY <1>3 DEF Dropped, ring, Fifo!Refuse, Unread, read_available

\* A read happens when the slot is given back.
LEMMA AdvanceReads ==
  ASSUME IInv, IInv', Advance
  PROVE  Fifo!Read
<1> USE DEF IInv
<1>1. write_pos \in Slots /\ read_pos \in Slots /\ write_pos' = write_pos
      /\ read_pos' \in Slots
  BY DEF TypeOK, Advance
<1>2. /\ read_available # 0 /\ c = buffer[read_pos] /\ returned' = <<c>>
      /\ UNCHANGED <<buffer, dropped_reads>> /\ read_pos' = Masked(read_pos + 1)
  BY DEF Advance, Reading
<1>3. read_pos' = (IF read_pos = Size - 1 THEN 0 ELSE read_pos + 1)
  BY <1>1, <1>2, SizeType, MaskedIs
<1>4. read_available' = (IF read_pos' <= write_pos' THEN write_pos' - read_pos'
                         ELSE write_pos' - read_pos' + Size)
  BY <1>1, SizeType, MaskedIs DEF read_available
<1>5. read_available \in 1 .. Size - 1 /\ read_available' = read_available - 1
  BY <1>1, <1>2, <1>3, <1>4, Available, SizeType
<1>6. /\ Masked(read_pos) = read_pos
      /\ \A i \in 1 .. read_available - 1 :
           Masked(read_pos' + i - 1) = Masked(read_pos + i)
  <2>1. ASSUME NEW i \in 1 .. read_available - 1
        PROVE  /\ read_pos' + i - 1 \in -Size .. 2 * Size - 1
               /\ read_pos + i \in -Size .. 2 * Size - 1
    <3>1. /\ read_pos \in 0 .. Size - 1 /\ read_pos' \in 0 .. Size - 1
          /\ i \in 1 .. Size - 2 /\ Size \in Nat
      BY <1>1, <1>5, SizeType
    <3>2. i \in 1 .. Size - 1
      BY <3>1
    <3>3. read_pos' + i - 1 \in -Size .. 2 * Size - 1
      BY <3>1, <3>2, MaskedRange
    <3>4. read_pos + i \in -Size .. 2 * Size - 1
      BY <3>1, <3>2, MaskedRange
    <3> QED
      BY <3>3, <3>4
  <2> QED
    BY <2>1, <1>1, <1>3, <1>5, Available, SizeType, MaskedIs
<1>7. /\ Unread \in Seq(Bytes) /\ Len(Unread) = read_available
      /\ \A i \in 1 .. read_available : Unread[i] = buffer[Masked(read_pos + i - 1)]
  BY UnreadIs
<1>8. /\ Unread' \in Seq(Bytes) /\ Len(Unread') = read_available'
      /\ \A i \in 1 .. read_available' : Unread'[i] = buffer[Masked(read_pos' + i - 1)]
  BY UnreadIsNext, <1>2
<1>9. Unread # <<>>
  BY <1>5, <1>7, EmptySeq
<1>10. /\ Tail(Unread) \in Seq(Bytes) /\ Len(Tail(Unread)) = read_available - 1
       /\ \A i \in 1 .. read_available - 1 : Tail(Unread)[i] = Unread[i + 1]
  BY <1>7, <1>9, HeadTailProperties
<1>11. Unread' = Tail(Unread)
  <2>1. ASSUME NEW i \in 1 .. read_available - 1 PROVE Unread'[i] = Tail(Unread)[i]
    <3>1. Unread[i + 1] = buffer[Masked(read_pos + i)]
      <4>1. i + 1 \in 1 .. read_available /\ read_pos + (i + 1) - 1 = read_pos + i
        BY <1>5, <1>1, SizeType
      <4> QED
        BY <4>1, <1>7
    <3> QED
      BY <3>1, <1>5, <1>6, <1>8, <1>10
  <2> QED
    BY <2>1, <1>5, <1>8, <1>10, SeqEqual
<1>12. Head(Unread) = buffer[read_pos]
  <2>1. 1 \in 1 .. read_available /\ read_pos + 1 - 1 = read_pos
    BY <1>1, <1>5, SizeType
  <2> QED
    BY <2>1, <1>6, <1>7, <1>9
<1> QED
  BY <1>2, <1>9, <1>11, <1>12 DEF Fifo!Read

\* Nothing else of the main loop is seen.
LEMMA MainStutters ==
  ASSUME Main, ~Advance
  PROVE  UNCHANGED Fifo!vars
BY DEF Main, CallRead, EndWait, Take, CallDropped, LoadLow, LoadHigh, EndDropped,
       ring, Fifo!vars, Unread, read_available

\* However the interrupt cuts into read(), the ring buffer is a first-in
\* first-out queue that refuses a byte only when it is full, and counts that.
THEOREM BufferIsAQueue == Spec => ImplementsFifo
<1>1. Init => Fifo!Init
  <2> SUFFICES ASSUME Init PROVE Fifo!Init
    OBVIOUS
  <2>1. IInv /\ read_available = 0
    BY InitIInv, SizeType, MaskedIs DEF Init, read_available
  <2>2. Unread \in Seq(Bytes) /\ Len(Unread) = 0
    BY <2>1, UnreadIs DEF IInv
  <2>3. Unread = <<>>
    BY <2>2, EmptySeq
  <2> QED
    BY <2>3 DEF Init, Fifo!Init
<1>2. IInv /\ IInv' /\ [Next]_vars => [Fifo!Next]_(Fifo!vars)
  <2> SUFFICES ASSUME IInv, IInv', [Next]_vars PROVE Fifo!Next \/ UNCHANGED Fifo!vars
    OBVIOUS
  <2>1. ASSUME NEW b \in Bytes, StuffByte(b) PROVE Fifo!Next
    BY <2>1, StoredAccepts, DroppedRefuses DEF StuffByte, Fifo!Next
  <2>2. CASE Main
    BY <2>2, AdvanceReads, MainStutters DEF Fifo!Next
  <2>3. CASE UNCHANGED vars
    BY <2>3 DEF vars, ring, Fifo!vars, Unread, read_available
  <2> QED
    BY <2>1, <2>2, <2>3 DEF Next
<1> QED
  BY <1>1, <1>2, BufferInvariant, PTL DEF Spec, ImplementsFifo, Fifo!Spec

-----------------------------------------------------------------------------
(* The lines: LineBuffer, with names that SerialCom leaves free, and the   *)
(* capacity and the counter of the receive buffer.                         *)

CONSTANTS Newlines, LineMax

VARIABLES queue, lost, got, line, pos, newline_seen, stage, length, commands, command

Line == INSTANCE LineBuffer WITH buffer <- line, pc <- stage, Capacity <- Size - 1

-----------------------------------------------------------------------------
(* The inductive invariant. *)

Bookkeeping == {"loop", "execute", "more?", "serve"}

LineType ==
    /\ queue \in Seq(Bytes)
    /\ line \in [0 .. LineMax -> Bytes \cup {Line!NUL}]
    /\ pos \in 0 .. LineMax
    /\ newline_seen \in BOOLEAN
    /\ stage \in {"read", "terminate"} \cup Bookkeeping
    /\ length \in 0 .. LineMax
    /\ commands \in {0, 1}
    /\ command \in Seq(Bytes)

\* What LineBuffer assumes of its constants.
Ranges == LineMax \in Nat \ {0} /\ Newlines \subseteq Bytes /\ Line!NUL \notin Bytes

\* What is held is bytes, not the NULs of an earlier line.
HoldsBytes == \A i \in 0 .. pos - 1 : line[i] \in Bytes

\* There is room for a byte whenever reading begins, and a newline is one of
\* the bytes held.
Room ==
    /\ stage \in Bookkeeping => pos < LineMax
    /\ stage \in {"read", "terminate"} /\ newline_seen => pos > 0

\* A line to be executed is ended by the first NUL, and nothing else is held.
LineReady ==
    stage = "execute" /\ length > 0 =>
        /\ pos = 0 /\ line[length] = Line!NUL
        /\ \A i \in 0 .. length - 1 : line[i] \in Bytes

LineInv == Ranges /\ LineType /\ HoldsBytes /\ Room /\ LineReady

-----------------------------------------------------------------------------
(* Every step keeps the invariant. *)

LEMMA LineSizes == LineInv => LineMax \in Nat \ {0} /\ Newlines \subseteq Bytes /\ Line!NUL \notin Bytes
BY DEF LineInv, Ranges

LEMMA LineInit == Ranges /\ Line!Init => LineInv
<1> SUFFICES ASSUME Ranges, Line!Init PROVE LineInv
  OBVIOUS
<1>1. /\ queue = <<>> /\ line = [i \in 0 .. LineMax |-> Line!NUL] /\ pos = 0
      /\ newline_seen = FALSE /\ stage = "loop" /\ length = 0
      /\ commands = 0 /\ command = <<>>
  BY DEF Line!Init, Line!Fifo!Init
<1>2. LineMax \in Nat \ {0}
  BY DEF Ranges
<1>3. LineType
  BY <1>1, <1>2 DEF LineType, Bookkeeping
<1> QED
  BY <1>1, <1>2, <1>3 DEF LineInv, HoldsBytes, Room, LineReady, Bookkeeping

\* The queue changes behind the main loop's back, and nothing else.
LEMMA ArriveKeeps == LineInv /\ Line!Arrive => LineInv'
<1> SUFFICES ASSUME LineInv, Line!Arrive PROVE LineInv'
  OBVIOUS
<1>1. UNCHANGED <<line, pos, newline_seen, stage, length, commands, command>>
  BY DEF Line!Arrive
<1>2. queue' \in Seq(Bytes)
  BY AppendProperties DEF Line!Arrive, Line!Fifo!Accept, Line!Fifo!Refuse, LineInv, LineType
<1> QED
  BY <1>1, <1>2 DEF LineInv, LineType, HoldsBytes, Room, LineReady

LEMMA TakeByteKeeps == LineInv /\ Line!TakeByte => LineInv'
<1> SUFFICES ASSUME LineInv, Line!TakeByte PROVE LineInv'
  OBVIOUS
<1> USE LineSizes DEF LineInv
<1>1. /\ queue # <<>> /\ queue \in Seq(Bytes) /\ pos \in 0 .. LineMax - 1
      /\ queue' = Tail(queue) /\ pos' = pos + 1 /\ stage' = stage /\ stage = "read"
      /\ line' = [line EXCEPT ![pos] = Head(queue)]
      /\ newline_seen' = (Head(queue) \in Newlines)
      /\ UNCHANGED <<length, commands, command>>
  BY DEF Line!TakeByte, Line!ReadOn, Line!Fifo!Read, LineType, Line!end_buf
<1>2. Head(queue) \in Bytes /\ Tail(queue) \in Seq(Bytes)
  BY <1>1, HeadTailProperties
<1>3. LineType'
  BY <1>1, <1>2 DEF LineType
<1>4. HoldsBytes'
  BY <1>1, <1>2 DEF HoldsBytes, LineType
<1> QED
  BY <1>1, <1>3, <1>4 DEF Room, LineReady, Bookkeeping

LEMMA TerminateKeeps == LineInv /\ Line!Terminate => LineInv'
<1> SUFFICES ASSUME LineInv, Line!Terminate PROVE LineInv'
  OBVIOUS
<1> USE LineSizes DEF LineInv, Line!end_buf
<1>1. Line!LineEnd \in 0 .. LineMax /\ Line!LineEnd <= pos /\ pos - 1 <= Line!LineEnd
  BY DEF Line!LineEnd, LineType, Room, Line!Terminate
<1>2. /\ stage = "terminate" /\ stage' = "execute"
      /\ UNCHANGED <<queue, newline_seen, commands, command>>
      /\ line' = [i \in 0 .. LineMax |-> IF i = pos \/ i = Line!LineEnd THEN Line!NUL ELSE line[i]]
  BY DEF Line!Terminate, Line!GoTo, Line!rx, LineType
<1>3. CASE newline_seen \/ Line!LineEnd >= Line!end_buf
  <2>1. length' = Line!LineEnd /\ pos' = 0
    BY <1>3 DEF Line!Terminate
  <2>2. \A i \in 0 .. Line!LineEnd - 1 : line'[i] \in Bytes
    BY <1>1, <1>2 DEF HoldsBytes, LineType
  <2>3. line'[Line!LineEnd] = Line!NUL
    BY <1>1, <1>2
  <2> QED
    BY <1>1, <1>2, <2>1, <2>2, <2>3 DEF LineType, HoldsBytes, Room, LineReady, Bookkeeping
<1>4. CASE ~(newline_seen \/ Line!LineEnd >= Line!end_buf)
  <2>1. length' = 0 /\ pos' = pos /\ Line!LineEnd = pos /\ pos < LineMax
    BY <1>4, <1>1 DEF Line!Terminate, Line!LineEnd, LineType
  <2>2. \A i \in 0 .. pos - 1 : line'[i] = line[i]
    BY <1>1, <1>2, <2>1 DEF LineType
  <2> QED
    BY <1>1, <1>2, <2>1, <2>2 DEF LineType, HoldsBytes, Room, LineReady, Bookkeeping
<1> QED
  BY <1>3, <1>4

\* The command that is executed is the line up to its NUL.
LEMMA LineLengthIs ==
  ASSUME LineInv, stage = "execute", length > 0
  PROVE  Line!LineLength = length
<1>1. /\ length \in 0 .. LineMax /\ line[length] = Line!NUL
      /\ \A i \in 0 .. length - 1 : line[i] # Line!NUL
  BY LineSizes DEF LineInv, LineType, LineReady
<1>2. ASSUME NEW n \in 0 .. LineMax, line[n] = Line!NUL, \A i \in 0 .. n - 1 : line[i] # Line!NUL
      PROVE  n = length
  BY <1>1, <1>2, LineSizes
<1> QED
  BY <1>1, <1>2 DEF Line!LineLength

LEMMA ExecuteKeeps == LineInv /\ Line!Execute => LineInv'
<1> SUFFICES ASSUME LineInv, Line!Execute PROVE LineInv'
  OBVIOUS
<1> USE LineSizes DEF LineInv
<1>1. UNCHANGED <<Line!rx, line, pos, newline_seen, length>> /\ stage = "execute" /\ stage' = "more?"
  BY DEF Line!Execute, Line!GoTo
<1>2. commands' \in {0, 1} /\ command' \in Seq(Bytes)
  <2>1. CASE length = 0
    BY <2>1 DEF Line!Execute, LineType
  <2>2. CASE length # 0
    <3>1. length \in 1 .. LineMax
      BY <2>2 DEF LineType
    <3>2. Line!LineLength = length
      BY <1>1, <3>1, LineLengthIs
    <3>3. command' = [i \in 1 .. length |-> line[i - 1]] /\ commands' = 1 - commands
      BY <2>2, <3>2 DEF Line!Execute
    <3>4. \A i \in 1 .. length : line[i - 1] \in Bytes
      BY <1>1, <3>1 DEF LineReady
    <3>5. command' \in [1 .. length -> Bytes]
      BY <3>3, <3>4
    <3>6. length \in Nat
      BY <3>1
    <3>7. command' \in Seq(Bytes)
      BY <3>5, <3>6
    <3> QED
      BY <3>3, <3>7 DEF LineType
  <2> QED
    BY <2>1, <2>2
<1> QED
  BY <1>1, <1>2 DEF Line!rx, LineType, HoldsBytes, Room, LineReady, Bookkeeping

\* Invariant of the loop around the buffer.
THEOREM LineInvariant == Line!LineAssumption /\ Line!Spec => []LineInv
<1>1. LineInv /\ [Line!Next]_(Line!vars) => LineInv'
  <2> SUFFICES ASSUME LineInv, [Line!Next]_(Line!vars) PROVE LineInv'
    OBVIOUS
  <2> USE DEF LineInv, LineType, HoldsBytes, Room, LineReady, Bookkeeping, Line!rx, Line!GoTo
  <2>1. CASE Line!CallReadline
    BY <2>1 DEF Line!CallReadline
  <2>2. CASE Line!EndRead
    BY <2>2 DEF Line!EndRead
  <2>3. CASE Line!More
    BY <2>3 DEF Line!More
  <2>4. CASE Line!Serve
    BY <2>4 DEF Line!Serve
  <2>5. CASE UNCHANGED Line!vars
    BY <2>5 DEF Line!vars
  <2> QED
    BY <2>1, <2>2, <2>3, <2>4, <2>5, ArriveKeeps, TakeByteKeeps, TerminateKeeps, ExecuteKeeps
       DEF Line!Next, Line!Main
<1>2. Line!LineAssumption => Ranges
  BY DEF Line!LineAssumption, Ranges
<1> QED
  BY <1>1, <1>2, LineInit, PTL DEF Line!Spec

-----------------------------------------------------------------------------
(* The refinement. *)

\* What is held, as a sequence.
LEMMA HeldIs ==
  ASSUME LineInv
  PROVE  /\ Line!Held \in Seq(Bytes)
         /\ Len(Line!Held) = pos
         /\ \A i \in 1 .. pos : Line!Held[i] = line[i - 1]
<1>1. pos \in Nat
  BY LineSizes DEF LineInv, LineType
<1>2. \A i \in 1 .. pos : line[i - 1] \in Bytes
  BY <1>1 DEF LineInv, HoldsBytes
<1>3. Line!Held \in [1 .. pos -> Bytes]
  BY <1>2 DEF Line!Held
<1> QED
  BY <1>1, <1>3 DEF Line!Held

\* The same after a step.
LEMMA HeldIsNext ==
  LineInv' => /\ Line!Held' \in Seq(Bytes)
           /\ Len(Line!Held') = pos'
           /\ \A i \in 1 .. pos' : Line!Held'[i] = line'[i - 1]
<1> DEFINE Holds == /\ Line!Held \in Seq(Bytes)
                    /\ Len(Line!Held) = pos
                    /\ \A i \in 1 .. pos : Line!Held[i] = line[i - 1]
<1>1. LineInv => Holds
  BY HeldIs
<1> HIDE DEF Holds
<1>2. LineInv' => Holds'
  BY <1>1, PTL
<1> QED
  BY <1>2 DEF Holds

\* The line that ends, without its newline.
LEMMA EndedIs ==
  ASSUME LineInv, stage \in {"read", "terminate"}
  PROVE  /\ Line!LineEnd \in 0 .. pos
         /\ Line!Ended \in Seq(Bytes)
         /\ Len(Line!Ended) = Line!LineEnd
         /\ \A i \in 1 .. Line!LineEnd : Line!Ended[i] = line[i - 1]
<1>1. Line!LineEnd \in 0 .. pos
  BY LineSizes DEF Line!LineEnd, LineInv, LineType, Room
<1>2. pos \in Nat
  BY LineSizes DEF LineInv, LineType
<1>3. \A i \in 1 .. Line!LineEnd : Line!Held[i] \in Bytes
  BY <1>1, <1>2, HeldIs, ElementOfSeq
<1> QED
  BY <1>1, <1>2, <1>3, HeldIs, SubSeqProperties DEF Line!Ended

LEMMA EndedIsNext ==
  LineInv' /\ stage' \in {"read", "terminate"} =>
      /\ Line!Ended' \in Seq(Bytes)
      /\ Len(Line!Ended') = Line!LineEnd'
      /\ \A i \in 1 .. Line!LineEnd' : Line!Ended'[i] = line'[i - 1]
<1> DEFINE Holds == /\ Line!Ended \in Seq(Bytes)
                    /\ Len(Line!Ended) = Line!LineEnd
                    /\ \A i \in 1 .. Line!LineEnd : Line!Ended[i] = line[i - 1]
           Ending == stage \in {"read", "terminate"}
<1>1. LineInv /\ Ending => Holds
  BY EndedIs
<1> HIDE DEF Holds, Ending
<1>2. LineInv' /\ Ending' => Holds'
  BY <1>1, PTL
<1> QED
  BY <1>2 DEF Holds, Ending

\* A byte of the protocol happens when the terminal takes it.
LEMMA TakeByteIsByte ==
  ASSUME LineInv, LineInv', Line!TakeByte
  PROVE  Line!Lines!Next
<1>1. /\ queue # <<>> /\ queue \in Seq(Bytes) /\ pos \in 0 .. LineMax - 1
      /\ pos' = pos + 1 /\ stage' = stage /\ stage = "read" /\ ~newline_seen
      /\ line' = [line EXCEPT ![pos] = Head(queue)]
      /\ newline_seen' = (Head(queue) \in Newlines)
      /\ UNCHANGED <<length, commands, command>>
  BY LineSizes DEF Line!TakeByte, Line!ReadOn, Line!Fifo!Read, LineInv, LineType, Line!end_buf
<1>2. PICK b \in Bytes : b = Head(queue)
  BY <1>1, HeadTailProperties
<1>2a. newline_seen' <=> b \in Newlines
  BY <1>1, <1>2, Zenon
<1>3. LineMax \in Nat /\ pos \in Nat
  BY <1>1, LineSizes
<1>4. /\ Line!Held \in Seq(Bytes) /\ Len(Line!Held) = pos
      /\ \A i \in 1 .. pos : Line!Held[i] = line[i - 1]
  BY HeldIs
<1>5. /\ Append(Line!Held, b) \in Seq(Bytes) /\ Len(Append(Line!Held, b)) = pos + 1
      /\ \A i \in 1 .. pos : Append(Line!Held, b)[i] = Line!Held[i]
      /\ Append(Line!Held, b)[pos + 1] = b
  BY <1>2, <1>4, AppendProperties
<1>6. /\ \A i \in 1 .. pos : line'[i - 1] = Line!Held[i]
      /\ line'[pos] = b
  BY <1>1, <1>2, <1>3, <1>4 DEF LineInv, LineType
<1>7. Line!Held' = Append(Line!Held, b)
  <2>1. Line!Held' \in Seq(Bytes) /\ Len(Line!Held') = pos + 1
        /\ \A i \in 1 .. pos + 1 : Line!Held'[i] = line'[i - 1]
    BY <1>1, HeldIsNext
  <2>2. ASSUME NEW i \in 1 .. pos + 1 PROVE Line!Held'[i] = Append(Line!Held, b)[i]
    <3>1. CASE i = pos + 1
      <4>1. i - 1 = pos
        BY <1>3, <3>1
      <4> QED
        BY <4>1, <1>5, <1>6, <2>1, <3>1
    <3>2. CASE i \in 1 .. pos
      BY <1>3, <1>5, <1>6, <2>1, <3>2
    <3>3. i = pos + 1 \/ i \in 1 .. pos
      BY <1>3
    <3> QED
      BY <3>1, <3>2, <3>3
  <2> QED
    BY <1>5, <2>1, <2>2, SeqEqual
<1>8. ~Line!Completing /\ ~Line!Complete /\ ~Line!Complete'
  BY <1>1, <1>3 DEF Line!Completing, Line!Complete, Line!end_buf
<1>9. ASSUME b \in Newlines PROVE Line!Lines!Byte(b)
  <2>1. Line!Completing' /\ Line!LineEnd' = pos
    BY <1>1, <1>3, <1>9, <1>2a DEF Line!Completing, Line!LineEnd
  <2>2. Line!Ended' = Line!Held
    <3>1. /\ Line!Ended' \in Seq(Bytes) /\ Len(Line!Ended') = pos
          /\ \A i \in 1 .. pos : Line!Ended'[i] = line'[i - 1]
      BY <1>1, <2>1, EndedIsNext
    <3> QED
      BY <1>4, <1>6, <3>1, SeqEqual
  <2>3. Line!Held = <<>> <=> pos = 0
    BY <1>3, <1>4, EmptySeq
  <2>4. pos > 0 <=> pos # 0
    BY <1>3
  <2> QED
    BY <1>1, <1>8, <1>9, <2>1, <2>2, <2>3, <2>4 DEF Line!Lines!Byte, Line!Lines!Complete
<1>10. ASSUME b \notin Newlines /\ pos = LineMax - 1 PROVE Line!Lines!Byte(b)
  <2>1. Line!Completing' /\ Line!LineEnd' = pos + 1 /\ pos + 1 > 0
    BY <1>1, <1>3, <1>10, <1>2a DEF Line!Completing, Line!LineEnd, Line!end_buf
  <2>2. Line!Ended' = Append(Line!Held, b)
    BY <1>1, <1>5, <1>7, <2>1, SubSeqFull DEF Line!Ended
  <2>3. Append(Line!Held, b) # <<>>
    BY <1>2, <1>4, AppendProperties
  <2> QED
    BY <1>1, <1>4, <1>8, <1>10, <2>1, <2>2, <2>3 DEF Line!Lines!Byte, Line!Lines!Complete
<1>11. ASSUME b \notin Newlines /\ pos # LineMax - 1 PROVE Line!Lines!Byte(b)
  <2>1. ~Line!Completing'
    BY <1>1, <1>3, <1>11, <1>2a DEF Line!Completing, Line!end_buf
  <2> QED
    BY <1>1, <1>4, <1>7, <1>8, <1>11, <2>1 DEF Line!Lines!Byte
<1>12. Line!Lines!Byte(b)
  BY <1>9, <1>10, <1>11
<1> QED
  BY <1>12 DEF Line!Lines!Next

\* The end of a line was in the last byte of it; making a command of it is not
\* seen.
LEMMA TerminateStutters ==
  ASSUME LineInv, LineInv', Line!Terminate
  PROVE  UNCHANGED Line!Lines!vars
<1> USE LineSizes DEF Line!end_buf
<1>1. /\ stage = "terminate" /\ stage' = "execute"
      /\ UNCHANGED <<queue, newline_seen, commands, command>>
      /\ line' = [i \in 0 .. LineMax |-> IF i = pos \/ i = Line!LineEnd THEN Line!NUL ELSE line[i]]
  BY DEF Line!Terminate, Line!GoTo, Line!rx, LineInv, LineType
<1>2. /\ Line!LineEnd \in 0 .. pos /\ Line!Ended \in Seq(Bytes) /\ Len(Line!Ended) = Line!LineEnd
      /\ \A i \in 1 .. Line!LineEnd : Line!Ended[i] = line[i - 1]
  BY <1>1, EndedIs
<1>3. pos \in 0 .. LineMax /\ length' \in 0 .. LineMax /\ pos - 1 <= Line!LineEnd
  BY <1>1 DEF Line!LineEnd, LineInv, LineType
<1>4. \A i \in 0 .. Line!LineEnd - 1 : line'[i] = line[i]
  BY <1>1, <1>2, <1>3
<1>5. ~Line!Complete /\ ~Line!Completing'
  BY <1>1 DEF Line!Complete, Line!Completing
<1>6. CASE Line!Completing
  <2>1. length' = Line!LineEnd /\ pos' = 0
    BY <1>1, <1>3, <1>6 DEF Line!Terminate, Line!Completing, Line!LineEnd
  <2>2. CASE Line!LineEnd > 0
    <3>1. Line!Complete'
      BY <1>1, <2>1, <2>2 DEF Line!Complete
    <3>2. [i \in 1 .. Line!LineEnd |-> line'[i - 1]] = Line!Ended
      <4>1. \A i \in 1 .. Line!LineEnd : line'[i - 1] = Line!Ended[i]
        BY <1>2, <1>3, <1>4
      <4>2. Line!Ended = [i \in 1 .. Line!LineEnd |-> Line!Ended[i]]
        BY <1>2, LenProperties
      <4> QED
        BY <4>1, <4>2
    <3> QED
      BY <1>1, <1>5, <1>6, <2>1, <2>2, <3>1, <3>2 DEF Line!Lines!vars
  <2>3. CASE ~(Line!LineEnd > 0)
    <3>1. ~Line!Complete'
      BY <1>1, <2>1, <2>3 DEF Line!Complete
    <3>2. Line!Held' = <<>>
      BY <2>1, HeldIsNext, EmptySeq
    <3> QED
      BY <1>1, <1>5, <1>6, <2>3, <3>1, <3>2 DEF Line!Lines!vars
  <2> QED
    BY <2>2, <2>3
<1>7. CASE ~Line!Completing
  <2>1. length' = 0 /\ pos' = pos /\ Line!LineEnd = pos
    BY <1>1, <1>3, <1>7 DEF Line!Terminate, Line!Completing, Line!LineEnd
  <2>2. ~Line!Complete'
    BY <2>1 DEF Line!Complete
  <2>3. Line!Held' = Line!Held
    <3>1. \A i \in 1 .. pos : line'[i - 1] = line[i - 1]
      BY <1>3, <1>4, <2>1
    <3> QED
      BY <2>1, <3>1 DEF Line!Held
  <2> QED
    BY <1>1, <1>5, <1>7, <2>2, <2>3 DEF Line!Lines!vars
<1> QED
  BY <1>6, <1>7

\* Nor is the execution.
LEMMA ExecuteStutters ==
  ASSUME LineInv, LineInv', Line!Execute
  PROVE  UNCHANGED Line!Lines!vars
<1>1. /\ stage = "execute" /\ stage' = "more?" /\ length \in 0 .. LineMax
      /\ UNCHANGED <<queue, line, pos, newline_seen, length>>
  BY DEF Line!Execute, Line!GoTo, Line!rx, LineInv, LineType
<1>2. ~Line!Completing /\ ~Line!Completing' /\ ~Line!Complete'
  BY <1>1 DEF Line!Completing, Line!Complete
<1>3. Line!Held' = Line!Held
  BY <1>1 DEF Line!Held
<1>4. CASE length = 0
  <2>1. ~Line!Complete /\ UNCHANGED <<commands, command>>
    BY <1>4 DEF Line!Complete, Line!Execute
  <2> QED
    BY <1>2, <1>3, <2>1 DEF Line!Lines!vars
<1>5. CASE length # 0
  <2>1. length > 0
    BY <1>1, <1>5, LineSizes
  <2>2. Line!Complete /\ pos = 0
    BY <1>1, <2>1 DEF Line!Complete, LineInv, LineReady
  <2>3. Line!Held' = <<>>
    BY <1>1, <2>2, HeldIsNext, EmptySeq
  <2>4. /\ commands' = 1 - commands
        /\ command' = [i \in 1 .. length |-> line[i - 1]]
    BY <1>1, <1>5, <2>1, LineLengthIs DEF Line!Execute
  <2> QED
    BY <1>2, <2>2, <2>3, <2>4 DEF Line!Lines!vars
<1> QED
  BY <1>4, <1>5

\* What does not touch the line.
LEMMA OthersStutter ==
  ASSUME LineInv, LineInv', Line!Arrive \/ Line!CallReadline \/ Line!EndRead \/ Line!More \/ Line!Serve \/ UNCHANGED Line!vars
  PROVE  UNCHANGED Line!Lines!vars
<1>1. UNCHANGED <<line, pos, length, commands, command>>
  BY DEF Line!Arrive, Line!CallReadline, Line!EndRead, Line!More, Line!Serve, Line!vars
<1>2. Line!Held' = Line!Held
  BY <1>1 DEF Line!Held
<1>3. CASE Line!Arrive \/ Line!EndRead \/ UNCHANGED Line!vars
  <2>1. /\ newline_seen' = newline_seen
        /\ stage' = stage \/ (stage = "read" /\ stage' = "terminate")
    BY <1>3 DEF Line!Arrive, Line!EndRead, Line!vars, Line!GoTo
  <2>2. /\ Line!Completing' <=> Line!Completing
        /\ Line!Complete' <=> Line!Complete
        /\ Line!LineEnd' = Line!LineEnd
    BY <1>1, <2>1 DEF Line!Completing, Line!Complete, Line!LineEnd, Line!end_buf
  <2>3. Line!Ended' = Line!Ended
    BY <1>2, <2>2 DEF Line!Ended
  <2> QED
    BY <1>1, <1>2, <2>2, <2>3 DEF Line!Lines!vars
<1>4. CASE Line!CallReadline \/ Line!More \/ Line!Serve
  <2>1. ~Line!Completing /\ ~Line!Complete /\ ~Line!Complete'
    BY <1>4 DEF Line!CallReadline, Line!More, Line!Serve, Line!GoTo, Line!Completing, Line!Complete
  <2>2. ~Line!Completing'
    <3>1. pos' < LineMax /\ pos' \in Nat /\ LineMax \in Nat
      BY <1>1, <1>4, LineSizes
         DEF Line!CallReadline, Line!More, Line!Serve, LineInv, LineType, Room, Bookkeeping
    <3>2. stage' \in {"read", "terminate"} => ~newline_seen'
      BY <1>4 DEF Line!CallReadline, Line!More, Line!Serve, Line!GoTo
    <3> QED
      BY <3>1, <3>2 DEF Line!Completing, Line!end_buf
  <2> QED
    BY <1>1, <1>2, <2>1, <2>2 DEF Line!Lines!vars
<1> QED
  BY <1>3, <1>4

\* Whenever bytes come, in whatever pieces, with CR, LF or both, and however
\* long the lines are: the commands are the lines of the accepted bytes.
THEOREM CommandsAreTheLines == Line!LineAssumption /\ Line!Spec => Line!ImplementsProtocol
<1>1. Line!LineAssumption /\ Line!Init => Line!Lines!Init
  <2> SUFFICES ASSUME Line!LineAssumption, Line!Init PROVE Line!Lines!Init
    OBVIOUS
  <2>1. /\ pos = 0 /\ stage = "loop" /\ commands = 0 /\ command = <<>>
    BY DEF Line!Init
  <2>2. ~Line!Completing /\ ~Line!Complete
    BY <2>1 DEF Line!Completing, Line!Complete
  <2>3. Line!Held = <<>>
    <3>1. Ranges
      BY DEF Line!LineAssumption, Ranges
    <3> QED
      BY <2>1, <3>1, LineInit, HeldIs, EmptySeq
  <2> QED
    BY <2>1, <2>2, <2>3 DEF Line!Lines!Init
<1>2. LineInv /\ LineInv' /\ [Line!Next]_(Line!vars) => [Line!Lines!Next]_(Line!Lines!vars)
  <2> SUFFICES ASSUME LineInv, LineInv', [Line!Next]_(Line!vars) PROVE Line!Lines!Next \/ UNCHANGED Line!Lines!vars
    OBVIOUS
  <2> QED
    BY TakeByteIsByte, TerminateStutters, ExecuteStutters, OthersStutter DEF Line!Next, Line!Main
<1> QED
  BY <1>1, <1>2, LineInvariant, PTL DEF Line!Spec, Line!ImplementsProtocol, Line!Lines!Spec
=============================================================================
