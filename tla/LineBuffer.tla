------------------------------ MODULE LineBuffer ------------------------------
(***************************************************************************)
(* LineBuffer of firmware/terminal-main.cc and the loop around it: bytes   *)
(* come in at any time and fill the receive buffer (SerialCom, here the    *)
(* queue it implements), the main loop cuts them into commands and, when   *)
(* there is nothing to read, serves the keypad and the card reader.        *)
(***************************************************************************)
EXTENDS Naturals, Sequences

CONSTANTS
    Bytes, Newlines,     \* Newlines: CR and LF
    LineMax,             \* sizeof(buffer_) - 1, 32
    Capacity,            \* of the receive buffer, 63
    CountSize            \* of its counter of lost bytes

NUL == "NUL"

ASSUME LineAssumption ==
    /\ LineMax \in Nat \ {0} /\ Newlines \subseteq Bytes /\ NUL \notin Bytes
    /\ Capacity \in Nat \ {0} /\ CountSize \in Nat \ {0}

VARIABLES
    queue, lost, got,    \* the receive buffer
    buffer, pos,         \* buffer_, and pos_ as an index into it
    newline_seen,        \* local of ReadlineNoblock
    pc,                  \* "loop", "read", "terminate", "execute", "more?", "serve"
    length,              \* what ReadlineNoblock returned
    commands, command    \* history: commands modulo two, and the last one

rx == <<queue, lost, got>>
vars == <<rx, buffer, pos, newline_seen, pc, length, commands, command>>

Fifo == INSTANCE LossyFifo

Init ==
    /\ Fifo!Init
    /\ buffer = [i \in 0 .. LineMax |-> NUL] /\ pos = 0
    /\ newline_seen = FALSE /\ pc = "loop" /\ length = 0
    /\ commands = 0 /\ command = <<>>

GoTo(there) == pc' = there

\* The interrupt, whatever the main loop does.
Arrive ==
    /\ (\E b \in Bytes : Fifo!Accept(b)) \/ Fifo!Refuse
    /\ UNCHANGED <<buffer, pos, newline_seen, pc, length, commands, command>>

-----------------------------------------------------------------------------
CallReadline ==
    /\ pc = "loop" /\ GoTo("read")
    /\ newline_seen' = FALSE
    /\ UNCHANGED <<rx, buffer, pos, length, commands, command>>

end_buf == LineMax

ReadOn == ~newline_seen /\ queue # <<>> /\ pos < end_buf

TakeByte ==
    /\ pc = "read" /\ ReadOn
    /\ Fifo!Read
    /\ buffer' = [buffer EXCEPT ![pos] = Head(queue)]
    /\ pos' = pos + 1
    /\ newline_seen' = (Head(queue) \in Newlines)
    /\ UNCHANGED <<pc, length, commands, command>>

\* The loop has looked at what was there; what comes later has to wait.
EndRead ==
    /\ pc = "read" /\ ~ReadOn
    /\ GoTo("terminate")
    /\ UNCHANGED <<rx, buffer, pos, newline_seen, length, commands, command>>

\* The slip.
LineEnd_WithNewline == pos

\* The newline is not part of the line.
LineEnd == IF newline_seen THEN pos - 1 ELSE pos

\* The slip.
Terminate_OnlyNewline ==
    /\ pc = "terminate"
    /\ buffer' = [i \in DOMAIN buffer |->
                    IF i = pos \/ i = LineEnd THEN NUL ELSE buffer[i]]
    /\ IF newline_seen
       THEN length' = LineEnd /\ pos' = 0
       ELSE length' = 0 /\ pos' = LineEnd
    /\ GoTo("execute")
    /\ UNCHANGED <<rx, newline_seen, commands, command>>

Terminate ==
    /\ pc = "terminate"
    /\ buffer' = [i \in DOMAIN buffer |->
                    IF i = pos \/ i = LineEnd THEN NUL ELSE buffer[i]]
    /\ IF newline_seen \/ LineEnd >= end_buf
       THEN length' = LineEnd /\ pos' = 0
       ELSE length' = 0 /\ pos' = LineEnd
    /\ GoTo("execute")
    /\ UNCHANGED <<rx, newline_seen, commands, command>>

\* The command reads the line up to its NUL.
LineLength == CHOOSE n \in 0 .. LineMax :
                buffer[n] = NUL /\ \A i \in 0 .. n - 1 : buffer[i] # NUL

Execute ==
    /\ pc = "execute"
    /\ IF length = 0 THEN UNCHANGED <<commands, command>>
       ELSE /\ commands' = 1 - commands
            /\ command' = [i \in 1 .. LineLength |-> buffer[i - 1]]
    /\ GoTo("more?")
    /\ UNCHANGED <<rx, buffer, pos, newline_seen, length>>

\* The slip.
More_Partial ==
    /\ pc = "more?"
    /\ GoTo(IF queue # <<>> \/ pos # 0 THEN "loop" ELSE "serve")
    /\ UNCHANGED <<rx, buffer, pos, newline_seen, length, commands, command>>

\* Bytes that wait come before the keypad and the card reader.
More ==
    /\ pc = "more?"
    /\ GoTo(IF queue # <<>> THEN "loop" ELSE "serve")
    /\ UNCHANGED <<rx, buffer, pos, newline_seen, length, commands, command>>

Serve ==
    /\ pc = "serve" /\ GoTo("loop")
    /\ UNCHANGED <<rx, buffer, pos, newline_seen, length, commands, command>>

Main == CallReadline \/ TakeByte \/ EndRead \/ Terminate \/ Execute \/ More \/ Serve

Next == Arrive \/ Main

\* The main loop runs; nobody has to send.
Spec == Init /\ [][Next]_vars /\ WF_vars(Main)

-----------------------------------------------------------------------------
\* The bytes the terminal has taken from the queue and not made a command of.
Held == [i \in 1 .. pos |-> buffer[i - 1]]

\* A byte of the protocol happens when it is taken, a line when it is executed:
\* between the two the line is complete but for its name.
Complete == pc = "execute" /\ length > 0
Completing == pc \in {"read", "terminate"} /\ (newline_seen \/ pos >= end_buf)

Ended == SubSeq(Held, 1, LineEnd)

Lines == INSTANCE LineProtocol WITH
    partial <- IF Completing \/ Complete THEN <<>> ELSE Held,
    commands <- IF Complete \/ (Completing /\ LineEnd > 0) THEN 1 - commands ELSE commands,
    command <- IF Complete THEN [i \in 1 .. length |-> buffer[i - 1]]
               ELSE IF Completing /\ LineEnd > 0 THEN Ended ELSE command

\* Whenever bytes come, in whatever pieces, with CR, LF or both, with lines
\* that are too long and with what earlier lines left in the buffer: the
\* commands are the lines of the bytes the terminal accepted.
ImplementsProtocol == Lines!Spec

\* A command that waits in the queue is executed, whatever comes behind it.
Waiting == \E i, j \in DOMAIN queue :
              i < j /\ queue[i] \notin Newlines /\ queue[j] \in Newlines

CommandsAreExecuted == Waiting ~> pc = "execute" /\ length > 0

\* A line that has begun but does not end does not keep the keypad and the card
\* reader from being served.
ServesInSilence == <>[](queue = <<>>) => []<>(pc = "serve")
=============================================================================
