----------------------------- MODULE LineProtocol -----------------------------
(***************************************************************************)
(* The serial protocol as the host sees it: the bytes the terminal accepts *)
(* form lines; an end of line completes the line before it, and so does    *)
(* the last byte that fits. A line that is not empty is a command.         *)
(***************************************************************************)
EXTENDS Naturals, Sequences

CONSTANTS Bytes, Newlines, LineMax

VARIABLES partial,      \* the line so far
          commands,     \* commands there were, modulo two
          command       \* the last one

vars == <<partial, commands, command>>

Init == partial = <<>> /\ commands = 0 /\ command = <<>>

Complete(line) ==
    /\ partial' = <<>>
    /\ IF line = <<>> THEN UNCHANGED <<commands, command>>
       ELSE commands' = 1 - commands /\ command' = line

Byte(b) ==
    IF b \in Newlines THEN Complete(partial)
    ELSE IF Len(partial) = LineMax - 1 THEN Complete(Append(partial, b))
    ELSE partial' = Append(partial, b) /\ UNCHANGED <<commands, command>>

Next == \E b \in Bytes : Byte(b)

Spec == Init /\ [][Next]_vars
=============================================================================
