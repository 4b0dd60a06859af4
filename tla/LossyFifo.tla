------------------------------ MODULE LossyFifo ------------------------------
(***************************************************************************)
(* What the receiving half of SerialCom promises: a first-in first-out     *)
(* queue of bytes that refuses a byte only when it is full, and counts     *)
(* what it refuses.                                                        *)
(***************************************************************************)
EXTENDS Naturals, Sequences

CONSTANTS Bytes, Capacity, CountSize

VARIABLES queue,     \* bytes received and not yet read
          lost,      \* bytes refused, modulo CountSize
          got        \* the byte the last read returned, <<>> before the first

vars == <<queue, lost, got>>

Init == queue = <<>> /\ lost = 0 /\ got = <<>>

Accept(b) ==
    /\ Len(queue) < Capacity
    /\ queue' = Append(queue, b)
    /\ UNCHANGED <<lost, got>>

Refuse ==
    /\ Len(queue) = Capacity
    /\ lost' = (lost + 1) % CountSize
    /\ UNCHANGED <<queue, got>>

Read ==
    /\ queue # <<>>
    /\ got' = <<Head(queue)>>
    /\ queue' = Tail(queue)
    /\ UNCHANGED lost

Next == (\E b \in Bytes : Accept(b)) \/ Refuse \/ Read

Spec == Init /\ [][Next]_vars
=============================================================================
