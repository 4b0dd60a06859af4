------------------------------ MODULE Broadcast ------------------------------
(***************************************************************************)
(* What the application bus promises: everybody who is a member when an    *)
(* event is published gets it, once, all members in the same order, and    *)
(* the events of one publisher in the order it published them.             *)
(*                                                                         *)
(* An event is its publisher and a bit that tells it from the publisher's  *)
(* previous one.                                                           *)
(***************************************************************************)
EXTENDS Naturals, Sequences

CONSTANT Goroutines

VARIABLES members,  \* who gets what is published
          pending,  \* per member, the events it has yet to receive
          next      \* per publisher, the bit of its next event
vars == <<members, pending, next>>

Init == /\ members = {}
        /\ pending = [g \in Goroutines |-> <<>>]
        /\ next = [g \in Goroutines |-> 0]

Join(g) == /\ members' = members \cup {g}
           /\ UNCHANGED <<pending, next>>

Leave(g) == /\ members' = members \ {g}
            /\ pending' = [pending EXCEPT ![g] = <<>>]
            /\ UNCHANGED next

Publish(p) == /\ pending' = [g \in Goroutines |->
                               IF g \in members THEN Append(pending[g], <<p, next[p]>>)
                               ELSE pending[g]]
              /\ next' = [next EXCEPT ![p] = 1 - @]
              /\ UNCHANGED members

Receive(g) == /\ pending[g] # <<>>
              /\ pending' = [pending EXCEPT ![g] = Tail(@)]
              /\ UNCHANGED <<members, next>>

Next == \E g \in Goroutines : Join(g) \/ Leave(g) \/ Publish(g) \/ Receive(g)
Spec == Init /\ [][Next]_vars
==============================================================================
