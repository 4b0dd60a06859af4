--------------------------- MODULE ApplicationBusMC ---------------------------
(***************************************************************************)
(* gpio is GPIOActions (a channel of 2), log the collector of an API       *)
(* (unbuffered), gate a terminal (2), api an API connection (3) and web    *)
(* somebody posting through the HTTP API.                                  *)
(***************************************************************************)
EXTENDS ApplicationBus, TLC

CONSTANTS gpio, log, gate, api, web

MCCapacity == [g \in Goroutines |-> IF g = log THEN 1 ELSE IF g = api THEN 3 ELSE 2]

\* One listens and leaves, one listens and posts, one is no listener.
BusyCalls == (log :> {"subscribe", "unsubscribe"})
             @@ (gate :> {"subscribe", "post"})
             @@ (web :> {"post", "flush", "shutdown"})

\* A terminal that posts from its event loop.
PostingCalls == [g \in Goroutines |-> IF g = gate THEN {"subscribe", "post"}
                                     ELSE {"post"}]

\* A connection that ends.
LeavingCalls == [g \in Goroutines |-> IF g = api THEN {"subscribe", "unsubscribe"}
                                     ELSE {"post"}]

\* The use of Flush in accesshandler_test.go: post, flush, look.
TestCalls == [g \in Goroutines |-> IF g = log THEN {"subscribe"}
                                  ELSE {"post", "flush"}]
=============================================================================
