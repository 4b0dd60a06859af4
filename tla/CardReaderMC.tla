----------------------------- MODULE CardReaderMC -----------------------------
(***************************************************************************)
(* Two cards of two cascade levels that collide in the first and share the *)
(* second, so that one can go on where the other was left; two that        *)
(* collide in the first bit of their second byte.                          *)
(***************************************************************************)
EXTENDS CardReader, TLC

TwoCards == "a" :> <<4, 2, 3, 9, 16, 0, 1>> @@ "b" :> <<20, 2, 3, 9, 16, 0, 1>>
InSecondByte == "a" :> <<4, 2, 3, 9>> @@ "b" :> <<4, 3, 3, 9>>
=============================================================================
