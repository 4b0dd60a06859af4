---------------------------- MODULE SerialComMC ----------------------------
(***************************************************************************)
(* SerialCom with a buffer of four slots, two bytes and a counter of two   *)
(* times three values.                                                     *)
(***************************************************************************)
EXTENDS SerialCom

SomeBytes == {"x", "y"}
=============================================================================
