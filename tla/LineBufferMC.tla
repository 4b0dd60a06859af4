----------------------------- MODULE LineBufferMC -----------------------------
(***************************************************************************)
(* Lines of three bytes, two letters, CR and LF.                           *)
(***************************************************************************)
EXTENDS LineBuffer

SomeBytes == {"x", "y", "CR", "LF"}
=============================================================================
