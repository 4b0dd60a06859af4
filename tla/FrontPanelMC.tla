----------------------------- MODULE FrontPanelMC -----------------------------
(***************************************************************************)
(* One key, a clock of ten ticks, tones of three ticks and of ten ms,      *)
(* which the width of the clock makes a tone of none.                      *)
(***************************************************************************)
EXTENDS FrontPanel, TLC

OneKey == "5" :> <<2, 2>>
=============================================================================
