-------------------------- MODULE TerminalCommandsMC --------------------------
(***************************************************************************)
(* A line of each kind, among them two names that differ, texts too long   *)
(* and too short for a row, a row number that is none, and a rate that is  *)
(* valid only modulo 2^16.                                                 *)
(***************************************************************************)
EXTENDS TerminalCommands

SomeLines == {
    <<110>>,                            \* n
    <<77, 48, 65, 66>>,                 \* M0AB
    <<77, 48>>,                         \* M0
    <<77, 49, 66>>,                     \* M1B
    <<77, 32, 66>>,                     \* M, a space, B
    <<76, 82>>,                         \* LR
    <<78, 97, 99, 100>>,                \* Nacd
    <<78, 97, 99, 101>>,                \* Nace
    <<66, 32, 49>>,                     \* B 1
    <<66, 49, 48, 51, 57, 51, 54>>,     \* B103936
    <<70, 75>>}                         \* FK

\* Garbage: a name without an end, and a rate that is none but has the upper
\* byte of one nobody uses (19200 is 16#4B00, as 38400 is 16#9600).
SomeEeproms == {[name |-> <<255, 255>>, baud |-> 256 * 75 + 255, flag |-> FALSE]}
=============================================================================
