------------------------------- MODULE MCBoot -------------------------------
(* The boot decision and the console: the code's threshold of failed boots *)
(* and two kinds of crash, keyboard rings of three places, lines of two.   *)
EXTENDS Console, TLC

CONSTANTS c1, c2

MCCrashes == {c1, c2}
Interchangeable == Permutations(MCCrashes)
=============================================================================
