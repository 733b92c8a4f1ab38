------------------------------- MODULE MCTsh -------------------------------
(* Instances of Tsh for TLC. *)
EXTENDS Tsh, TLC

OnePid == 1 .. 1
TwoPids == 1 .. 2

CleanMask == {{}}                  \* mask_chld happens to be empty
AnyMask == SUBSET {"INT", "TSTP"}  \* or holds other signals
=============================================================================
