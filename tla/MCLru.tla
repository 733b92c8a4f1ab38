------------------------------- MODULE MCLru -------------------------------
(* Instances of Lru for TLC. *)
EXTENDS Lru, TLC

WorkersAndKeys == Permutations(Workers) \cup Permutations(Keys)
=============================================================================
